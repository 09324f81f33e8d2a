----------------------------- MODULE RconProofs -----------------------------
(***************************************************************************)
(* Proofs about the remote console, for every set of commands and every    *)
(* number of sessions.                                                     *)
(***************************************************************************)
EXTENDS Rcon, SeqFoldProofs

Command == Callers \cup {0}

PCs == {"none", "start", "wait", "status", "handle", "read", "eof", "done", "abort"}

(* The types of the variables *)
TypeOK ==
    /\ password \in {"none", "right", "wrong"}
    /\ sess \in Nat /\ made \in Nat
    /\ pc \in PCs
    /\ auth_ok \in BOOLEAN
    /\ response \in Seq(Message) /\ wire \in Seq(Message)
    /\ conn \in {"open", "eof", "reset"}
    /\ waiters \in Seq(Callers)
    /\ requests \in Seq(Callers \cup {"auth"})
    /\ answered \in Seq(Callers) /\ printed \in Seq(Command)
    /\ early \in BOOLEAN /\ lost \in BOOLEAN

-----------------------------------------------------------------------------
(* Messages *)

(* Messages that reply to no command: what a server says about a password. *)
Silent == {Value(0, b) : b \in Bodies} \cup {AuthResponse(ok) : ok \in BOOLEAN}

(* Their fields *)
LEMMA MessageFields ==
    /\ \A c \in Command, b \in Bodies :
          /\ Value(c, b) \in Message
          /\ Value(c, b).type = "value" /\ Value(c, b).of = c /\ Value(c, b).body = b
    /\ \A ok \in BOOLEAN :
          /\ AuthResponse(ok) \in Message
          /\ AuthResponse(ok).type = "auth_response" /\ AuthResponse(ok).ok = ok
    /\ Silent \subseteq Message
    /\ \A m \in Message : m.type = "value" => m.of \in Command
    /\ \A m \in Silent : m.type = "value" => m.of = 0
<1>1. ASSUME NEW c \in Command, NEW b \in Bodies
      PROVE  /\ Value(c, b) \in Message
             /\ Value(c, b).type = "value" /\ Value(c, b).of = c /\ Value(c, b).body = b
  <2>1. Value(c, b) \in Message
    BY DEF Message, Command
  <2>2. Value(c, b).type = "value" /\ Value(c, b).of = c /\ Value(c, b).body = b
    BY DEF Value
  <2> QED
    BY <2>1, <2>2
<1>2. ASSUME NEW ok \in BOOLEAN
      PROVE  /\ AuthResponse(ok) \in Message
             /\ AuthResponse(ok).type = "auth_response" /\ AuthResponse(ok).ok = ok
  <2>1. AuthResponse(ok) \in Message
    BY DEF Message
  <2>2. AuthResponse(ok).type = "auth_response" /\ AuthResponse(ok).ok = ok
    BY DEF AuthResponse
  <2> QED
    BY <2>1, <2>2
<1>3. Silent \subseteq Message
  BY DEF Silent, Message
<1>4. ASSUME NEW m \in Message, m.type = "value"
      PROVE  m.of \in Command
  <2>1. CASE \E c \in Command, b \in Bodies : m = Value(c, b)
    BY <2>1, <1>1
  <2>2. CASE \E ok \in BOOLEAN : m = AuthResponse(ok)
    <3>1. "auth_response" # "value"
      OBVIOUS
    <3> QED
      BY <2>2, <1>2, <1>4, <3>1
  <2> QED
    BY <2>1, <2>2 DEF Message, Command
<1>5. ASSUME NEW m \in Silent, m.type = "value"
      PROVE  m.of = 0
  <2>1. 0 \in Command
    BY DEF Command
  <2>2. CASE \E b \in Bodies : m = Value(0, b)
    BY <2>1, <2>2, <1>1
  <2>3. CASE \E ok \in BOOLEAN : m = AuthResponse(ok)
    <3>1. "auth_response" # "value"
      OBVIOUS
    <3> QED
      BY <2>3, <1>2, <1>5, <3>1
  <2> QED
    BY <2>2, <2>3 DEF Silent
<1> QED
  BY <1>1, <1>2, <1>3, <1>4, <1>5

(* The commands replied to are put together from those of the parts.       *)
LEMMA CommandsProperties ==
    /\ Commands(<<>>) = <<>>
    /\ \A s \in Seq(Message) : Commands(s) \in Seq(Command)
    /\ \A s, t \in Seq(Message) : Commands(s \o t) = Commands(s) \o Commands(t)
    /\ \A c \in Command, b \in Bodies : Commands(<<Value(c, b)>>) = <<c>>
<1>1. \A cs \in Seq(Command), m \in Message :
          AddCommand[cs][m] = IF m.type = "value" THEN Append(cs, m.of) ELSE cs
  BY DEF AddCommand, Command
<1>2. ASSUME NEW cs \in Seq(Command), NEW m \in Message
      PROVE  AddCommand[cs][m] \in Seq(Command)
  <2>1. m.type = "value" => Append(cs, m.of) \in Seq(Command)
    BY MessageFields, AppendProperties
  <2> QED
    BY <1>1, <2>1
<1>3. ASSUME NEW a \in Seq(Command), NEW cs \in Seq(Command), NEW m \in Message
      PROVE  AddCommand[a \o cs][m] = a \o AddCommand[cs][m]
  <2>1. a \o cs \in Seq(Command)
    BY ConcatProperties
  <2>2. CASE m.type # "value"
    BY <1>1, <2>1, <2>2
  <2>3. CASE m.type = "value"
    <3> DEFINE c == m.of
    <3>1. c \in Command /\ <<c>> \in Seq(Command)
      BY <2>3, MessageFields
    <3>2. AddCommand[a \o cs][m] = Append(a \o cs, c) /\ AddCommand[cs][m] = Append(cs, c)
      BY <1>1, <2>1, <2>3
    <3> HIDE DEF c
    <3>3. Append(a \o cs, c) = (a \o cs) \o <<c>> /\ Append(cs, c) = cs \o <<c>>
      BY <2>1, <3>1, AppendIsConcat
    <3>4. (a \o cs) \o <<c>> = a \o (cs \o <<c>>)
      BY <3>1, ConcatAssociative
    <3> QED
      BY <3>2, <3>3, <3>4
  <2> QED
    BY <2>2, <2>3
<1>4. Appends(AddCommand, Message, Command)
  BY <1>2, <1>3 DEF Appends
<1>5. Commands(<<>>) = <<>>
  BY FoldEmpty DEF Commands
<1>6. ASSUME NEW s \in Seq(Message)
      PROVE  Commands(s) \in Seq(Command)
  BY <1>4, FoldIsSeq DEF Commands
<1>7. ASSUME NEW s \in Seq(Message), NEW t \in Seq(Message)
      PROVE  Commands(s \o t) = Commands(s) \o Commands(t)
  BY <1>4, FoldConcat DEF Commands
<1>8. ASSUME NEW c \in Command, NEW b \in Bodies
      PROVE  Commands(<<Value(c, b)>>) = <<c>>
  <2> DEFINE m == Value(c, b)
  <2>1. m \in Message /\ m.type = "value" /\ m.of = c
    BY MessageFields
  <2> HIDE DEF m
  <2>2. Commands(<<m>>) = AddCommand[<<>>][m]
    BY <2>1, FoldOne DEF Commands
  <2>3. <<>> \in Seq(Command)
    BY EmptySeq
  <2>4. AddCommand[<<>>][m] = Append(<<>>, c)
    BY <1>1, <2>1, <2>3
  <2>5. Commands(<<m>>) = <<c>>
    BY <2>2, <2>4
  <2> QED
    BY <2>5 DEF m
<1> QED
  BY <1>5, <1>6, <1>7, <1>8

(* So are the replies among them.                                          *)
LEMMA RepliesProperties ==
    /\ Replies(<<>>) = <<>>
    /\ \A s \in Seq(Command) : Replies(s) \in Seq(Callers)
    /\ \A s, t \in Seq(Command) : Replies(s \o t) = Replies(s) \o Replies(t)
    /\ \A c \in Callers : Replies(<<c>>) = <<c>>
<1>1. \A cs \in Seq(Callers), c \in Command :
          AddReply[cs][c] = IF c = 0 THEN cs ELSE Append(cs, c)
  BY DEF AddReply, Command
<1>2. ASSUME NEW cs \in Seq(Callers), NEW c \in Command
      PROVE  AddReply[cs][c] \in Seq(Callers)
  <2>1. c # 0 => c \in Callers
    BY DEF Command
  <2>2. c # 0 => Append(cs, c) \in Seq(Callers)
    BY <2>1, AppendProperties
  <2> QED
    BY <1>1, <2>2
<1>3. ASSUME NEW a \in Seq(Callers), NEW cs \in Seq(Callers), NEW c \in Command
      PROVE  AddReply[a \o cs][c] = a \o AddReply[cs][c]
  <2>1. a \o cs \in Seq(Callers)
    BY ConcatProperties
  <2>2. CASE c = 0
    BY <1>1, <2>1, <2>2
  <2>3. CASE c # 0
    <3>1. c \in Callers /\ <<c>> \in Seq(Callers)
      BY <2>3 DEF Command
    <3>2. AddReply[a \o cs][c] = Append(a \o cs, c) /\ AddReply[cs][c] = Append(cs, c)
      BY <1>1, <2>1, <2>3
    <3>3. Append(a \o cs, c) = (a \o cs) \o <<c>> /\ Append(cs, c) = cs \o <<c>>
      BY <2>1, <3>1, AppendIsConcat
    <3>4. (a \o cs) \o <<c>> = a \o (cs \o <<c>>)
      BY <3>1, ConcatAssociative
    <3> QED
      BY <3>2, <3>3, <3>4
  <2> QED
    BY <2>2, <2>3
<1>4. Appends(AddReply, Command, Callers)
  BY <1>2, <1>3 DEF Appends
<1>5. Replies(<<>>) = <<>>
  BY FoldEmpty DEF Replies
<1>6. ASSUME NEW s \in Seq(Command)
      PROVE  Replies(s) \in Seq(Callers)
  BY <1>4, FoldIsSeq DEF Replies
<1>7. ASSUME NEW s \in Seq(Command), NEW t \in Seq(Command)
      PROVE  Replies(s \o t) = Replies(s) \o Replies(t)
  BY <1>4, FoldConcat DEF Replies
<1>8. ASSUME NEW c \in Callers
      PROVE  Replies(<<c>>) = <<c>>
  <2>1. c \in Command /\ c # 0
    BY RconAssumption DEF Command
  <2>2. Replies(<<c>>) = AddReply[<<>>][c]
    BY <2>1, FoldOne DEF Replies
  <2>3. <<>> \in Seq(Callers)
    BY EmptySeq
  <2>4. AddReply[<<>>][c] = Append(<<>>, c)
    BY <1>1, <2>1, <2>3
  <2> QED
    BY <2>2, <2>4
<1> QED
  BY <1>5, <1>6, <1>7, <1>8

(* What a server says about a password is no reply to a command.           *)
LEMMA SilentReplies ==
    ASSUME NEW s \in Seq(Silent)
    PROVE  s \in Seq(Message) /\ Replies(Commands(s)) = <<>>
<1> DEFINE Zero == {0}
           None == {<<>>}
<1>1. s \in Seq(Message)
  BY MessageFields, SeqMonotonic
<1>2. Commands(s) \in Seq(Zero)
  <2>1. \A a \in Seq(Zero) : \A i \in 1 .. Len(s) : AddCommand[a][s[i]] \in Seq(Zero)
    <3> SUFFICES ASSUME NEW a \in Seq(Zero), NEW i \in 1 .. Len(s)
                 PROVE  AddCommand[a][s[i]] \in Seq(Zero)
      OBVIOUS
    <3>1. s[i] \in Silent /\ s[i] \in Message
      BY MessageFields, ElementOfSeq
    <3>2. a \in Seq(Callers \cup {0})
      <4>1. Zero \subseteq Callers \cup {0}
        OBVIOUS
      <4> QED
        BY <4>1, SeqMonotonic
    <3>3. AddCommand[a][s[i]] = IF s[i].type = "value" THEN Append(a, s[i].of) ELSE a
      BY <3>1, <3>2 DEF AddCommand
    <3>4. s[i].type = "value" => s[i].of \in Zero
      BY <3>1, MessageFields
    <3> HIDE DEF Zero
    <3>5. s[i].type = "value" => Append(a, s[i].of) \in Seq(Zero)
      BY <3>4, AppendProperties
    <3> QED
      BY <3>3, <3>5
  <2>2. <<>> \in Seq(Zero)
    BY EmptySeq
  <2>3. Fold(AddCommand, <<>>, s) \in Seq(Zero)
    <3> HIDE DEF Zero
    <3> QED
      BY <2>1, <2>2, FoldInvariant
  <2> QED
    BY <2>3 DEF Commands
<1> DEFINE cs == Commands(s)
<1>3. cs \in Seq(Zero)
  BY <1>2
<1> HIDE DEF cs
<1>4. Replies(cs) \in None
  <2>1. \A a \in None : \A i \in 1 .. Len(cs) : AddReply[a][cs[i]] \in None
    <3> SUFFICES ASSUME NEW i \in 1 .. Len(cs)
                 PROVE  AddReply[<<>>][cs[i]] = <<>>
      OBVIOUS
    <3>1. cs[i] = 0
      BY <1>3, ElementOfSeq
    <3>2. <<>> \in Seq(Callers)
      BY EmptySeq
    <3> QED
      BY <3>1, <3>2 DEF AddReply
  <2>2. <<>> \in None
    OBVIOUS
  <2>3. Fold(AddReply, <<>>, cs) \in None
    <3> HIDE DEF None, Zero
    <3> QED
      BY <1>3, <2>1, <2>2, FoldInvariant
  <2> QED
    BY <2>3 DEF Replies
<1>5. Replies(cs) = <<>>
  BY <1>4, Zenon
<1> QED
  BY <1>1, <1>5 DEF cs

-----------------------------------------------------------------------------
(* The invariant *)

(* What is on its way while a right password is being checked, as long as  *)
(* no command was sent: the request, or the answer with or without the     *)
(* acknowledgement in front of it.                                         *)
Handshake ==
    \/ requests = <<"auth">> /\ wire = <<>> /\ response = <<>>
    \/ /\ requests = <<>> /\ wire = <<AuthResponse(TRUE)>>
       /\ response = <<>> \/ response = <<Value(0, "empty")>>
    \/ /\ requests = <<>> /\ wire = <<Value(0, "empty"), AuthResponse(TRUE)>>
       /\ response = <<>>

Authenticating ==
    password = "right" /\ ~early /\ conn = "open" =>
        /\ pc = "start" => requests = <<>> /\ wire = <<>> /\ response = <<>>
        /\ pc = "wait" => Handshake
        /\ pc = "status" => auth_ok

(* No command was replied to before the answer about the password, unless  *)
(* one was sent before it.                                                 *)
Unanswered ==
    pc \in {"start", "wait"} /\ password # "none" /\ ~early =>
        /\ answered = <<>> /\ printed = <<>>
        /\ requests = <<>> \/ (requests = <<"auth">> /\ pc = "wait")
        /\ response \in Seq(Silent) /\ wire \in Seq(Silent)

(* Only a reader with a password waits for an answer about it.             *)
Asked == pc = "wait" => password # "none"

Inductive ==
    /\ TypeOK
    /\ SessionsAlive
    /\ Authenticating
    /\ Asked /\ Unanswered /\ RepliesAccounted

(* What is read of the connection and what is left of it make it up.       *)
LEMMA SplitSeq ==
    ASSUME NEW X, NEW s \in Seq(X), NEW n \in 0 .. Len(s)
    PROVE  /\ SubSeq(s, 1, n) \in Seq(X)
           /\ SubSeq(s, n + 1, Len(s)) \in Seq(X)
           /\ SubSeq(s, 1, n) \o SubSeq(s, n + 1, Len(s)) = s
<1> DEFINE m == Len(s)
<1>1. m \in Nat /\ n \in Nat /\ n <= m
  BY LenProperties
<1>2. \A i \in 1 .. m : s[i] \in X
  BY ElementOfSeq
<1> HIDE DEF m
<1>3. SubSeq(s, 1, n) \in Seq(X)
  <2>1. 1 \in Int /\ n \in Int /\ \A i \in 1 .. n : s[i] \in X
    BY <1>1, <1>2
  <2> QED
    BY <2>1, SubSeqProperties
<1>4. SubSeq(s, n + 1, m) \in Seq(X)
  <2>1. n + 1 \in Int /\ m \in Int /\ \A i \in n + 1 .. m : s[i] \in X
    BY <1>1, <1>2
  <2> QED
    BY <2>1, SubSeqProperties
<1>5. SubSeq(s, 1, n) \o SubSeq(s, n + 1, m) = SubSeq(s, 1, m)
  <2>1. 1 \in 1 .. m + 1 /\ n \in (1 - 1) .. m /\ m \in n .. m
    BY <1>1
  <2> QED
    BY <2>1, ConcatAdjacentSubSeq DEF m
<1>6. SubSeq(s, 1, m) = s
  BY SubSeqFull DEF m
<1> QED
  BY <1>3, <1>4, <1>5, <1>6, Zenon DEF m

(* The answer to a command, of one message or two, replies to it.          *)
LEMMA AnswerMessages ==
    ASSUME NEW c \in Callers, NEW bs \in {<<b>> : b \in Bodies} \cup (Bodies \X Bodies)
    PROVE  LET msgs == [i \in DOMAIN bs |-> Value(c, bs[i])]
               cs   == [i \in DOMAIN bs |-> c]
           IN  /\ msgs \in Seq(Message)
               /\ cs \in Seq(Callers)
               /\ Replies(Commands(msgs)) = cs
<1> DEFINE msgs == [i \in DOMAIN bs |-> Value(c, bs[i])]
           cs == [i \in DOMAIN bs |-> c]
<1>0. c \in Command
  BY DEF Command
<1>1. ASSUME NEW b \in Bodies
      PROVE  /\ <<Value(c, b)>> \in Seq(Message)
             /\ Commands(<<Value(c, b)>>) = <<c>>
             /\ <<c>> \in Seq(Command) /\ <<c>> \in Seq(Callers)
             /\ Replies(<<c>>) = <<c>>
  <2>1. Value(c, b) \in Message
    BY <1>0, MessageFields
  <2>2. <<c>> \in Seq(Command) /\ <<c>> \in Seq(Callers)
    BY <1>0
  <2>3. Commands(<<Value(c, b)>>) = <<c>>
    BY <1>0, CommandsProperties
  <2>4. Replies(<<c>>) = <<c>>
    BY RepliesProperties
  <2> QED
    BY <2>1, <2>2, <2>3, <2>4
<1>2. CASE bs \in {<<b>> : b \in Bodies}
  <2>1. PICK b \in Bodies : bs = <<b>>
    BY <1>2
  <2>2. DOMAIN bs = 1 .. 1 /\ bs[1] = b
    BY <2>1
  <2>3. msgs = <<Value(c, b)>> /\ cs = <<c>>
    BY <2>2
  <2> HIDE DEF msgs, cs
  <2>4. msgs \in Seq(Message) /\ cs \in Seq(Callers) /\ Replies(Commands(msgs)) = cs
    BY <1>1, <2>3
  <2> QED
    BY <2>4 DEF msgs, cs
<1>3. CASE bs \in Bodies \X Bodies
  <2>1. PICK a \in Bodies, b \in Bodies : bs = <<a, b>>
    BY <1>3
  <2>2. DOMAIN bs = 1 .. 2 /\ bs[1] = a /\ bs[2] = b
    BY <2>1
  <2> DEFINE m1 == <<Value(c, a)>>
             m2 == <<Value(c, b)>>
             c1 == <<c>>
  <2>3. msgs = m1 \o m2 /\ cs = c1 \o c1
    <3>1. 1 .. 2 = {1, 2}
      OBVIOUS
    <3>2. msgs = <<Value(c, a), Value(c, b)>> /\ cs = <<c, c>>
      BY <2>2
    <3> QED
      BY <3>2
  <2>4. /\ m1 \in Seq(Message) /\ m2 \in Seq(Message)
        /\ Commands(m1) = c1 /\ Commands(m2) = c1
        /\ c1 \in Seq(Command) /\ c1 \in Seq(Callers) /\ Replies(c1) = c1
    BY <1>1
  <2> HIDE DEF msgs, cs, m1, m2, c1
  <2>5. m1 \o m2 \in Seq(Message) /\ c1 \o c1 \in Seq(Callers)
    BY <2>4, ConcatProperties
  <2>6. Commands(m1 \o m2) = c1 \o c1
    BY <2>4, CommandsProperties
  <2>7. Replies(c1 \o c1) = c1 \o c1
    BY <2>4, RepliesProperties
  <2>8. msgs \in Seq(Message) /\ cs \in Seq(Callers) /\ Replies(Commands(msgs)) = cs
    BY <2>3, <2>5, <2>6, <2>7
  <2> QED
    BY <2>8 DEF msgs, cs
<1> QED
  BY <1>2, <1>3

(* Silent messages, one at a time                                          *)
LEMMA SilentMessages ==
    /\ \A ok \in BOOLEAN : <<AuthResponse(ok)>> \in Seq(Silent)
    /\ <<Value(0, "empty")>> \in Seq(Silent)
    /\ \A ok \in BOOLEAN : <<Value(0, "empty"), AuthResponse(ok)>> \in Seq(Silent)
    /\ <<>> \in Seq(Silent) /\ <<>> \in Seq(Message)
<1>1. \A ok \in BOOLEAN : AuthResponse(ok) \in Silent
  BY DEF Silent
<1>2. Value(0, "empty") \in Silent
  BY DEF Silent, Bodies
<1>3. <<>> \in Seq(Silent) /\ <<>> \in Seq(Message)
  BY EmptySeq
<1> QED
  BY <1>1, <1>2, <1>3

(* Two ways to put two messages together                                   *)
LEMMA PairProperties ==
    ASSUME NEW a, NEW b
    PROVE  Append(<<a>>, b) = <<a, b>> /\ <<a>> \o <<b>> = <<a, b>>
<1> DEFINE X == {a, b}
           s == Append(<<a>>, b)
           t == <<a, b>>
<1>1. <<a>> \in Seq(X) /\ Len(<<a>>) = 1 /\ <<a>>[1] = a /\ a \in X /\ b \in X
  OBVIOUS
<1>2. t \in Seq(X) /\ Len(t) = 2 /\ t[1] = a /\ t[2] = b
  OBVIOUS
<1> HIDE DEF X
<1>3. s \in Seq(X) /\ Len(s) = 2 /\ s[1] = a /\ s[2] = b
  BY <1>1, AppendProperties
<1>4. s = <<a>> \o <<b>>
  BY <1>1, AppendIsConcat
<1> HIDE DEF s, t
<1>5. \A i \in 1 .. Len(s) : s[i] = t[i]
  BY <1>2, <1>3
<1>6. s = t
  BY <1>2, <1>3, <1>5, SeqEqual
<1> QED
  BY <1>4, <1>6 DEF s, t

(* What the answer about a password is made of                             *)
LEMMA ServeAuthSends ==
    ASSUME TypeOK, ServeAuth
    PROVE  \E msgs \in Seq(Silent) :
              /\ Answer(msgs)
              /\ \/ msgs = <<AuthResponse(password = "right")>>
                 \/ msgs = <<Value(0, "empty"), AuthResponse(password = "right")>>
<1> DEFINE A == AuthResponse(password = "right")
<1>1. PICK ack \in {<<>>, <<Value(0, "empty")>>} : Answer(Append(ack, A))
  BY DEF ServeAuth
<1>2. (password = "right") \in BOOLEAN
  OBVIOUS
<1>3. <<A>> \in Seq(Silent) /\ <<Value(0, "empty"), A>> \in Seq(Silent)
  BY <1>2, SilentMessages
<1> HIDE DEF A
<1>4. CASE ack = <<>>
  <2>1. Append(ack, A) = <<A>>
    BY <1>4
  <2> QED
    BY <1>1, <1>3, <2>1 DEF A
<1>5. CASE ack = <<Value(0, "empty")>>
  <2>1. Append(ack, A) = <<Value(0, "empty"), A>>
    <3> DEFINE V == Value(0, "empty")
    <3>1. ack = <<V>>
      BY <1>5
    <3> HIDE DEF V
    <3> QED
      BY <3>1, PairProperties DEF V
  <2> QED
    BY <1>1, <1>3, <2>1 DEF A
<1> QED
  BY <1>1, <1>4, <1>5

(* A command is replied to, or answered with silent messages.              *)
LEMMA ServeCommandSends ==
    ASSUME TypeOK, ServeCommand
    PROVE  \/ \E msgs \in Seq(Message), cs \in Seq(Callers) :
                 /\ Answer(msgs)
                 /\ answered' = answered \o cs
                 /\ Replies(Commands(msgs)) = cs
           \/ \E msgs \in Seq(Silent) : Answer(msgs) /\ UNCHANGED answered
<1> DEFINE c == Head(requests)
<1>1. c \in Callers
  BY DEF ServeCommand
<1> HIDE DEF c
<1>2. CASE authed \/ password = "none"
  <2>1. PICK bs \in {<<b>> : b \in Bodies} \cup (Bodies \X Bodies) :
            /\ Answer([i \in DOMAIN bs |-> Value(c, bs[i])])
            /\ answered' = answered \o [i \in DOMAIN bs |-> c]
    BY <1>2 DEF ServeCommand, c
  <2> DEFINE msgs == [i \in DOMAIN bs |-> Value(c, bs[i])]
             cs == [i \in DOMAIN bs |-> c]
  <2>2. msgs \in Seq(Message) /\ cs \in Seq(Callers) /\ Replies(Commands(msgs)) = cs
    BY <1>1, AnswerMessages
  <2>3. Answer(msgs) /\ answered' = answered \o cs
    BY <2>1
  <2> HIDE DEF msgs, cs
  <2> QED
    BY <2>2, <2>3
<1>3. CASE ~(authed \/ password = "none")
  <2>1. /\ \E msgs \in {<<>>, <<Value(0, "empty")>>, <<AuthResponse(FALSE)>>} : Answer(msgs)
        /\ UNCHANGED answered
    BY <1>3 DEF ServeCommand
  <2> QED
    BY <2>1, SilentMessages
<1> QED
  BY <1>2, <1>3

-----------------------------------------------------------------------------
(* The steps *)

(* Sending commands leaves what the server has sent alone.                 *)
LEMMA SendProperties ==
    ASSUME TypeOK, NEW cs \in Seq(Callers), NEW rv, Send(cs, rv)
    PROVE  /\ requests' \in Seq(Callers \cup {"auth"})
           /\ UNCHANGED <<conn, authed, wire>>
<1>1. cs \in Seq(Callers \cup {"auth"})
  BY SeqMonotonic
<1>2. requests \o cs \in Seq(Callers \cup {"auth"})
  BY <1>1, ConcatProperties DEF TypeOK
<1> QED
  BY <1>2 DEF Send, TypeOK

(* The actions, one by one                                                 *)
LEMMA NextCases ==
    Next => \/ \E c \in Callers : RconSend(c)
            \/ \E c \in Callers : RconFail(c)
            \/ \E c \in Callers : RconConnect(c)
            \/ SendAuth \/ WaitAuth \/ ReportAuth \/ StatusLost
            \/ HandleReplies \/ RepliesLost \/ ReadMore \/ ReportDisconnect
            \/ ServeAuth \/ ServeCommand \/ Close
BY DEF Next, Rcon, ReaderStep, Serve

(* Every step keeps the types.                                             *)
LEMMA NextTypeOK == TypeOK /\ [Next]_vars => TypeOK'
<1> SUFFICES ASSUME TypeOK, [Next]_vars PROVE TypeOK'
  OBVIOUS
<1> DEFINE Requests == Seq(Callers \cup {"auth"})
<1>0. /\ password \in {"none", "right", "wrong"} /\ sess \in Nat /\ made \in Nat
      /\ pc \in PCs /\ auth_ok \in BOOLEAN
      /\ response \in Seq(Message) /\ wire \in Seq(Message)
      /\ conn \in {"open", "eof", "reset"} /\ waiters \in Seq(Callers)
      /\ requests \in Requests
      /\ answered \in Seq(Callers) /\ printed \in Seq(Command)
      /\ early \in BOOLEAN /\ lost \in BOOLEAN
  BY DEF TypeOK
<1> HIDE DEF Requests
<1>01. /\ <<>> \in Seq(Callers) /\ <<>> \in Requests /\ <<>> \in Seq(Message)
       /\ <<>> \in Seq(Command)
  BY EmptySeq DEF Requests
<1>1. CASE \E c \in Callers : RconSend(c)
  <2>1. PICK c \in Callers : RconSend(c)
    BY <1>1
  <2>2. <<c>> \in Seq(Callers)
    OBVIOUS
  <2>3. PICK rv \in {"sent", "nil"} : Send(<<c>>, rv)
    BY <2>1 DEF RconSend
  <2>4. requests' \in Requests /\ UNCHANGED <<conn, wire>>
    BY <2>2, <2>3, SendProperties DEF Requests
  <2>5. UNCHANGED <<password, sess, waiters, made, pc, auth_ok, response, answered, printed, lost>>
    BY <2>1 DEF RconSend, reader
  <2>6. early' \in BOOLEAN
    BY <2>1, Zenon DEF RconSend
  <2> QED
    BY <1>0, <2>4, <2>5, <2>6 DEF TypeOK, Requests
<1>2. CASE \E c \in Callers : RconFail(c)
  BY <1>0, <1>2 DEF RconFail, TypeOK, Requests, reader, network, history
<1>3. CASE \E c \in Callers : RconConnect(c)
  <2>1. PICK c \in Callers : RconConnect(c)
    BY <1>3
  <2>2. Append(waiters, c) \in Seq(Callers)
    BY <1>0, AppendProperties
  <2>3. /\ made' = made + 1 /\ sess' = made + 1 /\ waiters' = Append(waiters, c)
        /\ pc' = "start" /\ auth_ok' = FALSE /\ response' = <<>> /\ conn' = "open"
        /\ requests' = <<>> /\ wire' = <<>> /\ answered' = <<>> /\ printed' = <<>>
        /\ early' = FALSE /\ lost' = FALSE /\ UNCHANGED password
    BY <2>1 DEF RconConnect
  <2>4. made' \in Nat /\ sess' \in Nat
    BY <1>0, <2>3
  <2>5. pc' \in PCs /\ auth_ok' \in BOOLEAN /\ conn' \in {"open", "eof", "reset"}
    BY <2>3 DEF PCs
  <2>6. early' \in BOOLEAN /\ lost' \in BOOLEAN
    BY <2>3
  <2> QED
    BY <1>0, <1>01, <2>2, <2>3, <2>4, <2>5, <2>6 DEF TypeOK, Requests
<1>4. CASE SendAuth
  <2>1. Append(requests, "auth") \in Requests
    BY <1>0, AppendProperties DEF Requests
  <2>2. UNCHANGED <<password, sess, made, waiters, response, conn, wire, answered, printed,
                    early, lost>>
    BY <1>4 DEF SendAuth, client, history
  <2>3. /\ requests' = requests \/ requests' = Append(requests, "auth")
        /\ auth_ok' = auth_ok \/ auth_ok' = TRUE
        /\ pc' \in PCs
    BY <1>4 DEF SendAuth, PCs
  <2> QED
    BY <1>0, <2>1, <2>2, <2>3 DEF TypeOK, Requests
<1>5. CASE WaitAuth
  <2>1. UNCHANGED <<password, sess, made, waiters, answered, printed, early, lost>>
    BY <1>5 DEF WaitAuth, client, history
  <2>2. auth_ok' \in BOOLEAN /\ pc' \in PCs
    <3>1. \E v : Decide(v)
      BY <1>5 DEF WaitAuth
    <3>2. PICK v : Decide(v)
      BY <3>1
    <3>3. auth_ok' \in BOOLEAN
      BY <3>2, Zenon DEF Decide
    <3>4. pc' \in PCs
      BY <3>2 DEF Decide, PCs
    <3> QED
      BY <3>3, <3>4
  <2>3. UNCHANGED <<conn, requests>>
    BY <1>5 DEF WaitAuth, Receive, network
  <2>4. response' \in Seq(Message) /\ wire' \in Seq(Message)
    <3>1. CASE UNCHANGED <<response, part, network>>
      BY <1>0, <3>1 DEF network
    <3>2. CASE ~(UNCHANGED <<response, part, network>>)
      <4>1. PICK n \in 0 .. Len(wire), p \in BOOLEAN :
                /\ Receive(n, p)
                /\ LET msgs == response \o SubSeq(wire, 1, n)
                   IN  response' = Unread(msgs, Verdict(msgs, p))
        BY <1>5, <3>2 DEF WaitAuth
      <4> DEFINE msgs == response \o SubSeq(wire, 1, n)
      <4>2. wire' = SubSeq(wire, n + 1, Len(wire))
        BY <4>1 DEF Receive
      <4>3. SubSeq(wire, 1, n) \in Seq(Message) /\ SubSeq(wire, n + 1, Len(wire)) \in Seq(Message)
        BY <1>0, SplitSeq
      <4>4. msgs \in Seq(Message)
        BY <1>0, <4>3, ConcatProperties
      <4>5. response' = <<>> \/ response' = msgs
        BY <4>1 DEF Unread
      <4> HIDE DEF msgs
      <4> QED
        BY <1>01, <4>2, <4>3, <4>4, <4>5
    <3> QED
      BY <3>1, <3>2
  <2> QED
    BY <1>0, <2>1, <2>2, <2>3, <2>4 DEF TypeOK, Requests
<1>6. CASE ReportAuth
  <2>1. UNCHANGED <<password, made, auth_ok, response, answered, printed, early, lost>>
    BY <1>6 DEF ReportAuth, history
  <2>2. waiters' = <<>> /\ sess' \in {sess, 0} /\ pc' \in PCs
    BY <1>6 DEF ReportAuth, Forget, AfterStatus, PCs
  <2>3. requests' \in Requests /\ UNCHANGED <<conn, wire>>
    <3>1. CASE auth_ok
      <4>1. PICK rv \in {"sent", "nil"} : Send(waiters, rv)
        BY <1>6, <3>1 DEF ReportAuth
      <4> QED
        BY <1>0, <4>1, SendProperties DEF Requests
    <3>2. CASE ~auth_ok
      BY <1>0, <1>6, <3>2 DEF ReportAuth, network
    <3> QED
      BY <3>1, <3>2
  <2> QED
    BY <1>0, <1>01, <2>1, <2>2, <2>3 DEF TypeOK, Requests
<1>7. CASE StatusLost
  BY <1>0, <1>7 DEF StatusLost, TypeOK, Requests, client, network, AfterStatus, PCs
<1>8. CASE HandleReplies
  <2>1. printed \o Commands(response) \in Seq(Command)
    <3>1. Commands(response) \in Seq(Command)
      BY <1>0, CommandsProperties
    <3> HIDE DEF Commands
    <3> QED
      BY <1>0, <3>1, ConcatProperties
  <2>2. /\ pc' = "read" /\ response' = <<>> /\ printed' = printed \o Commands(response)
        /\ UNCHANGED <<password, sess, made, waiters, auth_ok, conn, requests, wire,
                       answered, early, lost>>
    BY <1>8 DEF HandleReplies, client, network
  <2> QED
    BY <1>0, <1>01, <2>1, <2>2 DEF TypeOK, Requests, PCs
<1>9. CASE RepliesLost
  BY <1>0, <1>01, <1>9 DEF RepliesLost, TypeOK, Requests, client, network, PCs
<1>10. CASE ReadMore
  <2>1. UNCHANGED <<password, sess, made, waiters, auth_ok, answered, printed, early, lost>>
    BY <1>10 DEF ReadMore, client, history
  <2>2. pc' \in PCs /\ UNCHANGED <<conn, requests>>
    BY <1>10 DEF ReadMore, Receive, network, PCs
  <2>3. response' \in Seq(Message) /\ wire' \in Seq(Message)
    <3>1. CASE UNCHANGED <<response, part, network>>
      BY <1>0, <3>1 DEF network
    <3>2. CASE ~(UNCHANGED <<response, part, network>>)
      <4>1. PICK n \in 0 .. Len(wire), p \in BOOLEAN :
                Receive(n, p) /\ response' = response \o SubSeq(wire, 1, n)
        BY <1>10, <3>2 DEF ReadMore
      <4>2. wire' = SubSeq(wire, n + 1, Len(wire))
        BY <4>1 DEF Receive
      <4>3. SubSeq(wire, 1, n) \in Seq(Message) /\ SubSeq(wire, n + 1, Len(wire)) \in Seq(Message)
        BY <1>0, SplitSeq
      <4>4. response \o SubSeq(wire, 1, n) \in Seq(Message)
        BY <1>0, <4>3, ConcatProperties
      <4> QED
        BY <4>1, <4>2, <4>3, <4>4
    <3> QED
      BY <3>1, <3>2
  <2> QED
    BY <1>0, <2>1, <2>2, <2>3 DEF TypeOK, Requests
<1>11. CASE ReportDisconnect
  BY <1>0, <1>11 DEF ReportDisconnect, Forget, TypeOK, Requests, network, history, PCs
<1>12. CASE ServeAuth \/ ServeCommand
  <2>1. PICK msgs \in Seq(Message), cs \in Seq(Callers) :
            Answer(msgs) /\ (answered' = answered \o cs \/ UNCHANGED answered)
    <3>1. CASE ServeAuth
      <4>1. UNCHANGED answered
        BY <3>1 DEF ServeAuth
      <4>2. PICK msgs \in Seq(Silent) : Answer(msgs)
        BY <3>1, ServeAuthSends
      <4> QED
        BY <1>01, <4>1, <4>2, SilentReplies
    <3>2. CASE ServeCommand
      <4>1. CASE \E msgs \in Seq(Message), cs \in Seq(Callers) :
                     Answer(msgs) /\ answered' = answered \o cs
        BY <4>1
      <4>2. CASE \E msgs \in Seq(Silent) : Answer(msgs) /\ UNCHANGED answered
        BY <1>01, <4>2, SilentReplies
      <4> QED
        BY <3>2, <4>1, <4>2, ServeCommandSends
    <3> QED
      BY <1>12, <3>1, <3>2
  <2>2. wire \o msgs \in Seq(Message) /\ answered \o cs \in Seq(Callers)
    BY <1>0, ConcatProperties
  <2>3. Tail(requests) \in Requests
    <3>1. requests # <<>>
      BY <1>12 DEF ServeAuth, ServeCommand
    <3> QED
      BY <1>0, <3>1, HeadTailProperties DEF Requests
  <2>4. /\ requests' = Tail(requests) /\ wire' = wire \o msgs
        /\ UNCHANGED <<password, sess, made, waiters, pc, auth_ok, response, conn, printed,
                       early, lost>>
    BY <2>1 DEF Answer, client, reader
  <2> QED
    BY <1>0, <2>1, <2>2, <2>3, <2>4 DEF TypeOK, Requests
<1>13. CASE Close
  BY <1>0, <1>01, <1>13 DEF Close, TypeOK, Requests, client, reader, history
<1>14. CASE UNCHANGED vars
  BY <1>0, <1>14 DEF vars, client, reader, network, history, TypeOK, Requests
<1> QED
  BY <1>1, <1>2, <1>3, <1>4, <1>5, <1>6, <1>7, <1>8, <1>9, <1>10, <1>11, <1>12, <1>13, <1>14,
     NextCases

(* The reader's session is the one rcon() knows until the reader is done.  *)
LEMMA NextSessionsAlive == SessionsAlive /\ [Next]_vars => SessionsAlive'
<1> SUFFICES ASSUME SessionsAlive, [Next]_vars PROVE SessionsAlive'
  OBVIOUS
<1>0. /\ Reading => made \in live /\ sess = made
      /\ sess # 0 => sess \in live
      /\ pc = "done" /\ sess # 0 => lost \/ conn = "reset"
  BY DEF SessionsAlive
<1>1. CASE \E c \in Callers : RconSend(c)
  <2>1. PICK c \in Callers : RconSend(c)
    BY <1>1
  <2>2. UNCHANGED <<sess, live, made, pc, lost, conn>>
    BY <2>1 DEF RconSend, Send, reader
  <2> QED
    BY <1>0, <2>2 DEF SessionsAlive, Reading
<1>2. CASE \E c \in Callers : RconFail(c)
  BY <1>0, <1>2 DEF RconFail, SessionsAlive, Reading, reader, network, history
<1>3. CASE \E c \in Callers : RconConnect(c)
  <2>1. /\ made' = made + 1 /\ sess' = made + 1 /\ live' = live \cup {made + 1}
        /\ pc' = "start"
    BY <1>3 DEF RconConnect
  <2> QED
    BY <2>1 DEF SessionsAlive
<1>4. CASE SendAuth
  <2>1. UNCHANGED <<sess, live, made, lost, conn>> /\ Reading /\ pc' # "done"
    BY <1>4 DEF SendAuth, Reading, client, history
  <2> QED
    BY <1>0, <2>1 DEF SessionsAlive
<1>5. CASE WaitAuth
  <2>1. UNCHANGED <<sess, live, made>> /\ Reading /\ pc' # "done"
    BY <1>5 DEF WaitAuth, Decide, Reading, client
  <2> QED
    BY <1>0, <2>1 DEF SessionsAlive
<1>6. CASE ReportAuth
  <2>1. Reading /\ UNCHANGED made
    BY <1>6 DEF ReportAuth, Reading
  <2>2. CASE auth_ok
    <3>1. UNCHANGED <<sess, live>> /\ pc' # "done"
      BY <1>6, <2>2 DEF ReportAuth, AfterStatus
    <3> QED
      BY <1>0, <2>1, <3>1 DEF SessionsAlive
  <2>3. CASE ~auth_ok
    <3>1. sess' = 0 /\ pc' = "done"
      BY <1>6, <2>3 DEF ReportAuth, Forget, AfterStatus
    <3> QED
      BY <3>1 DEF SessionsAlive, Reading
  <2> QED
    BY <2>2, <2>3
<1>7. CASE StatusLost
  <2>1. UNCHANGED <<sess, live, made, conn>> /\ Reading /\ lost' = TRUE
    BY <1>7 DEF StatusLost, Reading, client, network
  <2> QED
    BY <1>0, <2>1 DEF SessionsAlive
<1>8. CASE HandleReplies
  <2>1. UNCHANGED <<sess, live, made>> /\ Reading /\ pc' = "read"
    BY <1>8 DEF HandleReplies, Reading, client
  <2> QED
    BY <1>0, <2>1 DEF SessionsAlive
<1>9. CASE RepliesLost
  <2>1. UNCHANGED <<sess, live, made>> /\ Reading /\ pc' = "read"
    BY <1>9 DEF RepliesLost, Reading, client
  <2> QED
    BY <1>0, <2>1 DEF SessionsAlive
<1>10. CASE ReadMore
  <2>1. UNCHANGED <<sess, live, made, lost>> /\ Reading /\ (pc' = "done" => conn' = "reset")
    BY <1>10 DEF ReadMore, Reading, client, history, network
  <2> QED
    BY <1>0, <2>1 DEF SessionsAlive
<1>11. CASE ReportDisconnect
  <2>1. sess' = 0 /\ pc' = "done"
    BY <1>11 DEF ReportDisconnect, Forget
  <2> QED
    BY <2>1 DEF SessionsAlive, Reading
<1>12. CASE ServeAuth \/ ServeCommand
  <2>1. UNCHANGED <<sess, live, made, pc, lost, conn>>
    BY <1>12 DEF ServeAuth, ServeCommand, Answer, client, reader
  <2> QED
    BY <1>0, <2>1 DEF SessionsAlive, Reading
<1>13. CASE Close
  <2>1. UNCHANGED <<sess, live, made, pc, lost>> /\ Reading /\ pc # "done"
    BY <1>13 DEF Close, Reading, client, reader, history
  <2> QED
    BY <1>0, <2>1 DEF SessionsAlive, Reading
<1>14. CASE UNCHANGED vars
  <2>1. UNCHANGED <<sess, live, made, pc, lost, conn>>
    BY <1>14 DEF vars, client, reader, network, history
  <2> QED
    BY <1>0, <2>1 DEF SessionsAlive, Reading
<1> QED
  BY <1>1, <1>2, <1>3, <1>4, <1>5, <1>6, <1>7, <1>8, <1>9, <1>10, <1>11, <1>12, <1>13, <1>14,
     NextCases

(* The verdicts along the handshake: nothing but a part of a message, or   *)
(* the acknowledgement alone, asks for more; with the answer the password  *)
(* is accepted.                                                            *)
LEMMA HandshakeVerdicts ==
    LET A == AuthResponse(TRUE)
        V == Value(0, "empty")
    IN  /\ Verdict(<<>>, TRUE) = "moredata"
        /\ \A p \in BOOLEAN : Verdict(<<V>>, p) = "moredata"
        /\ \A p \in BOOLEAN : Verdict(<<A>>, p) = "success"
        /\ \A p \in BOOLEAN : Verdict(<<V, A>>, p) = "success"
<1> DEFINE A == AuthResponse(TRUE)
           V == Value(0, "empty")
<1>1. A.type = "auth_response" /\ A.ok = TRUE /\ V.type = "value"
  BY DEF AuthResponse, Value
<1> HIDE DEF A, V
<1>2. \A i \in Nat : Min({i}) = i
  BY DEF Min
<1>3. Verdict(<<>>, TRUE) = "moredata"
  BY DEF Verdict
<1>4. ASSUME NEW p \in BOOLEAN
      PROVE  Verdict(<<V>>, p) = "moredata"
  <2>1. AuthResponses(<<V>>) = {}
    BY <1>1 DEF AuthResponses
  <2>2. <<V>> # <<>> /\ Len(<<V>>) = 1
    OBVIOUS
  <2> QED
    BY <2>1, <2>2 DEF Verdict
<1>5. ASSUME NEW p \in BOOLEAN
      PROVE  Verdict(<<A>>, p) = "success"
  <2>1. AuthResponses(<<A>>) = {1}
    BY <1>1 DEF AuthResponses
  <2>2. Min({1}) = 1
    BY <1>2
  <2>3. <<A>> # <<>> /\ <<A>>[1] = A /\ {1} # {}
    OBVIOUS
  <2> QED
    BY <1>1, <2>1, <2>2, <2>3 DEF Verdict
<1>6. ASSUME NEW p \in BOOLEAN
      PROVE  Verdict(<<V, A>>, p) = "success"
  <2> DEFINE s == <<V, A>>
  <2>1. DOMAIN s = {1, 2} /\ s[1] = V /\ s[2] = A
    OBVIOUS
  <2>2. s # <<>> /\ Len(s) = 2
    OBVIOUS
  <2> HIDE DEF s
  <2>3. AuthResponses(s) = {2}
    BY <1>1, <2>1 DEF AuthResponses
  <2>4. Min({2}) = 2 /\ {2} # {}
    BY <1>2
  <2>5. Verdict(s, p) = "success"
    BY <1>1, <2>1, <2>2, <2>3, <2>4 DEF Verdict
  <2> QED
    BY <2>5 DEF s
<1> QED
  BY <1>3, <1>4, <1>5, <1>6 DEF A, V

(* Reading from one message or two                                         *)
LEMMA ShortReads ==
    ASSUME NEW X, NEW a \in X, NEW b \in X
    PROVE  /\ SubSeq(<<a>>, 1, 0) = <<>> /\ SubSeq(<<a>>, 1, 1) = <<a>>
           /\ SubSeq(<<a>>, 2, 1) = <<>>
           /\ SubSeq(<<a, b>>, 1, 0) = <<>> /\ SubSeq(<<a, b>>, 1, 1) = <<a>>
           /\ SubSeq(<<a, b>>, 1, 2) = <<a, b>>
           /\ SubSeq(<<a, b>>, 2, 2) = <<b>> /\ SubSeq(<<a, b>>, 3, 2) = <<>>
           /\ Len(<<a>>) = 1 /\ Len(<<a, b>>) = 2
           /\ <<a>> \o <<b>> = <<a, b>>
<1>1. <<a>> \in Seq(X) /\ <<b>> \in Seq(X) /\ <<a, b>> \in Seq(X)
  OBVIOUS
<1>2. Len(<<a>>) = 1 /\ Len(<<a, b>>) = 2 /\ <<a, b>>[1] = a /\ <<a, b>>[2] = b
  OBVIOUS
<1>3. <<a>> \o <<b>> = <<a, b>>
  BY PairProperties
<1> DEFINE s == <<a>>
           t == <<a, b>>
<1>4. s \in Seq(X) /\ t \in Seq(X) /\ Len(s) = 1 /\ Len(t) = 2 /\ s[1] = a /\ t[1] = a /\ t[2] = b
  BY <1>1, <1>2
<1> HIDE DEF s, t
<1>5. SubSeq(s, 1, 0) = <<>> /\ SubSeq(t, 1, 0) = <<>>
  BY SubSeqEmpty
<1>6. SubSeq(s, 2, 1) = <<>> /\ SubSeq(t, 3, 2) = <<>>
  BY SubSeqEmpty
<1>7. SubSeq(s, 1, 1) = s
  BY <1>4, SubSeqFull
<1>8. SubSeq(t, 1, 2) = t
  BY <1>4, SubSeqFull
<1>9. SubSeq(t, 1, 1) = <<a>>
  <2>1. 1 \in 1 .. Len(t) /\ 1 \in 1 .. Len(t)
    BY <1>4
  <2>2. SubSeq(t, 1, 1) = <<t[1]>> \o SubSeq(t, 1 + 1, 1)
    BY <1>4, <2>1, SubSeqRecursiveFirst
  <2>3. SubSeq(t, 1 + 1, 1) = <<>>
    BY SubSeqEmpty
  <2>4. <<a>> \o <<>> = <<a>>
    BY <1>1, ConcatEmptySeq
  <2> QED
    BY <1>4, <2>2, <2>3, <2>4
<1>10. SubSeq(t, 2, 2) = <<b>>
  <2>1. 2 \in 1 .. Len(t) /\ 2 \in 2 .. Len(t)
    BY <1>4
  <2>2. SubSeq(t, 2, 2) = <<t[2]>> \o SubSeq(t, 2 + 1, 2)
    BY <1>4, <2>1, SubSeqRecursiveFirst
  <2>3. SubSeq(t, 2 + 1, 2) = <<>>
    BY SubSeqEmpty
  <2>4. <<b>> \o <<>> = <<b>>
    BY <1>1, ConcatEmptySeq
  <2> QED
    BY <1>4, <2>2, <2>3, <2>4
<1> QED
  BY <1>2, <1>3, <1>5, <1>6, <1>7, <1>8, <1>9, <1>10 DEF s, t

(* A right password is not refused while the connection holds, unless a    *)
(* command was sent before the answer.                                     *)
LEMMA NextAuthenticating == TypeOK /\ Authenticating /\ [Next]_vars => Authenticating'
<1> SUFFICES ASSUME TypeOK, Authenticating, [Next]_vars,
                    password' = "right", ~early', conn' = "open"
             PROVE  /\ pc' = "start" => requests' = <<>> /\ wire' = <<>> /\ response' = <<>>
                    /\ pc' = "wait" => Handshake'
                    /\ pc' = "status" => auth_ok'
  BY DEF Authenticating
<1> DEFINE A == AuthResponse(TRUE)
           V == Value(0, "empty")
           Quiet == requests = <<>> /\ wire = <<>> /\ response = <<>>
           Held == password = "right" /\ ~early /\ conn = "open"
<1>0. Held => /\ pc = "start" => Quiet
              /\ pc = "wait" => Handshake
              /\ pc = "status" => auth_ok
  BY DEF Authenticating
<1>1. CASE \E c \in Callers : RconSend(c)
  <2>1. /\ UNCHANGED <<password, pc, auth_ok, conn>>
        /\ early' = (early \/ (password # "none" /\ pc \in {"start", "wait"}))
    BY <1>1 DEF RconSend, Send, reader
  <2>2. Held /\ pc # "start" /\ pc # "wait"
    BY <2>1
  <2> QED
    BY <1>0, <2>1, <2>2
<1>2. CASE (\E c \in Callers : RconFail(c)) \/ UNCHANGED vars
  <2>1. UNCHANGED <<password, pc, auth_ok, conn, early, requests, wire, response>>
    BY <1>2 DEF RconFail, reader, network, history, vars
  <2>2. Held
    BY <2>1
  <2> HIDE DEF A, V
  <2> QED
    BY <1>0, <2>1, <2>2 DEF Handshake
<1>3. CASE \E c \in Callers : RconConnect(c)
  <2>1. pc' = "start" /\ requests' = <<>> /\ wire' = <<>> /\ response' = <<>>
    BY <1>3 DEF RconConnect
  <2> QED
    BY <2>1
<1>4. CASE SendAuth
  <2>1. /\ UNCHANGED <<password, conn, early, response, wire>> /\ pc = "start"
    BY <1>4 DEF SendAuth, history
  <2>2. Held /\ Quiet
    BY <1>0, <2>1
  <2>3. pc' = "wait" /\ requests' = Append(requests, "auth")
    BY <1>4, <2>2 DEF SendAuth
  <2>4. Append(<<>>, "auth") = <<"auth">>
    OBVIOUS
  <2>5. Handshake'
    BY <2>1, <2>2, <2>3, <2>4 DEF Handshake
  <2> QED
    BY <2>3, <2>5
<1>5. CASE WaitAuth
  <2>1. UNCHANGED <<password, conn, early, requests>> /\ pc = "wait"
    BY <1>5 DEF WaitAuth, Receive, network, history
  <2>2. Held /\ Handshake
    BY <1>0, <2>1
  <2>3. PICK n \in 0 .. Len(wire), p \in BOOLEAN :
            /\ Receive(n, p)
            /\ LET msgs == response \o SubSeq(wire, 1, n)
               IN  /\ response' = Unread(msgs, Verdict(msgs, p))
                   /\ Decide(Verdict(msgs, p))
    BY <1>5, <2>2 DEF WaitAuth, Eof
  <2> DEFINE msgs == response \o SubSeq(wire, 1, n)
  <2>4. /\ p => n < Len(wire)
        /\ n > 0 \/ p
        /\ wire' = SubSeq(wire, n + 1, Len(wire))
    BY <2>3 DEF Receive
  <2>5. /\ response' = Unread(msgs, Verdict(msgs, p))
        /\ Decide(Verdict(msgs, p))
    BY <2>3
  <2>6. ASSUME Verdict(msgs, p) = "success"
        PROVE  pc' = "status" /\ auth_ok'
    BY <2>5, <2>6 DEF Decide
  <2>7. ASSUME Verdict(msgs, p) = "moredata"
        PROVE  pc' = "wait" /\ response' = msgs
    BY <2>5, <2>7 DEF Decide, Unread
  <2>8. A \in Message /\ V \in Message
    <3>1. 0 \in Command /\ "empty" \in Bodies
      BY DEF Command, Bodies
    <3> QED
      BY <3>1, MessageFields
  <2> HIDE DEF A, V, msgs
  <2>9. /\ Verdict(<<>>, TRUE) = "moredata"
        /\ Verdict(<<V>>, p) = "moredata"
        /\ Verdict(<<A>>, p) = "success"
        /\ Verdict(<<V, A>>, p) = "success"
    BY HandshakeVerdicts DEF A, V
  <2>10. /\ SubSeq(<<A>>, 1, 0) = <<>> /\ SubSeq(<<A>>, 1, 1) = <<A>>
         /\ SubSeq(<<V, A>>, 1, 0) = <<>> /\ SubSeq(<<V, A>>, 1, 1) = <<V>>
         /\ SubSeq(<<V, A>>, 1, 2) = <<V, A>> /\ SubSeq(<<V, A>>, 2, 2) = <<A>>
         /\ Len(<<A>>) = 1 /\ Len(<<V, A>>) = 2
         /\ <<V>> \o <<A>> = <<V, A>>
    BY <2>8, ShortReads
  <2>11. /\ SubSeq(<<A>>, 1, 1) = <<A>> /\ SubSeq(<<V, A>>, 1, 2) = <<V, A>>
         /\ <<>> \o <<A>> = <<A>> /\ <<>> \o <<V>> = <<V>> /\ <<>> \o <<V, A>> = <<V, A>>
         /\ <<>> \o <<>> = <<>> /\ <<V>> \o <<>> = <<V>>
    <3>1. /\ <<A>> \in Seq(Message) /\ <<V>> \in Seq(Message) /\ <<V, A>> \in Seq(Message)
          /\ <<>> \in Seq(Message)
      BY <2>8
    <3>2. /\ <<>> \o <<A>> = <<A>> /\ <<>> \o <<V>> = <<V>> /\ <<>> \o <<V, A>> = <<V, A>>
          /\ <<>> \o <<>> = <<>> /\ <<V>> \o <<>> = <<V>>
      BY <3>1, ConcatEmptySeq
    <3> QED
      BY <2>10, <3>2
  <2>12. CASE requests = <<"auth">> /\ wire = <<>> /\ response = <<>>
    <3>1. Len(wire) = 0
      BY <2>12
    <3> QED
      BY <2>4, <3>1
  <2>13. CASE requests = <<>> /\ wire = <<A>> /\ response = <<>>
    <3>1. CASE n = 0
      <4>1. p = TRUE /\ msgs = <<>> /\ wire' = <<A>>
        BY <2>4, <2>10, <2>11, <2>13, <3>1 DEF msgs
      <4>2. Verdict(msgs, p) = "moredata"
        BY <2>9, <4>1
      <4>3. pc' = "wait" /\ response' = <<>>
        BY <2>7, <4>1, <4>2
      <4>4. Handshake'
        BY <2>1, <2>13, <4>1, <4>3 DEF Handshake, A
      <4> QED
        BY <4>3, <4>4
    <3>2. CASE n = 1
      <4>1. msgs = <<A>>
        BY <2>10, <2>11, <2>13, <3>2 DEF msgs
      <4> QED
        BY <2>6, <2>9, <4>1
    <3> QED
      BY <2>10, <2>13, <3>1, <3>2
  <2>14. CASE requests = <<>> /\ wire = <<A>> /\ response = <<V>>
    <3>1. CASE n = 0
      <4>1. msgs = <<V>> /\ wire' = <<A>>
        <5>1. SubSeq(wire, 1, n) = <<>> /\ wire' = <<A>>
          BY <2>4, <2>10, <2>11, <2>14, <3>1
        <5>2. msgs = <<V>> \o <<>>
          BY <2>14, <5>1 DEF msgs
        <5> QED
          BY <2>11, <5>1, <5>2
      <4>2. Verdict(msgs, p) = "moredata"
        BY <2>9, <4>1
      <4>3. pc' = "wait" /\ response' = <<V>>
        BY <2>7, <4>1, <4>2
      <4>4. Handshake'
        BY <2>1, <2>14, <4>1, <4>3 DEF Handshake, A, V
      <4> QED
        BY <4>3, <4>4
    <3>2. CASE n = 1
      <4>1. msgs = <<V, A>>
        BY <2>10, <2>11, <2>14, <3>2 DEF msgs
      <4> QED
        BY <2>6, <2>9, <4>1
    <3> QED
      BY <2>10, <2>14, <3>1, <3>2
  <2>15. CASE requests = <<>> /\ wire = <<V, A>> /\ response = <<>>
    <3>1. CASE n = 0
      <4>1. p = TRUE /\ msgs = <<>> /\ wire' = <<V, A>>
        BY <2>4, <2>10, <2>11, <2>15, <3>1 DEF msgs
      <4>2. Verdict(msgs, p) = "moredata"
        BY <2>9, <4>1
      <4>3. pc' = "wait" /\ response' = <<>>
        BY <2>7, <4>1, <4>2
      <4>4. Handshake'
        BY <2>1, <2>15, <4>1, <4>3 DEF Handshake, A, V
      <4> QED
        BY <4>3, <4>4
    <3>2. CASE n = 1
      <4>1. msgs = <<V>> /\ wire' = <<A>>
        BY <2>4, <2>10, <2>11, <2>15, <3>2 DEF msgs
      <4>2. Verdict(msgs, p) = "moredata"
        BY <2>9, <4>1
      <4>3. pc' = "wait" /\ response' = <<V>>
        BY <2>7, <4>1, <4>2
      <4>4. Handshake'
        BY <2>1, <2>15, <4>1, <4>3 DEF Handshake, A, V
      <4> QED
        BY <4>3, <4>4
    <3>3. CASE n = 2
      <4>1. msgs = <<V, A>>
        BY <2>10, <2>11, <2>15, <3>3 DEF msgs
      <4> QED
        BY <2>6, <2>9, <4>1
    <3> QED
      BY <2>10, <2>15, <3>1, <3>2, <3>3
  <2> QED
    BY <2>2, <2>12, <2>13, <2>14, <2>15 DEF Handshake, A, V
<1>6. CASE ReportAuth \/ StatusLost
  <2>1. pc' \in {"handle", "done"}
    BY <1>6 DEF ReportAuth, StatusLost, AfterStatus
  <2> QED
    BY <2>1
<1>7. CASE HandleReplies \/ RepliesLost \/ ReadMore \/ ReportDisconnect
  <2>1. pc' \in {"read", "handle", "eof", "done"}
    BY <1>7 DEF HandleReplies, RepliesLost, ReadMore, ReportDisconnect
  <2> QED
    BY <2>1
<1>8. CASE ServeAuth
  <2>1. PICK msgs \in Seq(Silent) :
          /\ Answer(msgs)
          /\ \/ msgs = <<AuthResponse(password = "right")>>
             \/ msgs = <<Value(0, "empty"), AuthResponse(password = "right")>>
    BY <1>8, ServeAuthSends
  <2>2. /\ UNCHANGED <<password, pc, auth_ok, conn, early, response>>
        /\ requests' = Tail(requests) /\ wire' = wire \o msgs /\ requests # <<>>
    BY <1>8, <2>1 DEF ServeAuth, Answer, reader
  <2>3. Held
    BY <2>2
  <2>4. pc # "start"
    BY <1>0, <2>2, <2>3
  <2>5. CASE pc = "wait"
    <3>1. requests = <<"auth">> /\ wire = <<>> /\ response = <<>>
      BY <1>0, <2>2, <2>3, <2>5 DEF Handshake
    <3>2. requests' = <<>>
      <4>1. "auth" \in {"auth"} /\ <<"auth">> = Append(<<>>, "auth")
        OBVIOUS
      <4>2. <<>> \in Seq({"auth"})
        BY EmptySeq
      <4>3. Tail(Append(<<>>, "auth")) = <<>>
        BY <4>2, HeadTailAppend
      <4> QED
        BY <2>2, <3>1, <4>1, <4>3
    <3>3. (password = "right") = TRUE
      BY <2>3
    <3>4. msgs = <<AuthResponse(TRUE)>> \/ msgs = <<Value(0, "empty"), AuthResponse(TRUE)>>
      BY <2>1, <3>3
    <3>5. wire' = msgs
      BY <2>1, <2>2, <3>1, ConcatEmptySeq
    <3>6. Handshake'
      <4> HIDE DEF A, V
      <4> QED
        BY <2>2, <3>1, <3>2, <3>4, <3>5 DEF Handshake
    <3> QED
      BY <2>2, <2>5, <3>6
  <2>6. CASE pc # "wait"
    BY <1>0, <2>2, <2>3, <2>4, <2>6
  <2> QED
    BY <2>5, <2>6
<1>9. CASE ServeCommand
  <2>1. /\ UNCHANGED <<password, pc, auth_ok, conn, early>>
        /\ requests # <<>> /\ Head(requests) \in Callers
    BY <1>9 DEF ServeCommand, Answer, reader
  <2>2. Held
    BY <2>1
  <2>3. pc # "start"
    BY <1>0, <2>1, <2>2
  <2>4. pc # "wait"
    <3>1. requests # <<"auth">>
      <4>1. Head(<<"auth">>) = "auth"
        OBVIOUS
      <4> QED
        BY <2>1, <4>1, RconAssumption
    <3> QED
      BY <1>0, <2>1, <2>2, <3>1 DEF Handshake
  <2> QED
    BY <1>0, <2>1, <2>2, <2>3, <2>4
<1>10. CASE Close
  <2>1. conn' # "open"
    BY <1>10 DEF Close
  <2> QED
    BY <2>1
<1> QED
  BY <1>1, <1>2, <1>3, <1>4, <1>5, <1>6, <1>7, <1>8, <1>9, <1>10, NextCases

(* Until there is an answer about the password, what has come in replies   *)
(* to no command.                                                          *)
LEMMA NextUnanswered == TypeOK /\ Unanswered /\ [Next]_vars => Unanswered'
<1> SUFFICES ASSUME TypeOK, Unanswered, [Next]_vars,
                    pc' \in {"start", "wait"}, password' # "none", ~early'
             PROVE  /\ answered' = <<>> /\ printed' = <<>>
                    /\ requests' = <<>> \/ (requests' = <<"auth">> /\ pc' = "wait")
                    /\ response' \in Seq(Silent) /\ wire' \in Seq(Silent)
  BY DEF Unanswered
<1> DEFINE Held == pc \in {"start", "wait"} /\ password # "none" /\ ~early
           Clean ==
               /\ answered = <<>> /\ printed = <<>>
               /\ requests = <<>> \/ (requests = <<"auth">> /\ pc = "wait")
               /\ response \in Seq(Silent) /\ wire \in Seq(Silent)
<1>0. Held => Clean
  BY DEF Unanswered
<1>1. CASE \E c \in Callers : RconSend(c)
  <2>1. /\ UNCHANGED <<password, pc>>
        /\ early' = (early \/ (password # "none" /\ pc \in {"start", "wait"}))
    BY <1>1 DEF RconSend, reader
  <2> QED
    BY <2>1
<1>2. CASE (\E c \in Callers : RconFail(c)) \/ UNCHANGED vars
  <2>1. UNCHANGED <<password, pc, early, requests, wire, response, answered, printed>>
    BY <1>2 DEF RconFail, reader, network, history, vars
  <2> QED
    BY <1>0, <2>1
<1>3. CASE \E c \in Callers : RconConnect(c)
  <2>1. /\ requests' = <<>> /\ wire' = <<>> /\ response' = <<>>
        /\ answered' = <<>> /\ printed' = <<>>
    BY <1>3 DEF RconConnect
  <2> QED
    BY <2>1, SilentMessages
<1>4. CASE SendAuth
  <2>1. /\ UNCHANGED <<password, early, response, wire, answered, printed>> /\ pc = "start"
    BY <1>4 DEF SendAuth, history
  <2>2. Clean /\ requests = <<>>
    BY <1>0, <2>1
  <2>3. Append(<<>>, "auth") = <<"auth">>
    OBVIOUS
  <2>4. requests' = requests \/ (requests' = Append(requests, "auth") /\ pc' = "wait")
    BY <1>4 DEF SendAuth
  <2> QED
    BY <2>1, <2>2, <2>3, <2>4
<1>5. CASE WaitAuth
  <2>1. UNCHANGED <<password, early, requests, answered, printed>> /\ pc = "wait"
    BY <1>5 DEF WaitAuth, Receive, network, history
  <2>2. Clean
    BY <1>0, <2>1
  <2>3. pc' = "wait"
    BY <1>5 DEF WaitAuth, Decide
  <2>4. CASE UNCHANGED <<response, part, network>>
    BY <2>1, <2>2, <2>3, <2>4 DEF network
  <2>5. CASE ~(UNCHANGED <<response, part, network>>)
    <3>1. PICK n \in 0 .. Len(wire), p \in BOOLEAN :
            /\ Receive(n, p)
            /\ LET msgs == response \o SubSeq(wire, 1, n)
               IN  response' = Unread(msgs, Verdict(msgs, p))
      BY <1>5, <2>5 DEF WaitAuth
    <3> DEFINE msgs == response \o SubSeq(wire, 1, n)
    <3>2. wire' = SubSeq(wire, n + 1, Len(wire))
      BY <3>1 DEF Receive
    <3>3. SubSeq(wire, 1, n) \in Seq(Silent) /\ SubSeq(wire, n + 1, Len(wire)) \in Seq(Silent)
      BY <2>2, SplitSeq
    <3>4. msgs \in Seq(Silent)
      BY <2>2, <3>3, ConcatProperties
    <3>5. response' = <<>> \/ response' = msgs
      BY <3>1 DEF Unread
    <3> HIDE DEF msgs
    <3>6. response' \in Seq(Silent) /\ wire' \in Seq(Silent)
      BY <3>2, <3>3, <3>4, <3>5, SilentMessages
    <3> QED
      BY <2>1, <2>2, <2>3, <3>6
  <2> QED
    BY <2>4, <2>5
<1>6. CASE \/ ReportAuth \/ StatusLost \/ HandleReplies \/ RepliesLost \/ ReadMore
           \/ ReportDisconnect
  <2>1. pc' \in {"handle", "done", "read", "eof"}
    BY <1>6 DEF ReportAuth, StatusLost, AfterStatus, HandleReplies, RepliesLost, ReadMore,
                ReportDisconnect
  <2> QED
    BY <2>1
<1>7. CASE ServeAuth
  <2>1. PICK msgs \in Seq(Silent) : Answer(msgs)
    BY <1>7, ServeAuthSends
  <2>2. /\ UNCHANGED <<password, pc, early, response, printed, answered>>
        /\ requests' = Tail(requests) /\ wire' = wire \o msgs /\ requests # <<>>
    BY <1>7, <2>1 DEF ServeAuth, Answer, reader
  <2>3. Clean
    BY <1>0, <2>2
  <2>4. requests' = <<>>
    <3>1. "auth" \in {"auth"} /\ <<"auth">> = Append(<<>>, "auth")
      OBVIOUS
    <3>2. <<>> \in Seq({"auth"})
      BY EmptySeq
    <3>3. Tail(Append(<<>>, "auth")) = <<>>
      BY <3>2, HeadTailAppend
    <3> QED
      BY <2>2, <2>3, <3>1, <3>3
  <2>5. wire \o msgs \in Seq(Silent)
    BY <2>3, ConcatProperties
  <2> QED
    BY <2>2, <2>3, <2>4, <2>5
<1>8. CASE ServeCommand
  <2>1. /\ UNCHANGED <<password, pc, early>>
        /\ requests # <<>> /\ Head(requests) \in Callers
    BY <1>8 DEF ServeCommand, Answer, reader
  <2>2. requests = <<"auth">>
    BY <1>0, <2>1
  <2>3. Head(<<"auth">>) = "auth"
    OBVIOUS
  <2> QED
    BY <2>1, <2>2, <2>3, RconAssumption
<1>9. CASE Close
  <2>1. /\ UNCHANGED <<password, pc, early, response, answered, printed>>
        /\ requests' = <<>> /\ (wire' = wire \/ wire' = <<>>)
    BY <1>9 DEF Close, reader, history
  <2>2. Clean
    BY <1>0, <2>1
  <2> QED
    BY <2>1, <2>2, SilentMessages
<1> QED
  BY <1>1, <1>2, <1>3, <1>4, <1>5, <1>6, <1>7, <1>8, <1>9, NextCases

(* What the server sends comes last.                                       *)
LEMMA Arriving ==
    ASSUME NEW p \in Seq(Command), NEW r \in Seq(Message), NEW w \in Seq(Message),
           NEW m \in Seq(Message)
    PROVE  Replies(p \o Commands(r \o (w \o m)))
           = Replies(p \o Commands(r \o w)) \o Replies(Commands(m))
<1> DEFINE t == r \o w
           ct == Commands(t)
           cm == Commands(m)
           pt == p \o ct
<1>1. r \o (w \o m) = t \o m
  BY ConcatAssociative
<1>2. t \in Seq(Message)
  BY ConcatProperties
<1> HIDE DEF t
<1>3. Commands(t \o m) = ct \o cm
  BY <1>2, CommandsProperties
<1>4. ct \in Seq(Command) /\ cm \in Seq(Command)
  BY <1>2, CommandsProperties
<1> HIDE DEF ct, cm
<1>5. p \o (ct \o cm) = pt \o cm
  <2>1. (p \o ct) \o cm = p \o (ct \o cm)
    BY <1>4, ConcatAssociative, SMTT(30)
  <2> QED
    BY <2>1
<1>6. pt \in Seq(Command)
  BY <1>4, ConcatProperties
<1> HIDE DEF pt
<1>7. Replies(pt \o cm) = Replies(pt) \o Replies(cm)
  BY <1>4, <1>6, RepliesProperties
<1>8. Replies(p \o Commands(r \o (w \o m))) = Replies(pt) \o Replies(cm)
  BY <1>1, <1>3, <1>5, <1>7
<1> QED
  BY <1>8 DEF pt, ct, cm, t

(* A batch that is passed on moves from what is on its way to what was     *)
(* printed.                                                                *)
LEMMA Passing ==
    ASSUME NEW p \in Seq(Command), NEW r \in Seq(Message), NEW w \in Seq(Message)
    PROVE  (p \o Commands(r)) \o Commands(<<>> \o w) = p \o Commands(r \o w)
<1> DEFINE cr == Commands(r)
           cw == Commands(w)
<1>1. <<>> \o w = w
  BY ConcatEmptySeq
<1>2. Commands(r \o w) = cr \o cw
  BY CommandsProperties
<1>3. cr \in Seq(Command) /\ cw \in Seq(Command)
  BY CommandsProperties
<1> HIDE DEF cr, cw
<1>4. (p \o cr) \o cw = p \o (cr \o cw)
  BY <1>3, ConcatAssociative
<1>5. (p \o cr) \o Commands(<<>> \o w) = p \o Commands(r \o w)
  BY <1>1, <1>2, <1>4 DEF cw
<1> QED
  BY <1>5 DEF cr

(* With only silent messages on their way nothing was replied to.          *)
LEMMA NothingYet ==
    ASSUME NEW w \in Seq(Silent)
    PROVE  Replies(<<>> \o Commands(<<>> \o w)) = <<>>
<1> DEFINE c == Commands(w)
<1>1. w \in Seq(Message) /\ Replies(c) = <<>>
  BY SilentReplies
<1>2. c \in Seq(Command)
  BY <1>1, CommandsProperties
<1>3. <<>> \o w = w
  BY ConcatEmptySeq
<1> HIDE DEF c
<1>4. <<>> \o c = c
  BY <1>2, ConcatEmptySeq
<1>5. Replies(<<>> \o c) = <<>>
  BY <1>1, <1>4
<1> QED
  BY <1>3, <1>5 DEF c

(* Every reply is printed or on its way.                                   *)
LEMMA NextRepliesAccounted ==
    TypeOK /\ Asked /\ Unanswered /\ RepliesAccounted /\ [Next]_vars => RepliesAccounted'
<1> DEFINE Kept == Reading /\ conn # "reset" /\ ~early /\ ~lost /\ (pc = "status" => auth_ok)
<1> SUFFICES ASSUME TypeOK, Asked, Unanswered, RepliesAccounted, [Next]_vars, Kept'
             PROVE  answered' = Replies(printed' \o Commands(response' \o wire'))
  BY DEF RepliesAccounted
<1>0. Kept => answered = Replies(printed \o Commands(response \o wire))
  BY DEF RepliesAccounted
<1>01. /\ printed \in Seq(Command) /\ response \in Seq(Message) /\ wire \in Seq(Message)
       /\ answered \in Seq(Callers)
  BY DEF TypeOK
<1>02. ASSUME Kept, UNCHANGED <<answered, printed>>, response' \o wire' = response \o wire
       PROVE  answered' = Replies(printed' \o Commands(response' \o wire'))
  <2>1. answered = Replies(printed \o Commands(response \o wire))
    BY <1>0, <1>02
  <2>2. printed' \o Commands(response' \o wire') = printed \o Commands(response \o wire)
    BY <1>02
  <2> QED
    BY <1>02, <2>1, <2>2
<1>03. ASSUME NEW n \in 0 .. Len(wire)
       PROVE  (response \o SubSeq(wire, 1, n)) \o SubSeq(wire, n + 1, Len(wire))
              = response \o wire
  <2> DEFINE a == SubSeq(wire, 1, n)
             b == SubSeq(wire, n + 1, Len(wire))
  <2>1. a \in Seq(Message) /\ b \in Seq(Message)
    BY <1>01, SplitSeq
  <2>2. a \o b = wire
    BY <1>01, SplitSeq
  <2> HIDE DEF a, b
  <2>3. (response \o a) \o b = response \o (a \o b)
    BY <1>01, <2>1, ConcatAssociative, SMTT(30)
  <2>4. (response \o a) \o b = response \o wire
    BY <2>2, <2>3
  <2> QED
    BY <2>4 DEF a, b
<1>1. CASE \E c \in Callers : RconSend(c)
  <2>1. /\ UNCHANGED <<pc, auth_ok, lost, answered, printed, response, wire, conn>>
        /\ ~early' => ~early
    BY <1>1 DEF RconSend, Send, reader
  <2>2. Kept
    BY <2>1 DEF Reading
  <2>3. response' \o wire' = response \o wire
    BY <2>1
  <2> QED
    BY <1>02, <2>1, <2>2, <2>3
<1>2. CASE (\E c \in Callers : RconFail(c)) \/ UNCHANGED vars
  <2>1. UNCHANGED <<pc, auth_ok, early, lost, answered, printed, response, wire, conn>>
    BY <1>2 DEF RconFail, reader, network, history, vars
  <2>2. Kept
    BY <2>1 DEF Reading
  <2>3. response' \o wire' = response \o wire
    BY <2>1
  <2> QED
    BY <1>02, <2>1, <2>2, <2>3
<1>3. CASE \E c \in Callers : RconConnect(c)
  <2>1. wire' = <<>> /\ response' = <<>> /\ answered' = <<>> /\ printed' = <<>>
    BY <1>3 DEF RconConnect
  <2>2. Replies(<<>> \o Commands(<<>> \o <<>>)) = <<>>
    BY SilentMessages, NothingYet
  <2> QED
    BY <2>1, <2>2
<1>4. CASE SendAuth
  <2>1. UNCHANGED <<early, lost, answered, printed, response, wire, conn>> /\ pc = "start"
    BY <1>4 DEF SendAuth, history
  <2>2. Kept
    BY <2>1 DEF Reading
  <2>3. response' \o wire' = response \o wire
    BY <2>1
  <2> QED
    BY <1>02, <2>1, <2>2, <2>3
<1>5. CASE WaitAuth
  <2>1. UNCHANGED <<password, early, lost, answered, printed, conn>> /\ pc = "wait"
    BY <1>5 DEF WaitAuth, Receive, network, history
  <2>2. Kept
    BY <2>1 DEF Reading
  <2>3. CASE UNCHANGED <<response, part, network>>
    <3>1. response' \o wire' = response \o wire
      BY <2>3 DEF network
    <3> QED
      BY <1>02, <2>1, <2>2, <3>1
  <2>4. CASE ~(UNCHANGED <<response, part, network>>)
    <3>1. PICK n \in 0 .. Len(wire), p \in BOOLEAN :
            /\ Receive(n, p)
            /\ LET msgs == response \o SubSeq(wire, 1, n)
               IN  /\ response' = Unread(msgs, Verdict(msgs, p))
                   /\ Decide(Verdict(msgs, p))
      BY <1>5, <2>4 DEF WaitAuth
    <3> DEFINE msgs == response \o SubSeq(wire, 1, n)
               v == Verdict(msgs, p)
    <3>2. /\ wire' = SubSeq(wire, n + 1, Len(wire)) /\ response' = Unread(msgs, v)
          /\ Decide(v)
      BY <3>1 DEF Receive
    <3>3. CASE v \notin {"success", "auth"}
      <4>1. response' = msgs
        BY <3>2, <3>3 DEF Unread
      <4>2. response' \o wire' = response \o wire
        BY <1>03, <3>2, <4>1
      <4> QED
        BY <1>02, <2>1, <2>2, <4>2
    <3>4. CASE v \in {"success", "auth"}
      <4>1. answered = <<>> /\ printed = <<>> /\ wire \in Seq(Silent)
        BY <2>1, <2>2 DEF Unanswered, Asked
      <4>2. response' = <<>>
        BY <3>2, <3>4 DEF Unread
      <4>3. wire' \in Seq(Silent)
        BY <3>2, <4>1, SplitSeq
      <4>4. Replies(<<>> \o Commands(<<>> \o wire')) = <<>>
        BY <4>3, NothingYet
      <4> QED
        BY <2>1, <4>1, <4>2, <4>4
    <3> QED
      BY <3>3, <3>4
  <2> QED
    BY <2>3, <2>4
<1>6. CASE ReportAuth
  <2>1. UNCHANGED <<early, lost, answered, printed, response, auth_ok>> /\ pc = "status"
    BY <1>6 DEF ReportAuth, history
  <2>2. auth_ok
    BY <1>6, <2>1 DEF ReportAuth, AfterStatus, Reading
  <2>3. UNCHANGED <<conn, wire>>
    BY <1>6, <2>2 DEF ReportAuth, Send
  <2>4. Kept
    BY <2>1, <2>2, <2>3 DEF Reading
  <2>5. response' \o wire' = response \o wire
    BY <2>1, <2>3
  <2> QED
    BY <1>02, <2>1, <2>4, <2>5
<1>7. CASE StatusLost \/ RepliesLost \/ ReportDisconnect
  <2>1. lost' = TRUE \/ pc' = "done"
    BY <1>7 DEF StatusLost, RepliesLost, ReportDisconnect
  <2> QED
    BY <2>1 DEF Reading
<1>8. CASE HandleReplies
  <2>1. /\ UNCHANGED <<conn, early, lost, answered, wire>> /\ pc = "handle"
        /\ response' = <<>> /\ printed' = printed \o Commands(response)
    BY <1>8 DEF HandleReplies, network
  <2>2. Kept
    BY <2>1 DEF Reading
  <2>3. (printed \o Commands(response)) \o Commands(<<>> \o wire)
        = printed \o Commands(response \o wire)
    BY <1>01, Passing
  <2>4. printed' \o Commands(response' \o wire') = printed \o Commands(response \o wire)
    BY <2>1, <2>3
  <2> QED
    BY <1>0, <2>1, <2>2, <2>4
<1>9. CASE ReadMore
  <2>1. UNCHANGED <<early, lost, answered, printed>> /\ pc = "read"
    BY <1>9 DEF ReadMore, history
  <2>2. UNCHANGED conn
    BY <1>9 DEF ReadMore, Receive, network
  <2>3. Kept
    BY <2>1, <2>2 DEF Reading
  <2>4. response' \o wire' = response \o wire
    <3>1. CASE UNCHANGED <<response, part, network>>
      BY <3>1 DEF network
    <3>2. CASE ~(UNCHANGED <<response, part, network>>)
      <4>1. PICK n \in 0 .. Len(wire), p \in BOOLEAN :
                Receive(n, p) /\ response' = response \o SubSeq(wire, 1, n)
        BY <1>9, <3>2 DEF ReadMore
      <4>2. wire' = SubSeq(wire, n + 1, Len(wire))
        BY <4>1 DEF Receive
      <4> QED
        BY <1>03, <4>1, <4>2
    <3> QED
      BY <3>1, <3>2
  <2> QED
    BY <1>02, <2>1, <2>3, <2>4
<1>10. CASE ServeAuth \/ ServeCommand
  <2>1. PICK msgs \in Seq(Message), cs \in Seq(Callers) :
            /\ Answer(msgs) /\ answered' = answered \o cs
            /\ Replies(Commands(msgs)) = cs
    <3>0. <<>> \in Seq(Callers) /\ answered \o <<>> = answered
      BY <1>01, EmptySeq, ConcatEmptySeq
    <3>1. CASE ServeAuth
      <4>1. UNCHANGED answered
        BY <3>1 DEF ServeAuth
      <4>2. PICK msgs \in Seq(Silent) : Answer(msgs)
        BY <3>1, ServeAuthSends
      <4>3. msgs \in Seq(Message) /\ Replies(Commands(msgs)) = <<>>
        BY SilentReplies
      <4> QED
        BY <3>0, <4>1, <4>2, <4>3
    <3>2. CASE ServeCommand
      <4>1. CASE \E msgs \in Seq(Message), cs \in Seq(Callers) :
                     /\ Answer(msgs) /\ answered' = answered \o cs
                     /\ Replies(Commands(msgs)) = cs
        BY <4>1
      <4>2. CASE \E msgs \in Seq(Silent) : Answer(msgs) /\ UNCHANGED answered
        <5>1. PICK msgs \in Seq(Silent) : Answer(msgs) /\ UNCHANGED answered
          BY <4>2
        <5>2. msgs \in Seq(Message) /\ Replies(Commands(msgs)) = <<>>
          BY SilentReplies
        <5> QED
          BY <3>0, <5>1, <5>2
      <4> QED
        BY <3>2, <4>1, <4>2, ServeCommandSends
    <3> QED
      BY <1>10, <3>1, <3>2
  <2>2. /\ UNCHANGED <<pc, auth_ok, response, conn, printed, early, lost>>
        /\ wire' = wire \o msgs
    BY <2>1 DEF Answer, reader
  <2>3. Kept
    BY <2>2 DEF Reading
  <2>4. answered = Replies(printed \o Commands(response \o wire))
    BY <1>0, <2>3
  <2>5. Replies(printed \o Commands(response \o (wire \o msgs)))
        = Replies(printed \o Commands(response \o wire)) \o Replies(Commands(msgs))
    BY <1>01, Arriving
  <2> QED
    BY <2>1, <2>2, <2>4, <2>5
<1>11. CASE Close
  <2>1. UNCHANGED <<pc, auth_ok, response, printed, answered, early, lost>>
    BY <1>11 DEF Close, reader, history
  <2>2. conn' # "reset" /\ wire' = wire /\ conn = "open"
    BY <1>11 DEF Close
  <2>3. Kept
    BY <2>1, <2>2 DEF Reading
  <2>4. response' \o wire' = response \o wire
    BY <2>1, <2>2
  <2> QED
    BY <1>02, <2>1, <2>3, <2>4
<1> QED
  BY <1>1, <1>2, <1>3, <1>4, <1>5, <1>6, <1>7, <1>8, <1>9, <1>10, <1>11, NextCases

(* The password never changes.                                             *)
LEMMA NextAsked == Asked /\ [Next]_vars => Asked'
<1> SUFFICES ASSUME Asked, [Next]_vars, pc' = "wait" PROVE password' # "none"
  BY DEF Asked
<1>0. pc = "wait" => password # "none"
  BY DEF Asked
<1>1. CASE SendAuth
  BY <1>1 DEF SendAuth
<1>2. CASE \/ \E c \in Callers : RconSend(c) \/ RconFail(c)
           \/ WaitAuth \/ ServeAuth \/ ServeCommand \/ Close \/ UNCHANGED vars
  <2>1. password' = password /\ (pc = "wait" \/ pc' = pc)
    BY <1>2 DEF RconSend, RconFail, WaitAuth, ServeAuth, ServeCommand, Answer, Close, vars,
                reader
  <2> QED
    BY <1>0, <2>1
<1>3. CASE \E c \in Callers : RconConnect(c)
  <2>1. pc' = "start"
    BY <1>3 DEF RconConnect
  <2> QED
    BY <2>1
<1>4. CASE \/ ReportAuth \/ StatusLost \/ HandleReplies \/ RepliesLost \/ ReadMore
           \/ ReportDisconnect
  <2>1. pc' \in {"handle", "done", "read", "eof"}
    BY <1>4 DEF ReportAuth, StatusLost, AfterStatus, HandleReplies, RepliesLost, ReadMore,
                ReportDisconnect
  <2> QED
    BY <2>1
<1> QED
  BY <1>1, <1>2, <1>3, <1>4, NextCases

-----------------------------------------------------------------------------
(* The specification *)

(* No session yet                                                          *)
LEMMA InitInductive == Init => Inductive
<1> SUFFICES ASSUME Init PROVE Inductive
  OBVIOUS
<1>1. TypeOK
  BY EmptySeq DEF Init, TypeOK, PCs
<1>2. SessionsAlive /\ Authenticating /\ Asked /\ Unanswered /\ RepliesAccounted
  BY DEF Init, SessionsAlive, Authenticating, Asked, Unanswered, RepliesAccounted, Reading
<1> QED
  BY <1>1, <1>2 DEF Inductive

(* The invariant is inductive, ...                                         *)
LEMMA NextInductive == Inductive /\ [Next]_vars => Inductive'
BY NextTypeOK, NextSessionsAlive, NextAuthenticating, NextAsked, NextUnanswered,
   NextRepliesAccounted DEF Inductive

(* ... so it always holds.                                                 *)
LEMMA SpecInductive == Spec => []Inductive
BY InitInductive, NextInductive, PTL DEF Spec

(* A session is not freed while its reader runs or rcon() may use it.      *)
THEOREM SessionsAliveTheorem == Spec => []SessionsAlive
<1>1. Inductive => SessionsAlive
  BY DEF Inductive
<1> QED
  BY <1>1, SpecInductive, PTL

(* With the right password authentication fails only if the connection     *)
(* breaks or a command overtook the answer.                                *)
THEOREM AuthFailsForAReasonTheorem == Spec => []AuthFailsForAReason
<1>1. Inductive => AuthFailsForAReason
  BY DEF Inductive, TypeOK, Authenticating, AuthFailsForAReason
<1> QED
  BY <1>1, SpecInductive, PTL

(* However the replies are cut into batches, each is passed to Lua once    *)
(* and in order, or still on its way, unless the lock was not to be had.   *)
THEOREM RepliesAccountedTheorem == Spec => []RepliesAccounted
<1>1. Inductive => RepliesAccounted
  BY DEF Inductive
<1> QED
  BY <1>1, SpecInductive, PTL

(* After a batch the beginning of a line is held back only if the last     *)
(* reply was empty.                                                        *)
THEOREM TextPrintedTheorem == Spec => TextPrinted
<1>1. ASSUME TypeOK, HandleReplies, response # <<>>, partial'
      PROVE  Last(response).body = "empty"
  <2> DEFINE n == Len(response)
             texts == {i \in DOMAIN response : response[i].body # "empty"}
  <2>1. n \in Nat \ {0} /\ DOMAIN response = 1 .. n
    BY <1>1, EmptySeq, LenProperties DEF TypeOK
  <2>2. /\ Last(response).body # "open"
        /\ texts # {} => response[Max(texts)].body = "open"
    <3>1. PartialAfter(partial, response)
      BY <1>1 DEF HandleReplies
    <3> QED
      BY <3>1 DEF PartialAfter, HoldBack
  <2>3. Last(response) = response[n]
    BY DEF Last
  <2>4. ASSUME response[n].body # "empty"
        PROVE  FALSE
    <3>1. n \in texts /\ \A i \in texts : i <= n /\ i \in Nat
      BY <2>1, <2>4
    <3> HIDE DEF texts, n
    <3>2. Max(texts) = n
      <4>1. n \in texts /\ \A i \in texts : n >= i
        BY <2>1, <3>1
      <4>2. Max(texts) \in texts /\ \A i \in texts : Max(texts) >= i
        BY <4>1 DEF Max
      <4> DEFINE m == Max(texts)
      <4>3. m \in Nat /\ m <= n
        BY <3>1, <4>2
      <4>4. m >= n
        BY <4>1, <4>2
      <4>5. n \in Nat
        BY <2>1
      <4> HIDE DEF m
      <4>6. m = n
        BY <4>3, <4>4, <4>5
      <4> QED
        BY <4>6 DEF m
    <3> QED
      BY <2>2, <2>3, <3>1, <3>2
  <2> QED
    BY <2>3, <2>4
<1>2. TypeOK /\ [Next]_vars =>
         [HandleReplies /\ response # <<>> /\ partial' => Last(response).body = "empty"]_vars
  BY <1>1
<1>3. Inductive => TypeOK
  BY DEF Inductive
<1> QED
  BY <1>2, <1>3, SpecInductive, PTL DEF Spec, TextPrinted
=============================================================================
