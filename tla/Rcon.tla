-------------------------------- MODULE Rcon --------------------------------
(***************************************************************************)
(* The remote console: rcon() and _rcon_status() of builtin.lua, which run *)
(* under the Lua lock, the reader thread of rcon/session.c, and the framing *)
(* of rcon/srcrcon.c.  A session is made by the first rcon(), which waits  *)
(* for the event "_rcon_auth"; the reader thread authenticates, passes the *)
(* replies on to Lua and reports how the session fares.  Each of its calls *)
(* of Lua may fail to get the lock within two seconds: then it is skipped. *)
(*                                                                         *)
(* The server is the environment.  The connection is a sequence of whole   *)
(* messages, of which read() may return any number and a part of the next. *)
(***************************************************************************)
EXTENDS Naturals, Sequences, SequencesExt, FiniteSets, SeqFold

CONSTANTS Callers,      \* the coroutines that call rcon(), each of them once
          MaxSessions   \* bound: sessions made

ASSUME RconAssumption == /\ MaxSessions \in Nat \ {0}
                         /\ 0 \notin Callers /\ "auth" \notin Callers

VARIABLES
    password,   \* the one given: "none", "right" or "wrong"
    sess,       \* the upvalue of rcon(); 0 is nil
    connecting, \* rcon_connecting
    caller,     \* what became of each call
    waiters,    \* the coroutines waiting for "_rcon_auth", in order
    live,       \* the sessions that are allocated
    made,       \* the number of sessions made, the name of the last one
    pc, auth_ok,    \* the reader thread of that session: its place, its result
    response,   \* the whole messages in sess->response ...
    part,       \* ... and whether a part of the next one follows
    conn,       \* the connection: "open", "eof" or "reset"
    authed,     \* the server has accepted the password
    requests,   \* what the server has not read yet
    wire,       \* what the reader has not read yet
    partial,    \* rcon_lr holds the beginning of a line
    answered, printed,  \* the commands the server replied to / the replies Lua got
    early,      \* a command was sent before the answer about the password
    lost        \* the reader did not get the Lua lock

client == <<sess, connecting, caller, waiters, live, made>>
reader == <<pc, auth_ok, response, part>>
network == <<conn, authed, requests, wire>>
history == <<answered, printed, early, lost>>
vars == <<password, client, reader, network, partial, history>>

Bodies == {"empty", "line", "open"}     \* nothing; ends with '\n'; does not
Value(c, b) == [type |-> "value", of |-> c, body |-> b]
AuthResponse(ok) == [type |-> "auth_response", ok |-> ok, body |-> "empty"]
Message == {Value(c, b) : c \in Callers \cup {0}, b \in Bodies}
               \cup {AuthResponse(ok) : ok \in BOOLEAN}

(* What the values among some messages reply to *)
AddCommand == [cs \in Seq(Callers \cup {0}) |->
                  [m \in Message |-> IF m.type = "value" THEN Append(cs, m.of) ELSE cs]]

Commands(msgs) == Fold(AddCommand, <<>>, msgs)

Init ==
    /\ password \in {"none", "right", "wrong"}
    /\ sess = 0 /\ connecting = FALSE /\ live = {} /\ made = 0
    /\ caller = [c \in Callers |-> "idle"] /\ waiters = <<>>
    /\ pc = "none" /\ auth_ok = FALSE /\ response = <<>> /\ part = FALSE
    /\ conn = "open" /\ authed = FALSE /\ requests = <<>> /\ wire = <<>>
    /\ partial = FALSE /\ answered = <<>> /\ printed = <<>> /\ early = FALSE /\ lost = FALSE

-----------------------------------------------------------------------------
(* _rcon_run_cfg(): write() to the connection, which takes what it gets    *)
(* while it is open and may do so or fail once the server has closed it.   *)
Send(cs, rv) ==
    /\ rv \in (IF conn = "open" THEN {"sent"} ELSE {"sent", "nil"})
    /\ caller' = [c \in Callers |-> IF Contains(cs, c) THEN rv ELSE caller[c]]
    /\ requests' = IF conn = "open" THEN requests \o cs ELSE requests
    /\ UNCHANGED <<conn, authed, wire>>

(* rcon() with a session, authenticated or not *)
RconSend(c) ==
    /\ caller[c] = "idle" /\ sess # 0
    /\ \E rv \in {"sent", "nil"} : Send(<<c>>, rv)
    /\ early' = (early \/ (password # "none" /\ pc \in {"start", "wait"}))
    /\ UNCHANGED <<password, sess, connecting, waiters, live, made, reader>>
    /\ UNCHANGED <<partial, answered, printed, lost>>

(* rcon() without one, when the connection cannot be made *)
RconFail(c) ==
    /\ caller[c] = "idle" /\ sess = 0 /\ ~connecting
    /\ caller' = [caller EXCEPT ![c] = "nil"]
    /\ UNCHANGED <<password, sess, connecting, waiters, live, made, reader, network>>
    /\ UNCHANGED <<partial, history>>

(* rcon() without one: rcon_connect() and wait_for_event() *)
RconConnect(c) ==
    /\ caller[c] = "idle" /\ sess = 0 /\ ~connecting /\ made < MaxSessions
    /\ made' = made + 1 /\ sess' = made + 1 /\ live' = live \cup {made + 1}
    /\ connecting' = TRUE
    /\ caller' = [caller EXCEPT ![c] = "waiting"] /\ waiters' = Append(waiters, c)
    /\ pc' = "start" /\ auth_ok' = FALSE /\ response' = <<>> /\ part' = FALSE
    /\ conn' = "open" /\ authed' = FALSE /\ requests' = <<>> /\ wire' = <<>>
    /\ answered' = <<>> /\ printed' = <<>> /\ early' = FALSE /\ lost' = FALSE
    /\ UNCHANGED <<password, partial>>

(* rcon().  The session is stored before it has authenticated, so the      *)
(* branch that waits while connecting asks for a session and for none at a *)
(* time; a command is sent at once instead, see "early".                   *)
Rcon(c) == RconSend(c) \/ RconFail(c) \/ RconConnect(c)

-----------------------------------------------------------------------------
AuthResponses(msgs) == {i \in DOMAIN msgs : msgs[i].type = "auth_response"}

(* Mutant of Verdict: a lone value is no acknowledgement. *)
VerdictStrict(msgs, more) ==
    LET auths == AuthResponses(msgs)
    IN CASE msgs = <<>> -> IF more THEN "moredata" ELSE "args"
         [] auths # {} -> IF msgs[Min(auths)].ok THEN "success" ELSE "auth"
         [] OTHER -> "protocol"

(* Mutant of Verdict: an empty buffer is no error. *)
VerdictPatient(msgs, more) ==
    LET auths == AuthResponses(msgs)
    IN CASE auths # {} -> IF msgs[Min(auths)].ok THEN "success" ELSE "auth"
         [] Len(msgs) <= 1 /\ auths = {} -> "moredata"
         [] OTHER -> "protocol"

(* src_rcon_auth_wait() of the buffered messages: a lone value is taken    *)
(* for the acknowledgement and left in the buffer; ...                     *)
Verdict(msgs, more) ==
    LET auths == AuthResponses(msgs)
    IN CASE msgs = <<>> -> IF more THEN "moredata" ELSE "args"
         [] Len(msgs) = 1 /\ auths = {} -> "moredata"
         [] msgs # <<>> /\ auths # {} -> IF msgs[Min(auths)].ok THEN "success" ELSE "auth"
         [] OTHER -> "protocol"

(* ... a verdict about the password removes everything from the buffer.    *)
Unread(msgs, v) == IF v \in {"success", "auth"} THEN <<>> ELSE msgs

(* read(): some messages and perhaps a part of the next *)
Receive(n, p) ==
    /\ conn # "reset"
    /\ n \in 0..Len(wire) /\ p \in BOOLEAN
    /\ p => n < Len(wire)
    /\ n > 0 \/ (p /\ ~part)
    /\ wire' = SubSeq(wire, n + 1, Len(wire))
    /\ part' = p
    /\ UNCHANGED <<conn, authed, requests>>

Eof == conn = "eof" /\ wire = <<>>

(* rcon_reader_main() up to wait_auth(): a failure to write is taken for   *)
(* one of memory and ends the program.                                     *)
SendAuth ==
    /\ pc = "start"
    /\ \/ /\ password = "none"
          /\ pc' = "status" /\ auth_ok' = TRUE /\ UNCHANGED requests
       \/ /\ password # "none" /\ conn = "open"
          /\ requests' = Append(requests, "auth")
          /\ pc' = "wait" /\ UNCHANGED auth_ok
       \/ /\ password # "none" /\ conn # "open"
          /\ pc' \in {"wait", "abort"} /\ UNCHANGED <<requests, auth_ok>>
    /\ UNCHANGED <<password, client, response, part, conn, authed, wire>>
    /\ UNCHANGED <<partial, history>>

(* The end of wait_auth() *)
Decide(v) ==
    /\ auth_ok' = (v = "success")
    /\ pc' = IF v = "moredata" THEN "wait" ELSE "status"

(* wait_auth().  The end of the connection appends nothing and is not      *)
(* looked for: what is buffered is judged again, and again.                *)
WaitAuth ==
    /\ pc = "wait"
    /\ \/ \E n \in 0..Len(wire), p \in BOOLEAN :
              /\ Receive(n, p)
              /\ LET msgs == response \o SubSeq(wire, 1, n) IN
                     /\ response' = Unread(msgs, Verdict(msgs, p))
                     /\ Decide(Verdict(msgs, p))
       \/ Eof /\ Decide(Verdict(response, FALSE)) /\ UNCHANGED <<response, part, network>>
       \/ conn = "reset" /\ Decide("error") /\ UNCHANGED <<response, part, network>>
    /\ UNCHANGED <<password, client, partial, history>>

AfterStatus == IF auth_ok THEN "handle" ELSE "done"

(* Mutant of Forget: the freed session is kept. *)
ForgetNot == live' = live \ {sess} /\ UNCHANGED sess

(* _rcon_delete(sess), sess = nil *)
Forget == live' = live \ {sess} /\ sess' = 0

(* _rcon_status("auth_ok" or "auth_fail"): the waiting coroutines go on, ... *)
ReportAuth ==
    /\ pc = "status" /\ pc' = AfterStatus
    /\ connecting' = FALSE
    /\ waiters' = <<>>
    /\ IF auth_ok
       THEN /\ \E rv \in {"sent", "nil"} : Send(waiters, rv)
            /\ UNCHANGED <<sess, live>>
       ELSE /\ caller' = [c \in Callers |-> IF Contains(waiters, c) THEN "nil" ELSE caller[c]]
            /\ Forget
            /\ UNCHANGED network
    /\ UNCHANGED <<password, made, auth_ok, response, part, partial, history>>

(* ... unless the lock was not to be had.                                  *)
StatusLost ==
    /\ pc \in {"status", "eof"}
    /\ pc' = IF pc = "status" THEN AfterStatus ELSE "done"
    /\ lost' = TRUE
    /\ UNCHANGED <<password, client, auth_ok, response, part, network>>
    /\ UNCHANGED <<partial, answered, printed, early>>

(* What linereader() holds back after a batch of replies: the nil that     *)
(* prints the rest is passed if the last reply has text without an end.    *)
HoldBack(held, msgs) ==
    LET texts == {i \in DOMAIN msgs : msgs[i].body # "empty"}
    IN IF texts = {} THEN held ELSE msgs[Max(texts)].body = "open"

(* Mutant of PartialAfter: without the nil. *)
PartialAfterNoNil(held, msgs) == HoldBack(held, msgs)

PartialAfter(held, msgs) == Last(msgs).body # "open" /\ HoldBack(held, msgs)

(* Mutant of HandleReplies: only the first reply of a batch is passed on. *)
HandleRepliesFirst ==
    /\ pc = "handle" /\ pc' = "read"
    /\ response' = <<>>
    /\ printed' = printed \o Commands(IF response = <<>> THEN <<>> ELSE <<Head(response)>>)
    /\ partial' = IF response = <<>> THEN partial ELSE PartialAfter(partial, response)
    /\ UNCHANGED <<password, client, auth_ok, part, network, answered, early, lost>>

(* The body of the loop: all whole replies are passed to _rcon_data(), ... *)
HandleReplies ==
    /\ pc = "handle" /\ pc' = "read"
    /\ response' = <<>>
    /\ printed' = printed \o Commands(response)
    /\ partial' = IF response = <<>> THEN partial ELSE PartialAfter(partial, response)
    /\ UNCHANGED <<password, client, auth_ok, part, network, answered, early, lost>>

(* ... or all are dropped, ...                                             *)
RepliesLost ==
    /\ pc = "handle" /\ response # <<>>
    /\ pc' = "read"
    /\ response' = <<>> /\ lost' = TRUE
    /\ UNCHANGED <<password, client, auth_ok, part, network, partial, answered, printed, early>>

(* ... and read() follows; an error ends the thread without a word.        *)
ReadMore ==
    /\ pc = "read"
    /\ \/ \E n \in 0..Len(wire), p \in BOOLEAN :
              /\ Receive(n, p)
              /\ response' = response \o SubSeq(wire, 1, n)
              /\ pc' = "handle"
       \/ Eof /\ pc' = "eof" /\ UNCHANGED <<response, part, network>>
       \/ conn = "reset" /\ pc' = "done" /\ UNCHANGED <<response, part, network>>
    /\ UNCHANGED <<password, client, auth_ok, partial, history>>

(* _rcon_status("disconnect") *)
ReportDisconnect ==
    /\ pc = "eof" /\ pc' = "done"
    /\ connecting' = FALSE /\ Forget
    /\ UNCHANGED <<password, caller, waiters, made, auth_ok, response, part, network>>
    /\ UNCHANGED <<partial, history>>

ReaderStep == SendAuth \/ WaitAuth \/ ReportAuth \/ StatusLost
              \/ HandleReplies \/ RepliesLost \/ ReadMore \/ ReportDisconnect

-----------------------------------------------------------------------------
(* The server (external).  It acknowledges a password or not, and answers  *)
(* a command with one or two messages; one from a client it does not know  *)
(* it ignores, refuses or answers with nothing.                            *)
Answer(msgs) ==
    /\ requests' = Tail(requests)
    /\ wire' = wire \o msgs
    /\ UNCHANGED <<password, client, reader, conn, partial, printed, early, lost>>

ServeAuth ==
    /\ requests # <<>> /\ Head(requests) = "auth"
    /\ \E ack \in {<<>>, <<Value(0, "empty")>>} :
           Answer(Append(ack, AuthResponse(password = "right")))
    /\ authed' = (password = "right") /\ UNCHANGED answered

ServeCommand ==
    /\ requests # <<>> /\ Head(requests) \in Callers
    /\ LET c == Head(requests) IN
           IF authed \/ password = "none"
           THEN \E bs \in {<<b>> : b \in Bodies} \cup (Bodies \X Bodies) :
                    /\ Answer([i \in DOMAIN bs |-> Value(c, bs[i])])
                    /\ answered' = answered \o [i \in DOMAIN bs |-> c]
           ELSE /\ \E msgs \in {<<>>, <<Value(0, "empty")>>, <<AuthResponse(FALSE)>>} : Answer(msgs)
                /\ UNCHANGED answered
    /\ UNCHANGED authed

(* It goes away, in order or not. *)
Close ==
    /\ pc \notin {"none", "done", "abort"} /\ conn = "open"
    /\ requests' = <<>>
    /\ conn' \in {"eof", "reset"}
    /\ wire' = IF conn' = "eof" THEN wire ELSE <<>>
    /\ UNCHANGED <<password, client, reader, authed, partial, history>>

Serve == ServeAuth \/ ServeCommand

Next ==
    /\ pc # "abort"
    /\ (\E c \in Callers : Rcon(c)) \/ ReaderStep \/ Serve \/ Close

Spec == Init /\ [][Next]_vars

-----------------------------------------------------------------------------
Reading == pc \notin {"none", "done", "abort"}

(* The reader thread uses its session without the Lua lock, and rcon()     *)
(* uses "sess": neither has been freed by _rcon_status(), and the thread   *)
(* of one session is over when the next one is made.  A session nobody     *)
(* reads any more is not kept for rcon() to write to, except after an      *)
(* error of read() or a status that got no lock.                           *)
SessionsAlive ==
    /\ Reading => made \in live /\ sess = made
    /\ sess # 0 => sess \in live
    /\ pc = "done" /\ sess # 0 => lost \/ conn = "reset"

(* With the right password a session fails only if the connection breaks,  *)
(* or a command was sent before the answer: the reply to it is taken for a *)
(* refusal (rcon(), src_rcon_auth_wait()).                                 *)
AuthFailsForAReason ==
    password = "right" /\ pc = "status" /\ ~auth_ok => early \/ conn # "open"

(* The commands among those: the acknowledgement of a password is none. *)
AddReply == [cs \in Seq(Callers) |->
                [c \in Callers \cup {0} |-> IF c = 0 THEN cs ELSE Append(cs, c)]]

Replies(cs) == Fold(AddReply, <<>>, cs)

(* Every reply is passed to Lua, once and in order, or still on its way,   *)
(* except that a batch is dropped when the lock is not to be had, and what *)
(* arrives together with the answer about the password goes with it.       *)
RepliesAccounted ==
    Reading /\ conn # "reset" /\ ~early /\ ~lost /\ (pc = "status" => auth_ok) =>
        answered = Replies(printed \o Commands(response \o wire))

(* While the reader waits for more, all text received has been printed,    *)
(* unless the last message was an empty one: that keeps the end of an      *)
(* unfinished line from being passed on (the nonewline of the loop).       *)
TextPrinted ==
    [][HandleReplies /\ response # <<>> /\ partial' => Last(response).body = "empty"]_vars

(* The program is scheduled and the server answers, or goes away. *)
FairSpec == Spec /\ WF_vars(ReaderStep) /\ WF_vars(Serve)

(* wait_auth() polls a closed connection for ever *)
Spinning == pc = "wait" /\ Eof /\ response # <<>>

(* A coroutine that waits for the connection goes on in the end, unless    *)
(* the status got no lock, wait_auth() spins at the end of the connection, *)
(* or the program ended (rcon(), wait_auth(), _rcon_status()).             *)
WaitEnds ==
    \A c \in Callers :
        caller[c] = "waiting" ~> caller[c] # "waiting" \/ lost \/ Spinning \/ pc = "abort"
=============================================================================
