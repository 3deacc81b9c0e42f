------------------------------ MODULE P2PChat ------------------------------
(***************************************************************************)
(* One-on-one chat: chat_loop and the receiver thread of both peers, and   *)
(* the connection between them (lmp.c, base_commands.c).                   *)
(*                                                                         *)
(* Conventions.                                                            *)
(*  - lmp_send writes a frame with two send() calls, so that the stream of *)
(*    a peer is a sequence of halves, headers and payloads.  Its user      *)
(*    thread and its receiver thread write to it without a lock.           *)
(*  - The two threads of a peer interleave at every call that another      *)
(*    thread can tell: each send, each frame read, each line saved, and    *)
(*    each flag one thread polls and the other sets.                       *)
(*  - The model begins with the connection, which is the first of the two: *)
(*    no nickname and no history is on file.                               *)
(*  - torn and said observe; no action reads torn.                         *)
(***************************************************************************)
EXTENDS Integers, FiniteSets, SequencesExt

CONSTANTS
  Peers,      \* the two ends of the connection
  Texts,      \* per peer, the lines its user types, in this order
  Nicks,      \* nicknames that /nick gives
  Typed,      \* per peer, what its user types: "msg", "nick", "leave"
  MaxNicks,   \* bound: nicknames a user takes
  MayDie      \* environment: the peers whose process may be killed at any time

VARIABLES
  user,            \* where the user thread is
  line,            \* the frame the user thread is sending
  receiver,        \* where the receiver thread is
  frame,           \* the frame the receiver has read
  my_nick, peer_nick,
  history_path,    \* whether the path of the history is known
  peer_uid_ready,
  history,         \* the lines of history.txt
  stream,          \* halves a peer wrote and the other has not read
  shut,            \* whether shutdown(SHUT_WR) was called
  process,         \* "running", "killed", or "ended"
  said,            \* lines the user has typed, by kind
  torn             \* whether the receiver took another frame for a payload

userVars == <<user, line, my_nick, said>>
receiverVars == <<receiver, frame, peer_nick, history_path, peer_uid_ready, torn>>
net == <<stream, shut, process>>
vars == <<userVars, receiverVars, history, net>>

-----------------------------------------------------------------------------
(* Types. *)

Lines == UNION {Range(Texts[p]) : p \in Peers}

Frame == [type : {"LMP_UID", "LMP_MSG", "LMP_NICK", "LMP_ACK"},
          text : Lines \cup Nicks \cup {"", "garbled"}]
Half  == [part : {"header", "payload"}, frame : Frame]

FrameOf(type, text) == [type |-> type, text |-> text]
Header(f)  == [part |-> "header", frame |-> f]
Payload(f) == [part |-> "payload", frame |-> f]

UidFrame == FrameOf("LMP_UID", "")
AckFrame == FrameOf("LMP_ACK", "")

\* The end of a payload of which the beginning was taken for another's.
Scrap == Payload(FrameOf("LMP_ACK", "garbled"))

Line == [from : Peers, name : Nicks \cup {"You", "Peer", "garbled"},
         text : Lines \cup {"garbled"}]

ASSUME ChatAssumption ==
  /\ IsFiniteSet(Peers) /\ Cardinality(Peers) = 2
  /\ Texts \in [Peers -> Seq(STRING)] /\ Nicks \subseteq STRING
  /\ {"You", "Peer", "garbled", ""} \cap (Nicks \cup Lines) = {}
  /\ Typed \in [Peers -> SUBSET {"msg", "nick", "leave"}]
  /\ MaxNicks \in Nat
  /\ MayDie \subseteq Peers

Other(p) == CHOOSE q \in Peers : q # p
Gone(p)  == process[p] # "running"

Init ==
  /\ user = [p \in Peers |-> "uid"]
  /\ line = [p \in Peers |-> UidFrame]
  /\ receiver = [p \in Peers |-> "header"]
  /\ frame = [p \in Peers |-> UidFrame]
  /\ my_nick = [p \in Peers |-> "You"]
  /\ peer_nick = [p \in Peers |-> "Peer"]
  /\ history_path = [p \in Peers |-> FALSE]
  /\ peer_uid_ready = [p \in Peers |-> FALSE]
  /\ history = [p \in Peers |-> <<>>]
  /\ stream = [p \in Peers |-> <<>>]
  /\ shut = [p \in Peers |-> FALSE]
  /\ process = [p \in Peers |-> "running"]
  /\ said = [p \in Peers |-> [msg |-> 0, nick |-> 0]]
  /\ torn = [p \in Peers |-> FALSE]

-----------------------------------------------------------------------------
(* The connection. *)

\* The socket of p is closed.  What it had not read is discarded, and if there
\* was anything, a reset may discard what the other has not read either.
CloseSocket(p) ==
  LET q == Other(p)
  IN  stream' \in {[stream EXCEPT ![q] = <<>>]}
                  \cup (IF stream[q] = <<>> THEN {} ELSE {[r \in Peers |-> <<>>]})

Ends(p, how) ==
  /\ process' = [process EXCEPT ![p] = how]
  /\ CloseSocket(p)
  /\ UNCHANGED shut

\* One send() of p.  It succeeds, though to a peer that has gone its bytes are
\* lost and the answer to them may be a reset; or it fails; or SIGPIPE, which
\* nothing handles, ends the process, always so after shutdown().
Sends(p, half) ==
  /\ ~shut[p]
  /\ IF Gone(Other(p))
     THEN stream' \in {stream, [stream EXCEPT ![Other(p)] = <<>>]}
     ELSE stream' = [stream EXCEPT ![p] = Append(@, half)]
  /\ UNCHANGED <<shut, process>>

SendFails(p) == ~shut[p] /\ Gone(Other(p)) /\ UNCHANGED net

SendKills(p) == (shut[p] \/ Gone(Other(p))) /\ Ends(p, "killed")

-----------------------------------------------------------------------------
(* The user thread, chat_loop. *)

At(p, place) == process[p] = "running" /\ user[p] = place
GoTo(p, place) == user' = [user EXCEPT ![p] = place]

\* The header of line[p]'.
UserSendsHeader(p, ifFailed) ==
  /\ \/ Sends(p, Header(line'[p])) /\ GoTo(p, "payload")
     \/ SendFails(p) /\ GoTo(p, ifFailed)
     \/ SendKills(p) /\ UNCHANGED user
  /\ UNCHANGED <<receiverVars, history>>

\* lmp_send_uid, once the receiver thread exists; a failure is reported and
\* does not end the chat.
SendUid(p) ==
  /\ At(p, "uid")
  /\ UNCHANGED <<line, my_nick, said>>
  /\ UserSendsHeader(p, "waiting")

\* The payload; a message that was sent is then saved.
SendPayload(p) ==
  /\ At(p, "payload")
  /\ LET after == [LMP_UID |-> "waiting", LMP_MSG |-> "saving", LMP_NICK |-> "prompt"]
         failed == [after EXCEPT !["LMP_MSG"] = "prompt"]
     IN  \/ Sends(p, Payload(line[p])) /\ GoTo(p, after[line[p].type])
         \/ SendFails(p) /\ GoTo(p, failed[line[p].type])
         \/ SendKills(p) /\ UNCHANGED user
  /\ UNCHANGED <<line, my_nick, said, receiverVars, history>>

\* Mutant: the prompt appears without the UID of the peer.
SeeReady_NotWaiting(p) ==
  /\ At(p, "waiting")
  /\ GoTo(p, "prompt")
  /\ UNCHANGED <<line, my_nick, said, receiverVars, history, net>>

\* The loop that polls peer_uid_ready, without a time-out, ends.
SeeReady(p) ==
  /\ At(p, "waiting")
  /\ peer_uid_ready[p]
  /\ GoTo(p, "prompt")
  /\ UNCHANGED <<line, my_nick, said, receiverVars, history, net>>

\* lmp_history_append: nothing is saved as long as the path is not known.
Appended(p, from, name, text) ==
  IF history_path[p]
  THEN [history EXCEPT ![p] = Append(@, [from |-> from, name |-> name, text |-> text])]
  ELSE history

\* Plain text, or /msg.
TypeMsg(p) ==
  /\ At(p, "prompt")
  /\ "msg" \in Typed[p] /\ said[p].msg < Len(Texts[p])
  /\ said' = [said EXCEPT ![p].msg = @ + 1]
  /\ line' = [line EXCEPT ![p] = FrameOf("LMP_MSG", Texts[p][said[p].msg + 1])]
  /\ UNCHANGED my_nick
  /\ UserSendsHeader(p, "prompt")

SaveOwn(p) ==
  /\ At(p, "saving")
  /\ history' = Appended(p, p, my_nick[p], line[p].text)
  /\ GoTo(p, "prompt")
  /\ UNCHANGED <<line, my_nick, said, receiverVars, net>>

\* /nick: the nickname is set before it is sent, whether that succeeds or not.
TypeNick(p) ==
  /\ At(p, "prompt")
  /\ "nick" \in Typed[p] /\ said[p].nick < MaxNicks
  /\ said' = [said EXCEPT ![p].nick = @ + 1]
  /\ \E nick \in Nicks :
       /\ my_nick' = [my_nick EXCEPT ![p] = nick]
       /\ line' = [line EXCEPT ![p] = FrameOf("LMP_NICK", nick)]
  /\ UserSendsHeader(p, "prompt")

\* Mutant: the end of the input is not passed on to the peer.
Leave_NoShutdown(p) ==
  /\ At(p, "prompt")
  /\ "leave" \in Typed[p]
  /\ GoTo(p, "joining")
  /\ UNCHANGED <<line, my_nick, said, receiverVars, history, net>>

\* The end of the input: shutdown(SHUT_WR); the receiver goes on reading.
Leave(p) ==
  /\ At(p, "prompt")
  /\ "leave" \in Typed[p]
  /\ GoTo(p, "joining")
  /\ shut' = [shut EXCEPT ![p] = TRUE]
  /\ UNCHANGED <<line, my_nick, said, receiverVars, history, stream, process>>

\* The receiver is joined, main closes the socket and returns.
Join(p) ==
  /\ At(p, "joining")
  /\ receiver[p] = "done"
  /\ Ends(p, "ended")
  /\ UNCHANGED <<userVars, receiverVars, history>>

\* What the thread does by itself, and what it does when its user types.
UserRuns(p)  == SendUid(p) \/ SendPayload(p) \/ SeeReady(p) \/ SaveOwn(p) \/ Join(p)
UserTypes(p) == TypeMsg(p) \/ TypeNick(p) \/ Leave(p)

-----------------------------------------------------------------------------
(* The receiver thread. *)

Receiving(p, place) ==
  /\ process[p] = "running"
  /\ receiver[p] = place
  /\ UNCHANGED <<userVars, shut>>

ReceiverTo(p, place) == receiver' = [receiver EXCEPT ![p] = place]

\* The thread takes the first n halves off the stream.
Takes(p, n) == stream' = [stream EXCEPT ![Other(p)] = SubSeq(@, n + 1, Len(@))]

\* lmp_recv: a header, or bytes that do not begin with the magic number, upon
\* which the thread ends and reads no more.
ReadHeader(p) ==
  /\ Receiving(p, "header")
  /\ stream[Other(p)] # <<>>
  /\ LET half == Head(stream[Other(p)])
     IN  IF half.part = "header"
         THEN frame' = [frame EXCEPT ![p] = half.frame] /\ ReceiverTo(p, "payload")
         ELSE UNCHANGED frame /\ ReceiverTo(p, "done")
  /\ Takes(p, 1)
  /\ UNCHANGED <<peer_nick, history_path, peer_uid_ready, torn, history, process>>

\* The end of the stream, before a header or instead of a payload.
ReadEnd(p) ==
  /\ Receiving(p, "header") \/ Receiving(p, "payload")
  /\ stream[Other(p)] = <<>>
  /\ shut[Other(p)] \/ Gone(Other(p))
  /\ ReceiverTo(p, "done")
  /\ UNCHANGED <<frame, peer_nick, history_path, peer_uid_ready, torn, history,
                 stream, process>>

\* The payload of the frame.
ReadPayload(p) ==
  /\ Receiving(p, "payload")
  /\ stream[Other(p)] # <<>> /\ Head(stream[Other(p)]).part = "payload"
  /\ Takes(p, 1)
  /\ ReceiverTo(p, "dispatch")
  /\ UNCHANGED <<frame, peer_nick, history_path, peer_uid_ready, torn, history, process>>

\* Halves that the other thread of the peer wrote after the header are taken
\* for the payload, with or without a cut through the last of them.  Together
\* they are as long as the payload, of which at least a piece therefore stays.
ReadTorn(p) ==
  LET bytes == stream[Other(p)]
      own   == {n \in DOMAIN bytes : bytes[n] = Payload(frame[p])}
      last  == IF own = {} THEN Len(bytes) ELSE Min(own)
  IN  /\ Receiving(p, "payload")
      /\ bytes # <<>> /\ Head(bytes).part = "header"
      /\ \E n \in 1 .. last :
           LET rest == SubSeq(bytes, n + 1, Len(bytes))
           IN  stream' \in {[stream EXCEPT ![Other(p)] = <<Scrap>> \o rest]}
                           \cup (IF n \in own THEN {}
                                 ELSE {[stream EXCEPT ![Other(p)] = rest]})
      /\ frame' = [frame EXCEPT ![p].text = "garbled"]
      /\ torn' = [torn EXCEPT ![p] = TRUE]
      /\ ReceiverTo(p, "dispatch")
      /\ UNCHANGED <<peer_nick, history_path, peer_uid_ready, history, process>>

\* dispatch_recv finds the handler of the type.
Dispatch(p, type) == Receiving(p, "dispatch") /\ frame[p].type = type

\* uid_recv: lmp_history_prepare makes the path of the history,
UidRecvPrepare(p) ==
  /\ Dispatch(p, "LMP_UID")
  /\ history_path' = [history_path EXCEPT ![p] = TRUE]
  /\ ReceiverTo(p, "prepared")
  /\ UNCHANGED <<frame, peer_nick, peer_uid_ready, torn, history, stream, process>>

\* Mutant: the flag is forgotten.
UidRecvReady_NotSet(p) ==
  /\ Receiving(p, "prepared")
  /\ ReceiverTo(p, "header")
  /\ UNCHANGED <<frame, peer_nick, history_path, peer_uid_ready, torn, history,
                 stream, process>>

\* and the flag the user thread polls is set.
UidRecvReady(p) ==
  /\ Receiving(p, "prepared")
  /\ peer_uid_ready' = [peer_uid_ready EXCEPT ![p] = TRUE]
  /\ ReceiverTo(p, "header")
  /\ UNCHANGED <<frame, peer_nick, history_path, torn, history, stream, process>>

\* Mutant: the message is printed and not saved.
MsgRecv_NotSaved(p) ==
  /\ Dispatch(p, "LMP_MSG")
  /\ ReceiverTo(p, "header")
  /\ UNCHANGED <<frame, peer_nick, history_path, peer_uid_ready, torn, history, stream, process>>

\* msg_recv: the message is saved under the nickname the peer has by now.
MsgRecv(p) ==
  /\ Dispatch(p, "LMP_MSG")
  /\ history' = Appended(p, Other(p), peer_nick[p], frame[p].text)
  /\ ReceiverTo(p, "header")
  /\ UNCHANGED <<frame, peer_nick, history_path, peer_uid_ready, torn, stream, process>>

\* Mutant: the type is stored for the nickname.
NickRecv_StoresType(p) ==
  /\ Dispatch(p, "LMP_NICK")
  /\ peer_nick' = [peer_nick EXCEPT ![p] = frame[p].type]
  /\ ReceiverTo(p, "ack")
  /\ UNCHANGED <<frame, history_path, peer_uid_ready, torn, history, stream, process>>

\* Mutant: the nickname is acknowledged and not taken over.
NickRecv_NotStored(p) ==
  /\ Dispatch(p, "LMP_NICK")
  /\ ReceiverTo(p, "ack")
  /\ UNCHANGED <<frame, peer_nick, history_path, peer_uid_ready, torn, history, stream, process>>

\* nick_recv: the nickname, and then the answer, from this thread.
NickRecv(p) ==
  /\ Dispatch(p, "LMP_NICK")
  /\ peer_nick' = [peer_nick EXCEPT ![p] = frame[p].text]
  /\ ReceiverTo(p, "ack")
  /\ UNCHANGED <<frame, history_path, peer_uid_ready, torn, history, stream, process>>

AckSends(p, place, half, next) ==
  /\ process[p] = "running" /\ receiver[p] = place
  /\ \/ Sends(p, half) /\ ReceiverTo(p, next)
     \/ SendFails(p) /\ ReceiverTo(p, "header")
     \/ SendKills(p) /\ UNCHANGED receiver
  /\ UNCHANGED <<userVars, frame, peer_nick, history_path, peer_uid_ready, torn, history>>

SendAck(p) ==
  \/ AckSends(p, "ack", Header(AckFrame), "ack_payload")
  \/ AckSends(p, "ack_payload", Payload(AckFrame), "header")

\* ack_recv only prints.
AckRecv(p) ==
  /\ Dispatch(p, "LMP_ACK")
  /\ ReceiverTo(p, "header")
  /\ UNCHANGED <<frame, peer_nick, history_path, peer_uid_ready, torn, history, stream, process>>

ReceiverRuns(p) ==
  \/ ReadHeader(p) \/ ReadEnd(p) \/ ReadPayload(p) \/ ReadTorn(p)
  \/ UidRecvPrepare(p) \/ UidRecvReady(p) \/ MsgRecv(p) \/ NickRecv(p)
  \/ SendAck(p) \/ AckRecv(p)

-----------------------------------------------------------------------------

\* Environment: a process is killed, at whatever point its threads are.
Die(p) ==
  /\ p \in MayDie
  /\ process[p] = "running"
  /\ Ends(p, "killed")
  /\ UNCHANGED <<userVars, receiverVars, history>>

Next == \E p \in Peers : UserRuns(p) \/ UserTypes(p) \/ ReceiverRuns(p) \/ Die(p)

Spec == Init /\ [][Next]_vars

\* Both threads of a running process run.  Nothing is assumed of the users.
FairSpec ==
  Spec /\ \A p \in Peers : WF_vars(UserRuns(p)) /\ WF_vars(ReceiverRuns(p))

-----------------------------------------------------------------------------
(* Properties. *)

\* Every variable has its type; a nickname is one that someone took, or
\* what was read in the place of one.
ChatTypeOK ==
  /\ user \in [Peers -> {"uid", "payload", "waiting", "prompt", "saving", "joining"}]
  /\ line \in [Peers -> Frame]
  /\ receiver \in [Peers -> {"header", "payload", "dispatch", "prepared", "ack",
                             "ack_payload", "done"}]
  /\ frame \in [Peers -> Frame]
  /\ my_nick \in [Peers -> Nicks \cup {"You"}]
  /\ peer_nick \in [Peers -> Nicks \cup {"Peer", "garbled"}]
  /\ history_path \in [Peers -> BOOLEAN]
  /\ peer_uid_ready \in [Peers -> BOOLEAN]
  /\ history \in [Peers -> Seq(Line)]
  /\ stream \in [Peers -> Seq(Half)]
  /\ shut \in [Peers -> BOOLEAN]
  /\ process \in [Peers -> {"running", "killed", "ended"}]
  /\ \A p \in Peers : said[p] \in [msg : 0 .. Len(Texts[p]), nick : 0 .. MaxNicks]
  /\ torn \in [Peers -> BOOLEAN]

\* Where the lines of p are in the history that q keeps, and the how many-th of
\* them stands at i.
LinesAt(p, q) == {i \in DOMAIN history[q] : history[q][i].from = p}
Nth(p, q, i) == Cardinality({j \in LinesAt(p, q) : j <= i})

\* What one peer said stands in both histories in the order it was typed,
\* nothing left out of either, and under the same nickname from the moment the
\* speaker took one, although four threads write the two files; unless a
\* frame was torn.
HistoriesAgree ==
  \A p \in Peers :
    ~torn[Other(p)] =>
      \A i \in LinesAt(p, Other(p)) :
        LET got == history[Other(p)][i]
            n   == Nth(p, Other(p), i)
        IN  /\ n <= Len(Texts[p]) /\ got.text = Texts[p][n]
            /\ \A k \in LinesAt(p, p) :
                 LET own == history[p][k]
                 IN  Nth(p, p, k) = n => /\ own.text = got.text
                                         /\ own.name # "You" => own.name = got.name

\* Both users get their prompt, unless a process is killed: nobody waits for a
\* UID that was sent, and everybody's is.
HandshakeEnds ==
  \A p \in Peers : user[p] = "waiting"
    ~> (user[p] = "prompt" \/ \E q \in Peers : process[q] = "killed")

\* What a user has sent and saved gets into the history of the peer, even if
\* the sender leaves at once, unless a process is killed or a frame torn.
MessagesArrive ==
  \A p \in Peers :
    \A n \in DOMAIN Texts[p] :
      Cardinality(LinesAt(p, p)) >= n
        ~> \/ Cardinality(LinesAt(p, Other(p))) >= n
           \/ \E q \in Peers : torn[q] \/ process[q] = "killed"

\* When both users have ended their input, both programs end: each receiver,
\* which the other thread waits for, sees the end of the other's stream.
BothLeaveEnds ==
  (\A p \in Peers : user[p] = "joining") ~> (\A p \in Peers : Gone(p))

\* "Each frame is an 8-byte header followed by a variable-length payload"
\* (README.md:122): what a receiver finds behind a header is no other frame.
FramesWhole == \A p \in Peers : ~torn[p]
=============================================================================
