--------------------------- MODULE P2PChatProofs ---------------------------
(***************************************************************************)
(* Proofs about a chat of two peers: the four threads that share two       *)
(* sockets, two contexts and two files without a lock.  They hold for      *)
(* every two users, whatever they type, however the threads interleave,    *)
(* and wherever a process is killed.                                       *)
(***************************************************************************)
EXTENDS P2PChat, FiniteSetTheorems, NaturalsInduction, TLAPS

-----------------------------------------------------------------------------
(* Peers and types. *)

\* There is one other peer.
LEMMA OtherPeer ==
  ASSUME NEW p \in Peers
  PROVE  /\ Other(p) \in Peers /\ Other(p) # p
         /\ Other(Other(p)) = p
         /\ \A r \in Peers : r = p \/ r = Other(p)
<1>1. PICK e : Peers \ {p} = {e}
  <2>1. IsFiniteSet(Peers \ {p}) /\ Cardinality(Peers \ {p}) = 1
    <3>1. IsFiniteSet(Peers) /\ Cardinality(Peers) = 2
      BY ChatAssumption
    <3> QED
      BY <3>1, FS_RemoveElement
  <2> QED
    BY <2>1, FS_Singleton
<1>2. e \in Peers /\ e # p /\ \A r \in Peers : r = p \/ r = e
  BY <1>1
<1>3. Other(p) = e
  BY <1>2 DEF Other
<1>4. Other(e) = p
  BY <1>2 DEF Other
<1> QED
  BY <1>2, <1>3, <1>4

\* A frame whose text is of the kind its type says, or was garbled.
GoodFrame ==
  {f \in Frame : /\ f.type = "LMP_MSG" => f.text \in Lines \cup {"garbled"}
                 /\ f.type = "LMP_NICK" => f.text \in Nicks \cup {"garbled"}}

GoodHalf == [part : {"header", "payload"}, frame : GoodFrame]

Kinds == {"LMP_UID", "LMP_MSG", "LMP_NICK"}

\* What the user thread is sending, or has sent, where it is.
LineFits ==
  \A p \in Peers :
    /\ user[p] = "uid" => line[p] = UidFrame
    /\ user[p] = "payload" => line[p].type \in Kinds
    /\ user[p] = "saving" => line[p].type = "LMP_MSG"

TypeInv ==
  /\ ChatTypeOK
  /\ said \in [Peers -> [msg : Nat, nick : Nat]]
  /\ line \in [Peers -> GoodFrame]
  /\ frame \in [Peers -> GoodFrame]
  /\ stream \in [Peers -> Seq(GoodHalf)]
  /\ LineFits

LEMMA FrameTypes ==
  /\ UidFrame \in GoodFrame /\ UidFrame.type = "LMP_UID"
  /\ AckFrame \in GoodFrame /\ AckFrame.type = "LMP_ACK"
  /\ \A text \in Lines : /\ FrameOf("LMP_MSG", text) \in GoodFrame
                         /\ FrameOf("LMP_MSG", text).type = "LMP_MSG"
                         /\ FrameOf("LMP_MSG", text).text = text
  /\ \A nick \in Nicks : /\ FrameOf("LMP_NICK", nick) \in GoodFrame
                         /\ FrameOf("LMP_NICK", nick).type = "LMP_NICK"
                         /\ FrameOf("LMP_NICK", nick).text = nick
  /\ \A f \in GoodFrame : [f EXCEPT !.text = "garbled"] \in GoodFrame
  BY DEF GoodFrame, Frame, FrameOf, UidFrame, AckFrame

LEMMA HalfTypes ==
  ASSUME NEW f \in GoodFrame
  PROVE  /\ Header(f) \in GoodHalf /\ Header(f).part = "header" /\ Header(f).frame = f
         /\ Payload(f) \in GoodHalf /\ Payload(f).part = "payload" /\ Payload(f).frame = f
  BY DEF Header, Payload, GoodHalf

LEMMA ScrapType == Scrap \in GoodHalf
<1>1. FrameOf("LMP_ACK", "garbled") \in GoodFrame
  BY DEF GoodFrame, Frame, FrameOf
<1> QED
  BY <1>1, HalfTypes DEF Scrap

LEMMA TextTypes ==
  ASSUME NEW p \in Peers, NEW n \in 1 .. Len(Texts[p])
  PROVE  Texts[p][n] \in Lines
<1>1. Texts[p] \in Seq(STRING)
  BY ChatAssumption
<1>2. Texts[p][n] \in Range(Texts[p])
  BY <1>1 DEF Range
<1> QED
  BY <1>2 DEF Lines

LEMMA LineTypes ==
  ASSUME NEW from \in Peers, NEW name \in Nicks \cup {"You", "Peer", "garbled"},
         NEW text \in Lines \cup {"garbled"}
  PROVE  [from |-> from, name |-> name, text |-> text] \in Line
  BY DEF Line

\* The end of a process, and a send() of whatever outcome.
LEMMA EndsTyped ==
  ASSUME TypeInv, NEW p \in Peers, NEW how \in {"killed", "ended"}, Ends(p, how)
  PROVE  /\ stream' \in [Peers -> Seq(GoodHalf)] /\ shut' = shut
         /\ process' \in [Peers -> {"running", "killed", "ended"}]
<1>1. stream \in [Peers -> Seq(GoodHalf)] /\ process \in [Peers -> {"running", "killed", "ended"}]
  BY DEF TypeInv, ChatTypeOK
<1>2. <<>> \in Seq(GoodHalf)
  OBVIOUS
<1>3. \/ stream' = [stream EXCEPT ![Other(p)] = <<>>]
      \/ stream' = [r \in Peers |-> <<>>]
  BY DEF Ends, CloseSocket
<1> QED
  BY <1>1, <1>2, <1>3 DEF Ends

LEMMA SendTyped ==
  ASSUME TypeInv, NEW p \in Peers, NEW half \in GoodHalf,
         Sends(p, half) \/ SendFails(p) \/ SendKills(p)
  PROVE  /\ stream' \in [Peers -> Seq(GoodHalf)] /\ shut' = shut
         /\ process' \in [Peers -> {"running", "killed", "ended"}]
<1>1. stream \in [Peers -> Seq(GoodHalf)] /\ process \in [Peers -> {"running", "killed", "ended"}]
  BY DEF TypeInv, ChatTypeOK
<1>2. <<>> \in Seq(GoodHalf) /\ Append(stream[p], half) \in Seq(GoodHalf)
  BY <1>1
<1>3. CASE Sends(p, half)
  <2>1. \/ stream' = stream
        \/ stream' = [stream EXCEPT ![Other(p)] = <<>>]
        \/ stream' = [stream EXCEPT ![p] = Append(stream[p], half)]
    BY <1>1, <1>3 DEF Sends
  <2> QED
    BY <1>1, <1>2, <1>3, <2>1 DEF Sends
<1>4. CASE SendFails(p)
  BY <1>1, <1>4 DEF SendFails, net
<1>5. CASE SendKills(p)
  BY <1>5, EndsTyped DEF SendKills
<1> QED
  BY <1>3, <1>4, <1>5

\* What a step leaves of the types, for the thread that takes it.
NetTyped ==
  /\ stream' \in [Peers -> Seq(GoodHalf)]
  /\ shut' \in [Peers -> BOOLEAN]
  /\ process' \in [Peers -> {"running", "killed", "ended"}]

UserTypedToo ==
  /\ user' \in [Peers -> {"uid", "payload", "waiting", "prompt", "saving", "joining"}]
  /\ line' \in [Peers -> GoodFrame]
  /\ my_nick' \in [Peers -> Nicks \cup {"You"}]
  /\ said' \in [Peers -> [msg : Nat, nick : Nat]]
  /\ \A p \in Peers : said'[p] \in [msg : 0 .. Len(Texts[p]), nick : 0 .. MaxNicks]
  /\ LineFits'

ReceiverTypedToo ==
  /\ receiver' \in [Peers -> {"header", "payload", "dispatch", "prepared", "ack",
                              "ack_payload", "done"}]
  /\ frame' \in [Peers -> GoodFrame]
  /\ peer_nick' \in [Peers -> Nicks \cup {"Peer", "garbled"}]
  /\ history_path' \in [Peers -> BOOLEAN]
  /\ peer_uid_ready' \in [Peers -> BOOLEAN]
  /\ torn' \in [Peers -> BOOLEAN]

LEMMA TypesTogether ==
  ASSUME NetTyped, UserTypedToo, ReceiverTypedToo, history' \in [Peers -> Seq(Line)]
  PROVE  TypeInv'
<1>1. line' \in [Peers -> Frame] /\ frame' \in [Peers -> Frame]
  <2>1. GoodFrame \subseteq Frame
    BY DEF GoodFrame
  <2> QED
    BY <2>1 DEF UserTypedToo, ReceiverTypedToo
<1>2. stream' \in [Peers -> Seq(Half)]
  <2>1. GoodHalf \subseteq Half
    BY DEF GoodHalf, Half, GoodFrame
  <2>2. \A s \in Seq(GoodHalf) : s \in Seq(Half)
    BY <2>1
  <2> QED
    BY <2>2 DEF NetTyped
<1> QED
  BY <1>1, <1>2 DEF TypeInv, ChatTypeOK, NetTyped, UserTypedToo, ReceiverTypedToo

\* The same of what a step does not change.
LEMMA NetKept ==
  ASSUME TypeInv, UNCHANGED net
  PROVE  NetTyped
  BY DEF TypeInv, ChatTypeOK, NetTyped, net

LEMMA UserKept ==
  ASSUME TypeInv, UNCHANGED userVars
  PROVE  UserTypedToo
  BY DEF TypeInv, ChatTypeOK, UserTypedToo, userVars, LineFits

LEMMA ReceiverKept ==
  ASSUME TypeInv, UNCHANGED receiverVars
  PROVE  ReceiverTypedToo
  BY DEF TypeInv, ChatTypeOK, ReceiverTypedToo, receiverVars

LEMMA HistoryAppended ==
  ASSUME TypeInv, NEW p \in Peers, NEW from \in Peers,
         NEW name \in Nicks \cup {"You", "Peer", "garbled"}, NEW text \in Lines \cup {"garbled"},
         history' = Appended(p, from, name, text)
  PROVE  history' \in [Peers -> Seq(Line)]
<1>1. PICK l \in Line : l = [from |-> from, name |-> name, text |-> text]
  BY LineTypes
<1>2. history \in [Peers -> Seq(Line)]
  BY DEF TypeInv, ChatTypeOK
<1>3. Append(history[p], l) \in Seq(Line)
  BY <1>2
<1>4. history' = history \/ history' = [history EXCEPT ![p] = Append(history[p], l)]
  BY <1>1 DEF Appended
<1> QED
  BY <1>2, <1>3, <1>4

\* The user thread begins to send a line.
LEMMA HeaderTyped ==
  ASSUME TypeInv, NEW p \in Peers, NEW f \in GoodFrame, f.type \in Kinds,
         line' = [line EXCEPT ![p] = f], NEW ifFailed \in {"waiting", "prompt"},
         user[p] \in {"uid", "prompt"}, user[p] = "uid" => f = UidFrame,
         UserSendsHeader(p, ifFailed),
         my_nick' \in [Peers -> Nicks \cup {"You"}],
         said' \in [Peers -> [msg : Nat, nick : Nat]],
         \A q \in Peers : said'[q] \in [msg : 0 .. Len(Texts[q]), nick : 0 .. MaxNicks]
  PROVE  TypeInv'
<1>1. /\ user \in [Peers -> {"uid", "payload", "waiting", "prompt", "saving", "joining"}]
      /\ line \in [Peers -> GoodFrame] /\ LineFits
      /\ shut \in [Peers -> BOOLEAN]
  BY DEF TypeInv, ChatTypeOK
<1>2. line'[p] = f /\ \A q \in Peers : q # p => line'[q] = line[q]
  BY <1>1
<1>3. NetTyped
  BY <1>1, <1>2, HalfTypes, SendTyped DEF UserSendsHeader, NetTyped
<1>4. user' = [user EXCEPT ![p] = "payload"] \/ user' = [user EXCEPT ![p] = ifFailed]
        \/ user' = user
  BY DEF UserSendsHeader, GoTo
<1>5. LineFits'
  BY <1>1, <1>2, <1>4 DEF LineFits
<1>6. UserTypedToo
  BY <1>1, <1>4, <1>5 DEF UserTypedToo
<1>7. UNCHANGED receiverVars /\ UNCHANGED history
  BY DEF UserSendsHeader
<1>8. history' \in [Peers -> Seq(Line)]
  BY <1>7 DEF TypeInv, ChatTypeOK
<1> QED
  BY <1>3, <1>6, <1>7, <1>8, ReceiverKept, TypesTogether

LEMMA UserTyped ==
  ASSUME TypeInv, NEW p \in Peers, UserRuns(p) \/ UserTypes(p)
  PROVE  TypeInv'
<1>1. /\ user \in [Peers -> {"uid", "payload", "waiting", "prompt", "saving", "joining"}]
      /\ line \in [Peers -> GoodFrame] /\ my_nick \in [Peers -> Nicks \cup {"You"}]
      /\ said \in [Peers -> [msg : Nat, nick : Nat]]
      /\ \A q \in Peers : said[q] \in [msg : 0 .. Len(Texts[q]), nick : 0 .. MaxNicks]
      /\ shut \in [Peers -> BOOLEAN] /\ stream \in [Peers -> Seq(GoodHalf)]
      /\ process \in [Peers -> {"running", "killed", "ended"}]
      /\ history \in [Peers -> Seq(Line)]
      /\ LineFits
  BY DEF TypeInv, ChatTypeOK
<1>2. CASE SendUid(p)
  <2>1. UidFrame \in GoodFrame /\ UidFrame.type \in Kinds
    BY FrameTypes DEF Kinds
  <2>2. user[p] = "uid" /\ UserSendsHeader(p, "waiting") /\ UNCHANGED <<line, my_nick, said>>
    BY <1>2 DEF SendUid, At
  <2>3. line' = [line EXCEPT ![p] = UidFrame]
    BY <1>1, <2>2 DEF LineFits
  <2> QED
    BY <1>1, <2>1, <2>2, <2>3, HeaderTyped
<1>3. CASE TypeMsg(p)
  <2>1. /\ user[p] = "prompt" /\ UserSendsHeader(p, "prompt") /\ UNCHANGED my_nick
        /\ said[p].msg < Len(Texts[p]) /\ said' = [said EXCEPT ![p].msg = @ + 1]
        /\ line' = [line EXCEPT ![p] = FrameOf("LMP_MSG", Texts[p][said[p].msg + 1])]
    BY <1>3 DEF TypeMsg, At
  <2>2. PICK n \in 1 .. Len(Texts[p]) : n = said[p].msg + 1
    <3>1. Len(Texts[p]) \in Nat /\ said[p].msg \in Nat
      <4>1. Texts[p] \in Seq(STRING)
        BY ChatAssumption
      <4> QED
        BY <1>1, <4>1
    <3> QED
      BY <2>1, <3>1
  <2>3. PICK f \in GoodFrame : f = FrameOf("LMP_MSG", Texts[p][n]) /\ f.type = "LMP_MSG"
    BY TextTypes, FrameTypes
  <2>4. said' \in [Peers -> [msg : Nat, nick : Nat]] /\ said'[p].msg = n
          /\ said'[p].nick = said[p].nick /\ \A q \in Peers : q # p => said'[q] = said[q]
    <3>1. PICK old \in [msg : Nat, nick : Nat] : old = said[p]
      BY <1>1
    <3>2. PICK new : new = [old EXCEPT !.msg = n]
      OBVIOUS
    <3>3. new \in [msg : Nat, nick : Nat] /\ new.msg = n /\ new.nick = old.nick
      BY <3>2
    <3>4. said' = [said EXCEPT ![p] = new]
      BY <1>1, <2>1, <2>2, <3>1, <3>2
    <3> QED
      BY <1>1, <3>1, <3>3, <3>4
  <2>5. \A q \in Peers : said'[q] \in [msg : 0 .. Len(Texts[q]), nick : 0 .. MaxNicks]
    <3>1. n \in 0 .. Len(Texts[p])
      OBVIOUS
    <3>2. said'[p] = [msg |-> n, nick |-> said[p].nick]
      BY <2>4
    <3>3. said'[p] \in [msg : 0 .. Len(Texts[p]), nick : 0 .. MaxNicks]
      BY <1>1, <3>1, <3>2
    <3> QED
      BY <1>1, <2>4, <3>3
  <2> QED
    BY <1>1, <2>1, <2>2, <2>3, <2>4, <2>5, HeaderTyped DEF Kinds
<1>4. CASE TypeNick(p)
  <2>1. PICK nick \in Nicks : /\ my_nick' = [my_nick EXCEPT ![p] = nick]
                              /\ line' = [line EXCEPT ![p] = FrameOf("LMP_NICK", nick)]
    BY <1>4 DEF TypeNick
  <2>2. /\ user[p] = "prompt" /\ UserSendsHeader(p, "prompt")
        /\ said[p].nick < MaxNicks /\ said' = [said EXCEPT ![p].nick = @ + 1]
    BY <1>4 DEF TypeNick, At
  <2>3. PICK f \in GoodFrame : f = FrameOf("LMP_NICK", nick) /\ f.type = "LMP_NICK"
    BY FrameTypes
  <2>4. PICK n \in 0 .. MaxNicks : n = said[p].nick + 1
    <3>1. MaxNicks \in Nat /\ said[p].nick \in Nat
      BY <1>1, ChatAssumption
    <3> QED
      BY <2>2, <3>1
  <2>5. said' \in [Peers -> [msg : Nat, nick : Nat]] /\ said'[p].nick = n
          /\ said'[p].msg = said[p].msg /\ \A q \in Peers : q # p => said'[q] = said[q]
    <3>1. PICK old \in [msg : Nat, nick : Nat] : old = said[p]
      BY <1>1
    <3>2. PICK new : new = [old EXCEPT !.nick = n]
      OBVIOUS
    <3>3. new \in [msg : Nat, nick : Nat] /\ new.nick = n /\ new.msg = old.msg
      BY <3>2
    <3>4. said' = [said EXCEPT ![p] = new]
      BY <1>1, <2>2, <2>4, <3>1, <3>2
    <3> QED
      BY <1>1, <3>1, <3>3, <3>4
  <2>6. \A q \in Peers : said'[q] \in [msg : 0 .. Len(Texts[q]), nick : 0 .. MaxNicks]
    <3>1. said'[p] = [msg |-> said[p].msg, nick |-> n]
      BY <2>5
    <3>2. said'[p] \in [msg : 0 .. Len(Texts[p]), nick : 0 .. MaxNicks]
      BY <1>1, <3>1
    <3> QED
      BY <1>1, <2>5, <3>2
  <2>7. my_nick' \in [Peers -> Nicks \cup {"You"}]
    BY <1>1, <2>1
  <2> QED
    BY <1>1, <2>1, <2>2, <2>3, <2>5, <2>6, <2>7, HeaderTyped DEF Kinds
<1>5. CASE SendPayload(p)
  <2>1. /\ user[p] = "payload" /\ line[p] \in GoodFrame /\ line[p].type \in Kinds
        /\ UNCHANGED <<line, my_nick, said, receiverVars, history>>
    BY <1>1, <1>5 DEF SendPayload, At, LineFits
  <2>2. Sends(p, Payload(line[p])) \/ SendFails(p) \/ SendKills(p)
    BY <1>5 DEF SendPayload
  <2>3. NetTyped
    BY <1>1, <2>1, <2>2, HalfTypes, SendTyped DEF NetTyped
  <2>4. \/ user' = user
        \/ /\ line[p].type = "LMP_MSG"
           /\ user' = [user EXCEPT ![p] = "saving"] \/ user' = [user EXCEPT ![p] = "prompt"]
        \/ user' = [user EXCEPT ![p] = "waiting"]
        \/ user' = [user EXCEPT ![p] = "prompt"]
    BY <1>5, <2>1 DEF SendPayload, GoTo, Kinds
  <2>5. UserTypedToo
    BY <1>1, <2>1, <2>4 DEF UserTypedToo, LineFits
  <2> QED
    BY <1>1, <2>1, <2>3, <2>5, ReceiverKept, TypesTogether
<1>6. CASE SeeReady(p) \/ Leave(p)
  <2>1. /\ UNCHANGED <<line, my_nick, said, receiverVars, history, stream, process>>
        /\ user' = [user EXCEPT ![p] = "prompt"] \/ user' = [user EXCEPT ![p] = "joining"]
        /\ shut' = shut \/ shut' = [shut EXCEPT ![p] = TRUE]
    BY <1>6 DEF SeeReady, Leave, GoTo, net
  <2>2. NetTyped
    BY <1>1, <2>1 DEF NetTyped
  <2>3. UserTypedToo
    BY <1>1, <2>1 DEF UserTypedToo, LineFits
  <2> QED
    BY <1>1, <2>1, <2>2, <2>3, ReceiverKept, TypesTogether
<1>7. CASE SaveOwn(p)
  <2>1. /\ UNCHANGED <<line, my_nick, said, receiverVars, net>>
        /\ user' = [user EXCEPT ![p] = "prompt"] /\ user[p] = "saving"
        /\ history' = Appended(p, p, my_nick[p], line[p].text)
    BY <1>7 DEF SaveOwn, GoTo, At
  <2>2. line[p].text \in Lines \cup {"garbled"} /\ my_nick[p] \in Nicks \cup {"You", "Peer", "garbled"}
    BY <1>1, <2>1 DEF LineFits, GoodFrame
  <2>3. history' \in [Peers -> Seq(Line)]
    BY <2>1, <2>2, HistoryAppended
  <2>4. UserTypedToo
    BY <1>1, <2>1 DEF UserTypedToo, LineFits
  <2> QED
    BY <2>1, <2>3, <2>4, ReceiverKept, NetKept, TypesTogether
<1>8. CASE Join(p)
  <2>1. Ends(p, "ended") /\ UNCHANGED <<userVars, receiverVars, history>>
    BY <1>8 DEF Join
  <2>2. NetTyped
    BY <1>1, <2>1, EndsTyped DEF NetTyped
  <2> QED
    BY <1>1, <2>1, <2>2, UserKept, ReceiverKept, TypesTogether
<1> QED
  BY <1>2, <1>3, <1>4, <1>5, <1>6, <1>7, <1>8 DEF UserRuns, UserTypes

\* What ReadTorn takes off the stream is some of it.
LEMMA TornTakes ==
  ASSUME NEW S, NEW bytes \in Seq(S), bytes # <<>>,
         NEW own \in SUBSET DOMAIN bytes,
         NEW n \in 1 .. (IF own = {} THEN Len(bytes) ELSE Min(own))
  PROVE  n \in 1 .. Len(bytes) /\ SubSeq(bytes, n + 1, Len(bytes)) \in Seq(S)
<1>1. DOMAIN bytes = 1 .. Len(bytes) /\ Len(bytes) \in Nat
  OBVIOUS
<1>2. n \in 1 .. Len(bytes)
  <2>1. CASE own = {}
    BY <2>1
  <2>2. CASE own # {}
    <3>1. own \in SUBSET Nat
      BY <1>1
    <3> DEFINE less == {ss \in Nat \X Nat : ss[1] < ss[2]}
    <3>2. IsWellFoundedOn(less, Nat)
      BY NatLessThanWellFounded DEF OpToRel
    <3> HIDE DEF less
    <3>3. PICK m \in own : \A k \in own : ~(<<k, m>> \in less)
      BY <2>2, <3>1, <3>2, WFMin
    <3>4. \A k \in own : m <= k
      <4>1. \A k \in own : ~(k < m)
        BY <3>1, <3>3 DEF less
      <4> QED
        BY <3>1, <4>1
    <3>5. Min(own) \in own
      <4>1. \E x \in own : \A y \in own : x <= y
        BY <3>4
      <4> QED
        BY <4>1 DEF Min
    <3>6. Min(own) \in 1 .. Len(bytes)
      BY <1>1, <3>5
    <3> QED
      BY <1>1, <2>2, <3>6
  <2> QED
    BY <2>1, <2>2
<1> QED
  BY <1>1, <1>2

LEMMA ReceiverTyped ==
  ASSUME TypeInv, NEW p \in Peers, ReceiverRuns(p)
  PROVE  TypeInv'
<1> DEFINE q == Other(p)
<1>1. /\ receiver \in [Peers -> {"header", "payload", "dispatch", "prepared", "ack",
                                 "ack_payload", "done"}]
      /\ frame \in [Peers -> GoodFrame] /\ peer_nick \in [Peers -> Nicks \cup {"Peer", "garbled"}]
      /\ history_path \in [Peers -> BOOLEAN] /\ peer_uid_ready \in [Peers -> BOOLEAN]
      /\ torn \in [Peers -> BOOLEAN]
      /\ shut \in [Peers -> BOOLEAN] /\ stream \in [Peers -> Seq(GoodHalf)]
      /\ process \in [Peers -> {"running", "killed", "ended"}]
      /\ history \in [Peers -> Seq(Line)]
      /\ q \in Peers
  BY OtherPeer DEF TypeInv, ChatTypeOK
<1>2. CASE ReadHeader(p)
  <2>1. /\ stream[q] # <<>> /\ UNCHANGED <<peer_nick, history_path, peer_uid_ready, torn, history, process>>
        /\ UNCHANGED <<userVars, shut>>
        /\ stream' = [stream EXCEPT ![q] = SubSeq(@, 1 + 1, Len(@))]
        /\ \/ frame' = [frame EXCEPT ![p] = Head(stream[q]).frame]
                /\ receiver' = [receiver EXCEPT ![p] = "payload"]
           \/ frame' = frame /\ receiver' = [receiver EXCEPT ![p] = "done"]
    BY <1>2 DEF ReadHeader, Receiving, ReceiverTo, Takes
  <2>2. Head(stream[q]).frame \in GoodFrame
    <3>1. Head(stream[q]) \in GoodHalf
      BY <1>1, <2>1
    <3> QED
      BY <3>1 DEF GoodHalf
  <2>3. SubSeq(stream[q], 1 + 1, Len(stream[q])) \in Seq(GoodHalf)
    BY <1>1
  <2>4. NetTyped
    BY <1>1, <2>1, <2>3 DEF NetTyped
  <2>5. ReceiverTypedToo
    BY <1>1, <2>1, <2>2 DEF ReceiverTypedToo
  <2> QED
    BY <1>1, <2>1, <2>4, <2>5, UserKept, TypesTogether
<1>3. CASE ReadEnd(p)
  <2>1. /\ UNCHANGED <<frame, peer_nick, history_path, peer_uid_ready, torn, history, net, userVars>>
        /\ receiver' = [receiver EXCEPT ![p] = "done"]
    BY <1>3 DEF ReadEnd, Receiving, ReceiverTo, net
  <2>2. ReceiverTypedToo
    BY <1>1, <2>1 DEF ReceiverTypedToo
  <2> QED
    BY <1>1, <2>1, <2>2, NetKept, UserKept, TypesTogether
<1>4. CASE ReadPayload(p)
  <2>1. /\ UNCHANGED <<frame, peer_nick, history_path, peer_uid_ready, torn, history, process, shut,
                       userVars>>
        /\ receiver' = [receiver EXCEPT ![p] = "dispatch"]
        /\ stream' = [stream EXCEPT ![q] = SubSeq(@, 1 + 1, Len(@))]
    BY <1>4 DEF ReadPayload, Receiving, ReceiverTo, Takes
  <2>2. SubSeq(stream[q], 1 + 1, Len(stream[q])) \in Seq(GoodHalf)
    BY <1>1
  <2>3. NetTyped
    BY <1>1, <2>1, <2>2 DEF NetTyped
  <2>4. ReceiverTypedToo
    BY <1>1, <2>1 DEF ReceiverTypedToo
  <2> QED
    BY <1>1, <2>1, <2>3, <2>4, UserKept, TypesTogether
<1>5. CASE ReadTorn(p)
  <2> DEFINE bytes == stream[q]
             own == {n \in DOMAIN bytes : bytes[n] = Payload(frame[p])}
             Rest(n) == SubSeq(bytes, n + 1, Len(bytes))
  <2>1. /\ UNCHANGED <<peer_nick, history_path, peer_uid_ready, history, process, shut, userVars>>
        /\ receiver' = [receiver EXCEPT ![p] = "dispatch"]
        /\ torn' = [torn EXCEPT ![p] = TRUE]
        /\ frame' = [frame EXCEPT ![p].text = "garbled"]
        /\ bytes # <<>>
    BY <1>5 DEF ReadTorn, Receiving, ReceiverTo
  <2>2. PICK n \in 1 .. (IF own = {} THEN Len(bytes) ELSE Min(own)) :
          \/ stream' = [stream EXCEPT ![q] = <<Scrap>> \o Rest(n)]
          \/ stream' = [stream EXCEPT ![q] = Rest(n)]
    BY <1>5 DEF ReadTorn
  <2>3. bytes \in Seq(GoodHalf) /\ own \in SUBSET DOMAIN bytes
    BY <1>1
  <2>4. Rest(n) \in Seq(GoodHalf)
    BY <2>1, <2>3, TornTakes
  <2>5. <<Scrap>> \o Rest(n) \in Seq(GoodHalf)
    <3>1. PICK rest \in Seq(GoodHalf) : rest = Rest(n)
      BY <2>4
    <3>2. PICK scrap \in GoodHalf : scrap = Scrap
      BY ScrapType
    <3>3. <<scrap>> \in Seq(GoodHalf)
      OBVIOUS
    <3>4. <<scrap>> \o rest \in Seq(GoodHalf)
      BY <3>3
    <3> QED
      BY <3>1, <3>2, <3>4
  <2>6. stream' \in [Peers -> Seq(GoodHalf)]
    BY <1>1, <2>2, <2>4, <2>5
  <2>7. NetTyped
    BY <1>1, <2>1, <2>6 DEF NetTyped
  <2>8. frame' \in [Peers -> GoodFrame]
    <3>1. [frame[p] EXCEPT !.text = "garbled"] \in GoodFrame
      BY <1>1, FrameTypes
    <3>2. frame' = [frame EXCEPT ![p] = [frame[p] EXCEPT !.text = "garbled"]]
      BY <2>1
    <3> QED
      BY <1>1, <3>1, <3>2
  <2>9. ReceiverTypedToo
    BY <1>1, <2>1, <2>8 DEF ReceiverTypedToo
  <2> QED
    BY <1>1, <2>1, <2>7, <2>9, UserKept, TypesTogether
<1>6. CASE UidRecvPrepare(p) \/ UidRecvReady(p) \/ AckRecv(p)
  <2>1. /\ UNCHANGED <<frame, peer_nick, torn, history, net, userVars>>
        /\ receiver' = [receiver EXCEPT ![p] = "prepared"] \/ receiver' = [receiver EXCEPT ![p] = "header"]
        /\ history_path' = history_path \/ history_path' = [history_path EXCEPT ![p] = TRUE]
        /\ peer_uid_ready' = peer_uid_ready \/ peer_uid_ready' = [peer_uid_ready EXCEPT ![p] = TRUE]
    BY <1>6 DEF UidRecvPrepare, UidRecvReady, AckRecv, Dispatch, Receiving, ReceiverTo, net
  <2>2. ReceiverTypedToo
    BY <1>1, <2>1 DEF ReceiverTypedToo
  <2> QED
    BY <1>1, <2>1, <2>2, NetKept, UserKept, TypesTogether
<1>7. CASE MsgRecv(p)
  <2>1. /\ UNCHANGED <<frame, peer_nick, history_path, peer_uid_ready, torn, net, userVars>>
        /\ receiver' = [receiver EXCEPT ![p] = "header"]
        /\ history' = Appended(p, q, peer_nick[p], frame[p].text)
        /\ frame[p].type = "LMP_MSG"
    BY <1>7 DEF MsgRecv, Dispatch, Receiving, ReceiverTo, net
  <2>2. frame[p].text \in Lines \cup {"garbled"} /\ peer_nick[p] \in Nicks \cup {"You", "Peer", "garbled"}
    BY <1>1, <2>1 DEF GoodFrame
  <2>3. history' \in [Peers -> Seq(Line)]
    BY <1>1, <2>1, <2>2, HistoryAppended
  <2>4. ReceiverTypedToo
    BY <1>1, <2>1 DEF ReceiverTypedToo
  <2> QED
    BY <2>1, <2>3, <2>4, NetKept, UserKept, TypesTogether
<1>8. CASE NickRecv(p)
  <2>1. /\ UNCHANGED <<frame, history_path, peer_uid_ready, torn, history, net, userVars>>
        /\ receiver' = [receiver EXCEPT ![p] = "ack"]
        /\ peer_nick' = [peer_nick EXCEPT ![p] = frame[p].text]
        /\ frame[p].type = "LMP_NICK"
    BY <1>8 DEF NickRecv, Dispatch, Receiving, ReceiverTo, net
  <2>2. frame[p].text \in Nicks \cup {"Peer", "garbled"}
    BY <1>1, <2>1 DEF GoodFrame
  <2>3. ReceiverTypedToo
    BY <1>1, <2>1, <2>2 DEF ReceiverTypedToo
  <2> QED
    BY <1>1, <2>1, <2>3, NetKept, UserKept, TypesTogether
<1>9. CASE SendAck(p)
  <2>1. PICK half \in GoodHalf : Sends(p, half) \/ SendFails(p) \/ SendKills(p)
    BY <1>9, FrameTypes, HalfTypes DEF SendAck, AckSends
  <2>2. /\ UNCHANGED <<frame, peer_nick, history_path, peer_uid_ready, torn, history, userVars>>
        /\ \/ receiver' = receiver
           \/ receiver' = [receiver EXCEPT ![p] = "header"]
           \/ receiver' = [receiver EXCEPT ![p] = "ack_payload"]
    BY <1>9 DEF SendAck, AckSends, ReceiverTo
  <2>3. NetTyped
    BY <1>1, <2>1, SendTyped DEF NetTyped
  <2>4. ReceiverTypedToo
    BY <1>1, <2>2 DEF ReceiverTypedToo
  <2> QED
    BY <1>1, <2>2, <2>3, <2>4, UserKept, TypesTogether
<1> QED
  BY <1>2, <1>3, <1>4, <1>5, <1>6, <1>7, <1>8, <1>9 DEF ReceiverRuns

LEMMA InitTyped == Init => TypeInv
<1> SUFFICES ASSUME Init PROVE TypeInv
  OBVIOUS
<1>1. MaxNicks \in Nat /\ \A p \in Peers : Len(Texts[p]) \in Nat
  <2>1. \A p \in Peers : Texts[p] \in Seq(STRING)
    BY ChatAssumption
  <2>2. \A p \in Peers : Len(Texts[p]) \in Nat
    BY <2>1
  <2>3. MaxNicks \in Nat
    BY ChatAssumption
  <2> QED
    BY <2>2, <2>3
<1>2. UidFrame \in GoodFrame /\ UidFrame \in Frame
  BY FrameTypes DEF GoodFrame
<1>3. ChatTypeOK
  BY <1>1, <1>2 DEF Init, ChatTypeOK
<1> QED
  BY <1>2, <1>3 DEF Init, TypeInv, LineFits

LEMMA TypeInvariant == Spec => []TypeInv
<1>1. TypeInv /\ [Next]_vars => TypeInv'
  <2> SUFFICES ASSUME TypeInv, [Next]_vars PROVE TypeInv'
    OBVIOUS
  <2>1. CASE Next
    <3>1. PICK p \in Peers : UserRuns(p) \/ UserTypes(p) \/ ReceiverRuns(p) \/ Die(p)
      BY <2>1 DEF Next
    <3>2. CASE Die(p)
      <4>1. Ends(p, "killed") /\ UNCHANGED <<userVars, receiverVars, history>>
        BY <3>2 DEF Die
      <4>2. NetTyped
        BY <4>1, EndsTyped DEF NetTyped, TypeInv, ChatTypeOK
      <4>3. history' \in [Peers -> Seq(Line)]
        BY <4>1 DEF TypeInv, ChatTypeOK
      <4> QED
        BY <4>1, <4>2, <4>3, UserKept, ReceiverKept, TypesTogether
    <3> QED
      BY <3>1, <3>2, UserTyped, ReceiverTyped
  <2>2. CASE UNCHANGED vars
    <3>1. UNCHANGED <<userVars, receiverVars, history, net>>
      BY <2>2 DEF vars
    <3>2. history' \in [Peers -> Seq(Line)]
      BY <3>1 DEF TypeInv, ChatTypeOK
    <3> QED
      BY <3>1, <3>2, UserKept, ReceiverKept, NetKept, TypesTogether
  <2> QED
    BY <2>1, <2>2
<1> QED
  BY <1>1, InitTyped, PTL DEF Spec

\* Whatever the four threads do, the variables keep their types, and a
\* nickname is one that was taken (or the garbled one).
THEOREM ChatTypeCorrect == Spec => []ChatTypeOK
<1>1. TypeInv => ChatTypeOK
  BY DEF TypeInv
<1> QED
  BY <1>1, TypeInvariant, PTL

=============================================================================
