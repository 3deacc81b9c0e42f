------------------------- MODULE GroupServerProofs -------------------------
(***************************************************************************)
(* Proofs about the group server, for any number of connections, members,  *)
(* commands and whatever the clients do.  The invariants are proved one    *)
(* after the other, each from the ones before it.                          *)
(***************************************************************************)
EXTENDS GroupServer, HangmanProofs, WellFoundedInduction

-----------------------------------------------------------------------------
(* Facts about the operators of the server. *)

\* What a sequence over a set is made of.
LEMMA SeqElements ==
  ASSUME NEW S, NEW s \in Seq(S)
  PROVE  /\ Len(s) \in Nat
         /\ DOMAIN s = 1 .. Len(s)
         /\ \A i \in DOMAIN s : s[i] \in S
  OBVIOUS

LEMMA TailElements ==
  ASSUME NEW S, NEW s \in Seq(S), s # <<>>, NEW k \in DOMAIN Tail(s)
  PROVE  k + 1 \in DOMAIN s /\ k + 1 # 1 /\ Tail(s)[k] = s[k + 1]
<1>1. Len(s) \in Nat \ {0} /\ DOMAIN s = 1 .. Len(s)
  OBVIOUS
<1>2. DOMAIN Tail(s) = 1 .. Len(s) - 1
  BY <1>1
<1>3. k \in 1 .. Len(s) - 1
  BY <1>2
<1> QED
  BY <1>1, <1>3

\* A set of natural numbers has its minimum as an element.
LEMMA MinIsElement ==
  ASSUME NEW S \in SUBSET Nat, S # {}
  PROVE  Min(S) \in S
<1> DEFINE less == {ss \in Nat \X Nat : ss[1] < ss[2]}
<1>1. IsWellFoundedOn(less, Nat)
  BY NatLessThanWellFounded DEF OpToRel
<1> HIDE DEF less
<1>2. PICK n \in S : \A m \in S : ~(<<m, n>> \in less)
  BY <1>1, WFMin
<1>3. \A m \in S : ~(m < n)
  BY <1>2 DEF less
<1>4. \A m \in S : n <= m
  BY <1>3
<1> QED
  BY <1>4 DEF Min

\* The scan moves forward, and not beyond the end of the table, to an entry
\* that is marked ready.
LEMMA NextReadyFacts ==
  ASSUME NEW entries \in Seq([fd : Conns, revents : BOOLEAN]), NEW i \in Nat,
         i <= Len(entries)
  PROVE  /\ NextReady(entries, i) \in i + 1 .. Len(entries) + 1
         /\ NextReady(entries, i) \in DOMAIN entries =>
              entries[NextReady(entries, i)].revents
<1> DEFINE ready == {k \in DOMAIN entries : k > i /\ entries[k].revents}
           stops == ready \cup {Len(entries) + 1}
<1>1. /\ Len(entries) \in Nat /\ DOMAIN entries = 1 .. Len(entries)
      /\ stops \subseteq Nat /\ stops # {}
  OBVIOUS
<1>2. Min(stops) \in stops
  <2> HIDE DEF stops
  <2> QED
    BY <1>1, MinIsElement
<1>3. NextReady(entries, i) = Min(stops)
  BY DEF NextReady
<1> HIDE DEF stops
<1>4. NextReady(entries, i) \in ready \/ NextReady(entries, i) = Len(entries) + 1
  BY <1>2, <1>3 DEF stops
<1> QED
  BY <1>1, <1>4

\* A Group of zeroes is a Group.
LEMMA ZeroGroupType == ZeroGroup \in Group /\ [ZeroGroup EXCEPT !.info = ThisGroup] \in Group
<1>1. NoMember \in GroupMember
  BY GroupAssumption DEF NoMember, GroupMember
<1> QED
  BY <1>1 DEF ZeroGroup, Group

\* The departure of the entry i leaves a Group, if both indices exist.
LEMMA DropMemberType ==
  ASSUME NEW group \in Group, Len(pfds) \in Nat, Len(pfds) <= MAX_GROUP_MEMBERS,
         NEW i \in 1 .. Len(pfds)
  PROVE  DropMember(group, i) \in Group
<1> DEFINE members == [group.members EXCEPT ![i - 1] = group.members[Len(pfds) - 1]]
<1>0. MAX_GROUP_MEMBERS \in Nat \ {0}
  BY GroupAssumption
<1>1. /\ Len(pfds) - 1 \in 0 .. MAX_GROUP_MEMBERS - 1
      /\ group.members \in [0 .. MAX_GROUP_MEMBERS - 1 -> GroupMember]
      /\ group.member_count - 1 \in Int
  BY <1>0 DEF Group
<1>2. members \in [0 .. MAX_GROUP_MEMBERS - 1 -> GroupMember]
  BY <1>1
<1>3. DropMember(group, i) = [group EXCEPT !.members = members,
                                           !.member_count = group.member_count - 1]
  BY DEF DropMember, Group
<1> HIDE DEF members
<1> QED
  BY <1>1, <1>2, <1>3 DEF Group

\* A new nickname leaves a Group.
LEMMA NewNickType ==
  ASSUME NEW group \in Group, NEW k \in 0 .. MAX_GROUP_MEMBERS - 1, NEW nick \in Nicks
  PROVE  [group EXCEPT !.members[k].nickname = nick] \in Group
<1> DEFINE member == [group.members[k] EXCEPT !.nickname = nick]
           members == [group.members EXCEPT ![k] = member]
<1>1. group.members \in [0 .. MAX_GROUP_MEMBERS - 1 -> GroupMember]
  BY DEF Group
<1>2. member \in GroupMember
  BY <1>1 DEF GroupMember
<1>3. members \in [0 .. MAX_GROUP_MEMBERS - 1 -> GroupMember]
  <2> HIDE DEF member
  <2> QED
    BY <1>1, <1>2
<1>4. [group EXCEPT !.members[k].nickname = nick] = [group EXCEPT !.members = members]
  OBVIOUS
<1> HIDE DEF members
<1> QED
  BY <1>3, <1>4 DEF Group

\* A stored member leaves a Group, if the index is -1 or exists.
LEMMA StoreMemberType ==
  ASSUME NEW group \in Group, group.member_count \in -1 .. MAX_GROUP_MEMBERS - 1,
         NEW member \in GroupMember
  PROVE  StoreMember(group, member) \in Group
<1> DEFINE members == [group.members EXCEPT ![group.member_count] = member]
<1>1. group.member_count + 1 \in Int
  BY DEF Group
<1>2. CASE group.member_count = -1
  BY <1>1, <1>2 DEF StoreMember, Group
<1>3. CASE group.member_count # -1
  <2>0. MAX_GROUP_MEMBERS \in Nat \ {0}
    BY GroupAssumption
  <2>1. group.member_count \in 0 .. MAX_GROUP_MEMBERS - 1
    BY <1>3, <2>0
  <2>2. members \in [0 .. MAX_GROUP_MEMBERS - 1 -> GroupMember]
    BY <2>1 DEF Group
  <2>3. StoreMember(group, member) =
          [group EXCEPT !.members = members, !.member_count = group.member_count + 1]
    BY <1>3 DEF StoreMember
  <2> HIDE DEF members
  <2> QED
    BY <1>1, <2>2, <2>3 DEF Group
<1> QED
  BY <1>2, <1>3

\* Telling everybody of a Group leaves everybody with a Group.
LEMMA SendNewGroupType ==
  ASSUME NEW entries, NEW group \in Group, SendNewGroupToUsers(entries, group)
  PROVE  told' \in [Conns -> Group]
  BY ZeroGroupType DEF SendNewGroupToUsers

\* The table without entry i.
LEMMA DelFromPfdsFacts ==
  ASSUME NEW S, NEW entries \in Seq(S), NEW i \in 1 .. Len(entries)
  PROVE  /\ DelFromPfds(entries, i) \in Seq(S)
         /\ Len(DelFromPfds(entries, i)) = Len(entries) - 1
         /\ \A k \in 1 .. Len(entries) - 1 :
              DelFromPfds(entries, i)[k] = IF k = i THEN entries[Len(entries)] ELSE entries[k]
<1> DEFINE rest == [k \in 1 .. Len(entries) - 1 |->
                      IF k = i THEN entries[Len(entries)] ELSE entries[k]]
<1>1. Len(entries) - 1 \in Nat /\ Len(entries) \in 1 .. Len(entries)
  OBVIOUS
<1>2. \A k \in 1 .. Len(entries) - 1 : k \in 1 .. Len(entries)
  BY <1>1
<1>3. rest \in [1 .. Len(entries) - 1 -> S]
  BY <1>1, <1>2
<1>4. rest \in Seq(S) /\ Len(rest) = Len(entries) - 1
  BY <1>1, <1>3
<1> QED
  BY <1>4 DEF DelFromPfds

\* The list of players stays a list of UIDs.
LEMMA RemoveUserType ==
  ASSUME NEW S, NEW list \in Seq(S), NEW uid
  PROVE  RemoveUser(list, uid) \in Seq(S)
<1> DEFINE k == SelectInSeq(list, LAMBDA v : v = uid)
<1>1. CASE \E i \in 1 .. Len(list) : list[i] = uid
  <2>1. k \in 1 .. Len(list)
    <3> DEFINE found == {i \in 1 .. Len(list) : list[i] = uid}
    <3>1. found # {} /\ found \subseteq 1 .. Len(list) /\ found \in SUBSET Nat
      BY <1>1
    <3>2. k = Min(found)
      BY <1>1 DEF SelectInSeq
    <3> HIDE DEF found, k
    <3> QED
      BY <3>1, <3>2, MinIsElement
  <2> HIDE DEF k
  <2>2. RemoveAt(list, k) \in Seq(S)
    <3>1. SubSeq(list, 1, k - 1) \in Seq(S) /\ SubSeq(list, k + 1, Len(list)) \in Seq(S)
      BY <2>1
    <3> QED
      BY <3>1 DEF RemoveAt
  <2> QED
    BY <1>1, <2>2 DEF RemoveUser, RemoveFirst, k
<1>2. CASE ~\E i \in 1 .. Len(list) : list[i] = uid
  BY <1>2 DEF RemoveUser, RemoveFirst
<1> QED
  BY <1>1, <1>2

-----------------------------------------------------------------------------
(* Type correctness.  The type alone is not inductive: that a player's guess *)
(* leaves a well-typed game needs a consistent round (HangmanProofs), and    *)
(* that accept() finds a connection needs a backlog while the scan is at the *)
(* listener.                                                                 *)

TypeInv ==
  /\ GroupTypeOK
  /\ FsmOK(hangman_fsm)
  /\ pfd_i = 0 => backlog # <<>>

\* What reading a frame leaves behind.
LEMMA ReceiveFacts ==
  ASSUME GroupTypeOK, NEW i \in DOMAIN pfds, NEW c \in Conns, NEW type,
         Receive(i, c, type)
  PROVE  /\ inbox' \in [Conns -> Seq(Frame)]
         /\ Head(inbox[c]) \in Frame
         /\ Head(inbox[c]).type = type
         /\ pfd_i' \in i + 1 .. Len(pfds) + 1
         /\ pfd_i' \in 0 .. Len(pfds) + 1
         /\ pfd_i' # 0
         /\ i \in 1 .. Len(pfds)
<1>1. /\ inbox[c] \in Seq(Frame) /\ inbox[c] # <<>>
      /\ pfds \in Seq([fd : Conns, revents : BOOLEAN])
  BY DEF GroupTypeOK, Receive
<1>2. Tail(inbox[c]) \in Seq(Frame) /\ Head(inbox[c]) \in Frame
  BY <1>1
<1>3. inbox' \in [Conns -> Seq(Frame)]
  BY <1>2 DEF GroupTypeOK, Receive
<1>4. i \in Nat /\ i <= Len(pfds) /\ Len(pfds) \in Nat /\ i \in 1 .. Len(pfds)
  BY <1>1
<1>5. pfd_i' \in i + 1 .. Len(pfds) + 1
  BY <1>1, <1>4, NextReadyFacts DEF Receive
<1> QED
  BY <1>2, <1>3, <1>4, <1>5 DEF Receive

\* Frames a user types carry texts a user types.
LEMMA TypedText ==
  ASSUME NEW frame \in Frame, frame.type # "LMP_GRP_INIT_MEMBER"
  PROVE  /\ frame \in Commands
         /\ frame.text \in Texts
         /\ frame.type = "LMP_NICK" => frame.text \in Nicks
<1>1. InitFrame.type = "LMP_GRP_INIT_MEMBER"
  BY DEF InitFrame
<1>2. frame # InitFrame
  <2> SUFFICES ASSUME frame = InitFrame
               PROVE  FALSE
    OBVIOUS
  <2> QED
    BY <1>1
<1>3. frame \in Commands
  BY <1>2 DEF Frame
<1> QED
  BY <1>3, GroupAssumption DEF Texts

\* The steps of the clients keep the types.
LEMMA ClientType ==
  ASSUME TypeInv, Client
  PROVE  TypeInv'
<1> PICK c \in Conns : Connect(c) \/ Introduce(c) \/ Type(c) \/ Leave(c) \/ Die(c)
  BY DEF Client
<1>1. /\ UNCHANGED <<table, pfd_i, current_group, game, history, told, registered, sent, server>>
      /\ UNCHANGED <<pfds, fd_size, hangman_fsm, hangman_users_list>>
  BY DEF Connect, Introduce, Type, Leave, Die, table, game
<1>2. peer' \in [Conns -> {"idle", "connected", "joined", "eof", "reset"}]
  BY DEF TypeInv, GroupTypeOK, Connect, Introduce, Type, Leave, Die
<1>3. backlog' \in Seq(Conns) /\ (backlog # <<>> => backlog' # <<>>)
  <2>1. backlog \in Seq(Conns)
    BY DEF TypeInv, GroupTypeOK
  <2>2. backlog' = backlog \/ backlog' = Append(backlog, c)
    BY DEF Connect, Introduce, Type, Leave, Die
  <2> QED
    BY <2>1, <2>2
<1>4. inbox' \in [Conns -> Seq(Frame)]
  <2>1. inbox \in [Conns -> Seq(Frame)]
    BY DEF TypeInv, GroupTypeOK
  <2>2. \/ inbox' = inbox
        \/ \E frame \in Frame : inbox' = [inbox EXCEPT ![c] = Append(@, frame)]
        \/ inbox' = [inbox EXCEPT ![c] = <<>>]
    BY DEF Connect, Introduce, Type, Leave, Die, Frame
  <2>3. \A frame \in Frame : Append(inbox[c], frame) \in Seq(Frame)
    BY <2>1
  <2>4. <<>> \in Seq(Frame)
    OBVIOUS
  <2> QED
    BY <2>1, <2>2, <2>3, <2>4
<1> QED
  BY <1>1, <1>2, <1>3, <1>4 DEF TypeInv, GroupTypeOK, HangmanTypeOK

\* Reading a frame, a step that leaves the table, the backlog and the clients
\* alone keeps the types if it keeps those of what it changes.
LEMMA ReadStepType ==
  ASSUME TypeInv, NEW i \in DOMAIN pfds, NEW c \in Conns, NEW type, Receive(i, c, type),
         UNCHANGED <<peer, backlog, table>>,
         current_group' \in Group,
         FsmOK(hangman_fsm'),
         hangman_users_list' \in Seq(Uids),
         history' \subseteq Line,
         told' \in [Conns -> Group],
         registered' \subseteq Conns,
         server' \in {"up", "killed"}
  PROVE  TypeInv'
<1>1. GroupTypeOK
  BY DEF TypeInv
<1>2. /\ inbox' \in [Conns -> Seq(Frame)]
      /\ pfd_i' \in 0 .. Len(pfds) + 1
      /\ pfd_i' # 0
  BY <1>1, ReceiveFacts
<1>3. UNCHANGED <<peer, backlog, pfds, fd_size>>
  BY DEF table
<1>4. hangman_fsm' \in HANGMAN_FSM
  BY DEF FsmOK
<1> QED
  BY <1>1, <1>2, <1>3, <1>4 DEF TypeInv, GroupTypeOK, HangmanTypeOK

\* A relayed frame leaves everybody with a Group.
LEMMA RelayType ==
  ASSUME TypeInv, NEW i, NEW c, NEW frame, Relay(i, c, frame), server = "up"
  PROVE  /\ told' \in [Conns -> Group]
         /\ server' \in {"up", "killed"}
<1>1. told \in [Conns -> Group]
  BY DEF TypeInv, GroupTypeOK
<1> QED
  BY <1>1, ZeroGroupType DEF Relay, ToldByRelay, Transmit

\* The member a handler takes for its sender.
LEMMA SenderType ==
  ASSUME TypeInv, NEW i \in DOMAIN pfds, InMembers(i)
  PROVE  /\ i - 1 \in 0 .. MAX_GROUP_MEMBERS - 1
         /\ Sender(i) \in GroupMember
         /\ Sender(i).uid \in Uids
<1>0. MAX_GROUP_MEMBERS \in Nat \ {0}
  BY GroupAssumption
<1>1. i \in 1 .. Len(pfds) /\ Len(pfds) \in Nat /\ i <= MAX_GROUP_MEMBERS
  BY DEF TypeInv, GroupTypeOK, InMembers
<1>2. current_group.members \in [0 .. MAX_GROUP_MEMBERS - 1 -> GroupMember]
  BY DEF TypeInv, GroupTypeOK, Group
<1>3. i - 1 \in 0 .. MAX_GROUP_MEMBERS - 1
  BY <1>0, <1>1
<1>4. Sender(i) \in GroupMember
  BY <1>2, <1>3 DEF Sender
<1> QED
  BY <1>3, <1>4 DEF GroupMember

\* poll() and accept() keep the types.
LEMMA PollType ==
  ASSUME TypeInv, Poll
  PROVE  TypeInv'
<1> DEFINE polled == [i \in DOMAIN pfds |-> [pfds[i] EXCEPT !.revents = Readable(pfds[i].fd)]]
<1>1. /\ pfds \in Seq([fd : Conns, revents : BOOLEAN]) /\ Len(pfds) \in Nat
      /\ \A i \in DOMAIN pfds : pfds[i] \in [fd : Conns, revents : BOOLEAN]
  <2> HIDE DEF polled
  <2>1. pfds \in Seq([fd : Conns, revents : BOOLEAN])
    BY DEF TypeInv, GroupTypeOK
  <2> QED
    BY <2>1, SeqElements
<1>2. \A i \in DOMAIN pfds : polled[i] \in [fd : Conns, revents : BOOLEAN]
  <2> TAKE i \in DOMAIN pfds
  <2>1. pfds[i] \in [fd : Conns, revents : BOOLEAN]
    BY <1>1
  <2>2. Readable(pfds[i].fd) \in BOOLEAN
    BY DEF Readable
  <2> QED
    BY <2>1, <2>2
<1>3. polled \in Seq([fd : Conns, revents : BOOLEAN]) /\ Len(polled) = Len(pfds)
  BY <1>1, <1>2
<1>4. /\ pfds' = polled
      /\ pfd_i' = IF backlog # <<>> THEN 0 ELSE NextReady(polled, 0)
      /\ UNCHANGED <<peer, backlog, inbox, fd_size, current_group, hangman_fsm,
                     hangman_users_list, history, told, registered, server>>
  BY DEF Poll, environment, game
<1> HIDE DEF polled
<1>5. NextReady(polled, 0) \in 0 + 1 .. Len(polled) + 1
  <2>1. 0 \in Nat /\ 0 <= Len(polled)
    BY <1>1, <1>3
  <2> QED
    BY <2>1, <1>3, NextReadyFacts
<1>6. pfd_i' \in 0 .. Len(pfds') + 1 /\ (pfd_i' = 0 => backlog' # <<>>)
  BY <1>1, <1>3, <1>4, <1>5
<1> QED
  BY <1>3, <1>4, <1>6 DEF TypeInv, GroupTypeOK, HangmanTypeOK

LEMMA NewConnectionType ==
  ASSUME TypeInv, HandleNewConnection
  PROVE  TypeInv'
<1> DEFINE entries == AddToPfds(pfds, Head(backlog))
<1>1. /\ pfds \in Seq([fd : Conns, revents : BOOLEAN]) /\ Len(pfds) \in Nat
      /\ backlog \in Seq(Conns) /\ backlog # <<>>
      /\ fd_size \in Nat
  BY DEF TypeInv, GroupTypeOK, HandleNewConnection
<1>2. Head(backlog) \in Conns /\ Tail(backlog) \in Seq(Conns)
  BY <1>1
<1>3. entries \in Seq([fd : Conns, revents : BOOLEAN]) /\ Len(entries) \in Nat
  BY <1>1, <1>2 DEF AddToPfds
<1>4. /\ pfds' = entries
      /\ pfd_i' = NextReady(entries, 0)
      /\ backlog' = Tail(backlog)
      /\ fd_size' \in {fd_size, 2 * fd_size}
      /\ UNCHANGED <<peer, inbox, current_group, hangman_fsm, hangman_users_list,
                     history, told, registered, server>>
  BY DEF HandleNewConnection, game
<1> HIDE DEF entries
<1>5. NextReady(entries, 0) \in 0 + 1 .. Len(entries) + 1
  <2>1. 0 \in Nat /\ 0 <= Len(entries)
    BY <1>3
  <2> QED
    BY <2>1, <1>3, NextReadyFacts
<1>6. pfd_i' \in 0 .. Len(pfds') + 1 /\ pfd_i' # 0 /\ fd_size' \in Nat
  BY <1>1, <1>3, <1>4, <1>5
<1> QED
  BY <1>2, <1>3, <1>4, <1>6 DEF TypeInv, GroupTypeOK, HangmanTypeOK

\* What a departure leaves of the table and where the scan goes on.
LEMMA HangupFacts ==
  ASSUME TypeInv, NEW i \in DOMAIN pfds, NEW c \in Conns, HandleHangup(i, c)
  PROVE  /\ i \in 1 .. Len(pfds) /\ Len(pfds) \in Nat
         /\ Len(pfds) <= MAX_GROUP_MEMBERS
         /\ pfds' = DelFromPfds(pfds, i)
         /\ pfds' \in Seq([fd : Conns, revents : BOOLEAN])
         /\ Len(pfds') = Len(pfds) - 1
         /\ pfd_i' = NextReady(pfds', i - 1)
         /\ pfd_i' \in i .. Len(pfds') + 1
<1>1. pfds \in Seq([fd : Conns, revents : BOOLEAN])
  BY DEF TypeInv, GroupTypeOK
<1>2. i \in 1 .. Len(pfds) /\ Len(pfds) \in Nat /\ i - 1 \in Nat
  BY <1>1
<1>3. /\ pfds' = DelFromPfds(pfds, i)
      /\ pfd_i' = NextReady(pfds', i - 1)
      /\ Len(pfds) <= MAX_GROUP_MEMBERS
  BY DEF HandleHangup, InMembers
<1>4. pfds' \in Seq([fd : Conns, revents : BOOLEAN]) /\ Len(pfds') = Len(pfds) - 1
  BY <1>1, <1>2, <1>3, DelFromPfdsFacts
<1>5. i - 1 <= Len(pfds')
  BY <1>2, <1>4
<1>6. pfd_i' \in (i - 1) + 1 .. Len(pfds') + 1
  BY <1>2, <1>3, <1>4, <1>5, NextReadyFacts
<1> QED
  BY <1>2, <1>3, <1>4, <1>6

LEMMA HangupType ==
  ASSUME TypeInv, NEW i \in DOMAIN pfds, NEW c \in Conns, HandleHangup(i, c)
  PROVE  TypeInv'
<1> DEFINE group == DropMember(current_group, i)
<1>1. /\ i \in 1 .. Len(pfds) /\ Len(pfds) \in Nat
      /\ Len(pfds) <= MAX_GROUP_MEMBERS
      /\ pfds' \in Seq([fd : Conns, revents : BOOLEAN])
      /\ Len(pfds') = Len(pfds) - 1
      /\ pfd_i' \in i .. Len(pfds') + 1
  BY HangupFacts
<1>2. current_group \in Group
  BY DEF TypeInv, GroupTypeOK
<1>3. group \in Group
  BY <1>1, <1>2, DropMemberType
<1>4. /\ current_group' = group
      /\ SendNewGroupToUsers(DelFromPfds(pfds, i), group)
      /\ server' \in {"up", "killed"}
      /\ registered' = registered \ {c}
      /\ UNCHANGED <<peer, backlog, inbox, fd_size, hangman_fsm, hangman_users_list, history>>
  BY DEF HandleHangup, Transmit, environment, game
<1> HIDE DEF group
<1>5. told' \in [Conns -> Group]
  BY <1>3, <1>4, SendNewGroupType
<1>6. pfd_i' \in 0 .. Len(pfds') + 1 /\ pfd_i' # 0
  BY <1>1
<1> QED
  BY <1>1, <1>3, <1>4, <1>5, <1>6 DEF TypeInv, GroupTypeOK, HangmanTypeOK

\* A departing or joining member, or a new nickname.
LEMMA MembershipFrameType ==
  ASSUME TypeInv, NEW i \in DOMAIN pfds, NEW c \in Conns,
         HandleNick(i, c) \/ HandleInitMember(i, c)
  PROVE  TypeInv'
<1> DEFINE nickGroup == [current_group EXCEPT !.members[i - 1].nickname = Head(inbox[c]).text]
           initGroup == StoreMember(current_group, MemberOf[c])
<1>1. GroupTypeOK /\ current_group \in Group
  BY DEF TypeInv, GroupTypeOK
<1>2. ASSUME HandleNick(i, c)
      PROVE  TypeInv'
  <2>1. Receive(i, c, "LMP_NICK") /\ InMembers(i)
    BY <1>2 DEF HandleNick
  <2>2. Head(inbox[c]) \in Frame /\ Head(inbox[c]).type = "LMP_NICK"
    BY <1>1, <2>1, ReceiveFacts
  <2>3. Head(inbox[c]).text \in Nicks
    BY <2>2, TypedText
  <2>4. i - 1 \in 0 .. MAX_GROUP_MEMBERS - 1
    BY <2>1, SenderType
  <2>5. nickGroup \in Group
    BY <1>1, <2>3, <2>4, NewNickType
  <2>6. /\ current_group' = nickGroup
        /\ SendNewGroupToUsers(pfds, nickGroup)
        /\ server' \in {"up", "killed"}
        /\ UNCHANGED <<peer, backlog, table, hangman_fsm, hangman_users_list, history, registered>>
    BY <1>2 DEF HandleNick, Transmit, game
  <2> HIDE DEF nickGroup
  <2>7. told' \in [Conns -> Group]
    BY <2>5, <2>6, SendNewGroupType
  <2> QED
    BY <2>1, <2>5, <2>6, <2>7, ReadStepType DEF TypeInv, GroupTypeOK
<1>3. ASSUME HandleInitMember(i, c)
      PROVE  TypeInv'
  <2>1. /\ Receive(i, c, "LMP_GRP_INIT_MEMBER")
        /\ current_group.member_count \in -1 .. MAX_GROUP_MEMBERS - 1
    BY <1>3 DEF HandleInitMember
  <2>2. MemberOf[c] \in GroupMember
    BY GroupAssumption DEF GroupMember
  <2>3. initGroup \in Group
    BY <1>1, <2>1, <2>2, StoreMemberType
  <2>4. /\ current_group' = initGroup
        /\ SendNewGroupToUsers(pfds, initGroup)
        /\ server' \in {"up", "killed"}
        /\ registered' = registered \cup {c}
        /\ UNCHANGED <<peer, backlog, table, hangman_fsm, hangman_users_list, history>>
    BY <1>3 DEF HandleInitMember, Transmit, game
  <2> HIDE DEF initGroup
  <2>5. told' \in [Conns -> Group]
    BY <2>3, <2>4, SendNewGroupType
  <2> QED
    BY <2>1, <2>3, <2>4, <2>5, ReadStepType DEF TypeInv, GroupTypeOK
<1> QED
  BY <1>2, <1>3

\* The frames of a player or of someone who may become one.
LEMMA HangmanFrameType ==
  ASSUME TypeInv, NEW i \in DOMAIN pfds, NEW c \in Conns,
         \/ HandleHangmanStart(i, c)
         \/ HandleHangmanStartAgain(i, c)
         \/ HandleHangmanExit(i, c)
         \/ HandleHangmanJoin(i, c)
         \/ HandleHangmanJoinNoGame(i, c)
  PROVE  TypeInv'
<1>1. /\ Receive(i, c, "LMP_GRP_HANGMAN") /\ InMembers(i)
      /\ UNCHANGED <<peer, backlog, table, current_group, history, told, registered>>
  BY DEF HandleHangmanStart, HandleHangmanStartAgain, HandleHangmanExit,
         HandleHangmanJoin, HandleHangmanJoinNoGame, HangmanFrame
<1>2. /\ FsmOK(hangman_fsm)
      /\ hangman_users_list \in Seq(Uids)
      /\ current_group \in Group /\ history \subseteq Line
      /\ told \in [Conns -> Group] /\ registered \subseteq Conns
  BY DEF TypeInv, GroupTypeOK
<1>3. server' \in {"up", "killed"}
  BY <1>1 DEF HandleHangmanStart, HandleHangmanStartAgain, HandleHangmanExit,
              HandleHangmanJoin, HandleHangmanJoinNoGame, Transmit, Receive, Serving
<1>4. FsmOK(hangman_fsm')
  <2>1. hangman_fsm' = hangman_fsm \/ hangman_fsm' \in ProcessHangmanState(hangman_fsm, NUL)
    BY DEF HandleHangmanStart, HandleHangmanStartAgain, HandleHangmanExit,
           HandleHangmanJoin, HandleHangmanJoinNoGame, game
  <2> QED
    BY <1>2, <2>1, ProcessOK
<1>5. hangman_users_list' \in Seq(Uids)
  <2>1. \/ hangman_users_list' = hangman_users_list
        \/ hangman_users_list' = AddUser(hangman_users_list, Sender(i).uid)
        \/ hangman_users_list' = RemoveUser(hangman_users_list, Sender(i).uid)
    BY DEF HandleHangmanStart, HandleHangmanStartAgain, HandleHangmanExit,
           HandleHangmanJoin, HandleHangmanJoinNoGame, game
  <2>2. Sender(i).uid \in Uids
    BY <1>1, SenderType
  <2>3. AddUser(hangman_users_list, Sender(i).uid) \in Seq(Uids)
    BY <1>2, <2>2 DEF AddUser
  <2> QED
    BY <1>2, <2>1, <2>3, RemoveUserType
<1> QED
  BY <1>1, <1>2, <1>3, <1>4, <1>5, ReadStepType

\* Guesses, messages, history requests and frames that are only relayed.
LEMMA MessageFrameType ==
  ASSUME TypeInv, NEW i \in DOMAIN pfds, NEW c \in Conns,
         \/ HandleLoadMsg(i, c)
         \/ HandleGuessRefused(i, c)
         \/ HandleGuess(i, c)
         \/ HandleMsg(i, c)
         \/ HandleDefault(i, c)
  PROVE  TypeInv'
<1>0. PICK type \in {"LMP_GRP_LOAD_MSG", "LMP_MSG", "LMP_GRP_OBJ", "LMP_STICKERS"} :
        Receive(i, c, type)
  BY DEF HandleLoadMsg, HandleGuessRefused, HandleGuess, HandleMsg, HandleDefault
<1>1. UNCHANGED <<peer, backlog, table, current_group, registered>>
  BY DEF HandleLoadMsg, HandleGuessRefused, HandleGuess, HandleMsg, HandleDefault
<1>2. /\ GroupTypeOK
      /\ FsmOK(hangman_fsm)
      /\ hangman_users_list \in Seq(Uids)
      /\ current_group \in Group /\ history \subseteq Line
      /\ told \in [Conns -> Group] /\ registered \subseteq Conns
  BY DEF TypeInv, GroupTypeOK
<1>3. server' \in {"up", "killed"} /\ told' \in [Conns -> Group]
  <2>1. server = "up"
    BY <1>0 DEF Receive, Serving
  <2>2. \/ Relay(i, c, Head(inbox[c]))
        \/ told' = told /\ server' \in {"up", "killed"}
    BY DEF HandleLoadMsg, HandleGuessRefused, HandleGuess, HandleMsg, HandleDefault, Transmit
  <2> QED
    BY <1>2, <2>1, <2>2, RelayType
<1>4. FsmOK(hangman_fsm')
  <2>1. \/ hangman_fsm' = hangman_fsm
        \/ \E input : hangman_fsm' \in AfterGuess(hangman_fsm, input)
    BY DEF HandleLoadMsg, HandleGuessRefused, HandleGuess, HandleMsg, HandleDefault, game
  <2>2. ASSUME NEW input, hangman_fsm' \in AfterGuess(hangman_fsm, input)
        PROVE  FsmOK(hangman_fsm')
    BY <1>2, <2>2, ProcessOK, FinishOK DEF AfterGuess
  <2> QED
    BY <1>2, <2>1, <2>2
<1>5. hangman_users_list' \in Seq(Uids)
  <2>1. hangman_users_list' \in {hangman_users_list, <<>>}
    BY DEF HandleLoadMsg, HandleGuessRefused, HandleGuess, HandleMsg, HandleDefault, game,
           RemainingPlayers
  <2>2. <<>> \in Seq(Uids)
    OBVIOUS
  <2> QED
    BY <1>2, <2>1, <2>2
<1>6. history' \subseteq Line
  <2>1. CASE HandleMsg(i, c)
    <3>1. Receive(i, c, "LMP_MSG") /\ InMembers(i)
      BY <2>1 DEF HandleMsg
    <3>2. Head(inbox[c]) \in Frame /\ Head(inbox[c]).type = "LMP_MSG"
      BY <1>2, <3>1, ReceiveFacts
    <3>3. Head(inbox[c]).text \in Texts /\ Sender(i).uid \in Uids
      BY <3>1, <3>2, TypedText, SenderType
    <3>4. history' = history
            \/ history' = history \cup {[uid |-> Sender(i).uid, text |-> Head(inbox[c]).text]}
      BY <2>1 DEF HandleMsg, SaveMessageToHistory
    <3> QED
      BY <1>2, <3>3, <3>4 DEF Line
  <2>2. CASE history' = history
    BY <1>2, <2>2
  <2> QED
    BY <2>1, <2>2 DEF HandleLoadMsg, HandleGuessRefused, HandleGuess, HandleDefault
<1> QED
  BY <1>0, <1>1, <1>2, <1>3, <1>4, <1>5, <1>6, ReadStepType

\* A handler that left the bounds of members changes nothing we look at.
LEMMA OutOfBoundsType ==
  ASSUME TypeInv, NEW i, NEW c, HandleOutOfBounds(i, c)
  PROVE  TypeInv'
  BY DEF HandleOutOfBounds, TypeInv, GroupTypeOK, HangmanTypeOK, environment, table, game

\* The inductive step.
LEMMA TypeInvStep ==
  ASSUME TypeInv, [Next]_vars
  PROVE  TypeInv'
<1>1. CASE Client
  BY <1>1, ClientType
<1>2. CASE Poll
  BY <1>2, PollType
<1>3. CASE HandleNewConnection
  BY <1>3, NewConnectionType
<1>4. ASSUME NEW i \in DOMAIN pfds, NEW c \in Conns, HandleClientData(i, c)
      PROVE  TypeInv'
  BY <1>4, HangupType, MembershipFrameType, HangmanFrameType, MessageFrameType, OutOfBoundsType
     DEF HandleClientData
<1>5. CASE UNCHANGED vars
  BY <1>5 DEF vars, environment, table, game, TypeInv, GroupTypeOK, HangmanTypeOK
<1> QED
  BY <1>1, <1>2, <1>3, <1>4, <1>5 DEF Next, Server

LEMMA TypeInvInit ==
  ASSUME Init
  PROVE  TypeInv
<1>1. /\ pfds = <<>> /\ backlog = <<>> /\ hangman_users_list = <<>>
      /\ peer = [c \in Conns |-> "idle"] /\ inbox = [c \in Conns |-> <<>>]
      /\ fd_size = MAX_GROUP_CONNECTIONS /\ pfd_i = 1
      /\ current_group = [ZeroGroup EXCEPT !.info = ThisGroup]
      /\ hangman_fsm = ZeroedFsm
      /\ history = {} /\ told = [c \in Conns |-> ZeroGroup] /\ registered = {}
      /\ server = "up"
  BY DEF Init, HangmanInit
<1>2. MAX_GROUP_CONNECTIONS \in Nat
  BY GroupAssumption
<1>3. FsmOK(hangman_fsm) /\ HangmanTypeOK
  BY <1>1, ZeroedFsmOK DEF FsmOK, HangmanTypeOK
<1>4. current_group \in Group /\ told \in [Conns -> Group]
  BY <1>1, ZeroGroupType
<1>5. /\ pfds \in Seq([fd : Conns, revents : BOOLEAN])
      /\ backlog \in Seq(Conns)
      /\ hangman_users_list \in Seq(Uids)
      /\ inbox \in [Conns -> Seq(Frame)]
      /\ pfd_i \in 0 .. Len(pfds) + 1
  BY <1>1
<1> QED
  BY <1>1, <1>2, <1>3, <1>4, <1>5 DEF TypeInv, GroupTypeOK

\* The server's memory keeps its types, its game a consistent round, and
\* accept() is only called when a connection waits.
THEOREM GroupTypeInvariant == Spec => []TypeInv
  BY TypeInvInit, TypeInvStep, PTL DEF Spec

\* In particular nothing is written outside the array of members while the
\* server runs on.
THEOREM GroupTypeCorrect == Spec => []GroupTypeOK
<1>1. TypeInv => GroupTypeOK
  BY DEF TypeInv
<1> QED
  BY <1>1, GroupTypeInvariant, PTL

-----------------------------------------------------------------------------
(* The connection table.  Both invariants are inductive given the types.   *)

\* Every handler either takes a frame of c off its inbox and leaves the table
\* alone, ends the connection, or breaks off.
LEMMA HandlerKinds ==
  ASSUME NEW i \in DOMAIN pfds, NEW c \in Conns, HandleClientData(i, c)
  PROVE  \/ HandleHangup(i, c)
         \/ /\ UNCHANGED <<peer, backlog, pfds, fd_size>>
            /\ c = pfds[i].fd /\ pfd_i = i
            /\ inbox[c] # <<>>
            /\ inbox' = [inbox EXCEPT ![c] = Tail(@)]
            /\ pfd_i' = NextReady(pfds, i)
            /\ \/ registered' = registered
               \/ registered' = registered \cup {c}
         \/ UNCHANGED <<peer, backlog, inbox, pfds, fd_size, pfd_i, registered>>
<1>1. CASE \/ HandleNick(i, c) \/ HandleInitMember(i, c) \/ HandleLoadMsg(i, c)
           \/ HandleGuessRefused(i, c) \/ HandleGuess(i, c)
  BY <1>1 DEF HandleNick, HandleInitMember, HandleLoadMsg, HandleGuessRefused, HandleGuess,
              Receive, Serving, table
<1>2. CASE HandleMsg(i, c) \/ HandleDefault(i, c)
  BY <1>2 DEF HandleMsg, HandleDefault, Receive, Serving, table
<1>3. CASE \/ HandleHangmanStart(i, c) \/ HandleHangmanStartAgain(i, c)
           \/ HandleHangmanExit(i, c) \/ HandleHangmanJoin(i, c)
           \/ HandleHangmanJoinNoGame(i, c)
  BY <1>3 DEF HandleHangmanStart, HandleHangmanStartAgain, HandleHangmanExit, HandleHangmanJoin,
              HandleHangmanJoinNoGame, HangmanFrame, Receive, Serving, table
<1>4. CASE HandleOutOfBounds(i, c)
  BY <1>4 DEF HandleOutOfBounds, environment, table
<1> QED
  BY <1>1, <1>2, <1>3, <1>4 DEF HandleClientData

\* The descriptors of the table once entry i is gone.
LEMMA FdsAfterDel ==
  ASSUME TypeInv, TableExact, NEW i \in DOMAIN pfds, NEW c, c = pfds[i].fd,
         pfds' = DelFromPfds(pfds, i)
  PROVE  /\ Fds(pfds') = Fds(pfds) \ {c}
         /\ \A j, k \in DOMAIN pfds' : pfds'[j].fd = pfds'[k].fd => j = k
<1> DEFINE n == Len(pfds)
<1>1. pfds \in Seq([fd : Conns, revents : BOOLEAN])
  BY DEF TypeInv, GroupTypeOK
<1>2. n \in Nat /\ DOMAIN pfds = 1 .. n /\ i \in 1 .. n
  BY <1>1
<1>3. \A j, k \in 1 .. n : pfds[j].fd = pfds[k].fd => j = k
  BY <1>2 DEF TableExact
<1>4. /\ DOMAIN pfds' = 1 .. n - 1
      /\ \A k \in 1 .. n - 1 : pfds'[k] = IF k = i THEN pfds[n] ELSE pfds[k]
  <2>1. pfds' \in Seq([fd : Conns, revents : BOOLEAN]) /\ Len(pfds') = n - 1
    BY <1>1, <1>2, DelFromPfdsFacts
  <2> QED
    BY <1>1, <1>2, <2>1, DelFromPfdsFacts
<1> HIDE DEF n
<1>5. ASSUME NEW j \in 1 .. n - 1
      PROVE  pfds'[j].fd \in Fds(pfds) \ {c}
  <2>1. j \in 1 .. n /\ n \in 1 .. n /\ j # n
    BY <1>2
  <2>2. CASE j = i
    BY <1>2, <1>3, <1>4, <2>1, <2>2 DEF Fds
  <2>3. CASE j # i
    BY <1>2, <1>3, <1>4, <2>1, <2>3 DEF Fds
  <2> QED
    BY <2>2, <2>3
<1>6. ASSUME NEW d \in Fds(pfds), d # c
      PROVE  d \in Fds(pfds')
  <2>1. PICK j \in 1 .. n : d = pfds[j].fd
    BY <1>2 DEF Fds
  <2>2. j # i
    BY <1>6, <2>1
  <2>3. CASE j = n
    <3>1. i \in 1 .. n - 1
      BY <1>2, <2>2, <2>3
    <3>2. pfds'[i] = pfds[n]
      BY <1>4, <3>1
    <3> QED
      BY <1>4, <2>1, <2>3, <3>1, <3>2 DEF Fds
  <2>4. CASE j # n
    <3>1. j \in 1 .. n - 1
      BY <1>2, <2>1, <2>4
    <3>2. pfds'[j] = pfds[j]
      BY <1>4, <2>2, <3>1
    <3> QED
      BY <1>4, <2>1, <3>1, <3>2 DEF Fds
  <2> QED
    BY <2>3, <2>4
<1>7. Fds(pfds') = Fds(pfds) \ {c}
  BY <1>4, <1>5, <1>6 DEF Fds
<1>8. \A j, k \in 1 .. n - 1 : pfds'[j].fd = pfds'[k].fd => j = k
  <2> TAKE j, k \in 1 .. n - 1
  <2>1. j \in 1 .. n /\ k \in 1 .. n /\ n \in 1 .. n /\ j # n /\ k # n
    BY <1>2
  <2>2. CASE j = i \/ k = i
    BY <1>3, <1>4, <2>1, <2>2
  <2>3. CASE j # i /\ k # i
    BY <1>3, <1>4, <2>1, <2>3
  <2> QED
    BY <2>2, <2>3
<1> QED
  BY <1>4, <1>7, <1>8

\* The descriptors of the table once c was accepted.
LEMMA FdsAfterAdd ==
  ASSUME TypeInv, NEW c \in Conns, pfds' = AddToPfds(pfds, c)
  PROVE  /\ Fds(pfds') = Fds(pfds) \cup {c}
         /\ Len(pfds') = Len(pfds) + 1
         /\ DOMAIN pfds' = 1 .. Len(pfds) + 1
         /\ \A k \in 1 .. Len(pfds) : pfds'[k] = pfds[k]
         /\ pfds'[Len(pfds) + 1] = [fd |-> c, revents |-> FALSE]
<1>1. pfds \in Seq([fd : Conns, revents : BOOLEAN])
  BY DEF TypeInv, GroupTypeOK
<1>2. Len(pfds) \in Nat /\ DOMAIN pfds = 1 .. Len(pfds)
  BY <1>1
<1>3. /\ Len(pfds') = Len(pfds) + 1
      /\ DOMAIN pfds' = 1 .. Len(pfds) + 1
      /\ \A k \in 1 .. Len(pfds) : pfds'[k] = pfds[k]
      /\ pfds'[Len(pfds) + 1] = [fd |-> c, revents |-> FALSE]
  BY <1>1, <1>2 DEF AddToPfds
<1>4. Fds(pfds') = Fds(pfds) \cup {c}
  <2>1. \A k \in 1 .. Len(pfds) + 1 : k \in 1 .. Len(pfds) \/ k = Len(pfds) + 1
    BY <1>2
  <2>2. \A k \in 1 .. Len(pfds) : k \in 1 .. Len(pfds) + 1
    BY <1>2
  <2>3. Len(pfds) + 1 \in 1 .. Len(pfds) + 1
    BY <1>2
  <2> QED
    BY <1>2, <1>3, <2>1, <2>2, <2>3 DEF Fds
<1> QED
  BY <1>3, <1>4

\* The connections that wait once c was appended or the first was taken off.
LEMMA BacklogFacts ==
  ASSUME NEW S, NEW queue \in Seq(S),
         \A i, j \in DOMAIN queue : queue[i] = queue[j] => i = j
  PROVE  /\ \A c \in S : c \notin ToSet(queue) =>
              /\ ToSet(Append(queue, c)) = ToSet(queue) \cup {c}
              /\ \A i, j \in DOMAIN Append(queue, c) :
                   Append(queue, c)[i] = Append(queue, c)[j] => i = j
         /\ queue # <<>> =>
              /\ Head(queue) \in S
              /\ ToSet(Tail(queue)) = ToSet(queue) \ {Head(queue)}
              /\ Head(queue) \in ToSet(queue)
              /\ \A i, j \in DOMAIN Tail(queue) : Tail(queue)[i] = Tail(queue)[j] => i = j
<1> DEFINE n == Len(queue)
<1>1. n \in Nat /\ DOMAIN queue = 1 .. n
  OBVIOUS
<1>2. ASSUME NEW c \in S, c \notin ToSet(queue)
      PROVE  /\ ToSet(Append(queue, c)) = ToSet(queue) \cup {c}
             /\ \A i, j \in DOMAIN Append(queue, c) :
                  Append(queue, c)[i] = Append(queue, c)[j] => i = j
  <2> DEFINE longer == Append(queue, c)
  <2>1. /\ DOMAIN longer = 1 .. n + 1
        /\ \A i \in 1 .. n : longer[i] = queue[i] /\ longer[i] # c
        /\ longer[n + 1] = c
    BY <1>1, <1>2 DEF ToSet
  <2>2. \A i \in 1 .. n + 1 : i \in 1 .. n \/ i = n + 1
    BY <1>1
  <2>3. \A i \in 1 .. n : i \in 1 .. n + 1
    BY <1>1
  <2>4. n + 1 \in 1 .. n + 1
    BY <1>1
  <2> HIDE DEF longer, n
  <2>5. ToSet(longer) = ToSet(queue) \cup {c}
    BY <1>1, <2>1, <2>2, <2>3, <2>4 DEF ToSet
  <2>6. \A i, j \in DOMAIN longer : longer[i] = longer[j] => i = j
    BY <1>1, <2>1, <2>2
  <2> QED
    BY <2>5, <2>6 DEF longer
<1>3. ASSUME queue # <<>>
      PROVE  /\ Head(queue) \in S
             /\ ToSet(Tail(queue)) = ToSet(queue) \ {Head(queue)}
             /\ Head(queue) \in ToSet(queue)
             /\ \A i, j \in DOMAIN Tail(queue) : Tail(queue)[i] = Tail(queue)[j] => i = j
  <2> DEFINE rest == Tail(queue)
  <2>1. /\ n >= 1 /\ Head(queue) = queue[1]
        /\ DOMAIN rest = 1 .. n - 1
        /\ \A i \in 1 .. n - 1 : rest[i] = queue[i + 1]
    BY <1>1, <1>3
  <2>2. \A i \in 1 .. n - 1 : i + 1 \in 1 .. n /\ i + 1 # 1
    BY <1>1
  <2>3. \A i \in 1 .. n : i = 1 \/ (i - 1 \in 1 .. n - 1 /\ (i - 1) + 1 = i)
    BY <1>1
  <2>4. 1 \in 1 .. n
    BY <1>1, <2>1
  <2> HIDE DEF rest, n
  <2>5. ToSet(rest) = ToSet(queue) \ {Head(queue)}
    <3>1. ASSUME NEW i \in 1 .. n - 1
          PROVE  rest[i] \in ToSet(queue) \ {Head(queue)}
      BY <1>1, <2>1, <2>2, <2>4, SMTT(30) DEF ToSet
    <3>2. ASSUME NEW i \in 1 .. n, queue[i] # Head(queue)
          PROVE  queue[i] \in ToSet(rest)
      <4>1. i - 1 \in 1 .. n - 1 /\ (i - 1) + 1 = i
        BY <2>1, <2>3, <3>2
      <4>2. rest[i - 1] = queue[i]
        BY <2>1, <4>1
      <4> QED
        BY <2>1, <4>1, <4>2 DEF ToSet
    <3>3. ToSet(rest) \subseteq ToSet(queue) \ {Head(queue)}
      <4> SUFFICES ASSUME NEW i \in DOMAIN rest
                   PROVE  rest[i] \in ToSet(queue) \ {Head(queue)}
        BY DEF ToSet
      <4> QED
        BY <2>1, <3>1
    <3>4. ToSet(queue) \ {Head(queue)} \subseteq ToSet(rest)
      <4> SUFFICES ASSUME NEW i \in DOMAIN queue, queue[i] # Head(queue)
                   PROVE  queue[i] \in ToSet(rest)
        BY DEF ToSet
      <4> QED
        BY <1>1, <3>2
    <3> QED
      BY <3>3, <3>4
  <2>6. \A i, j \in DOMAIN rest : rest[i] = rest[j] => i = j
    <3> SUFFICES ASSUME NEW i \in 1 .. n - 1, NEW j \in 1 .. n - 1, rest[i] = rest[j]
                 PROVE  i = j
      BY <2>1
    <3>1. i + 1 = j + 1
      BY <1>1, <2>1, <2>2, SMTT(30)
    <3> QED
      BY <3>1
  <2>7. Head(queue) \in S /\ Head(queue) \in ToSet(queue)
    BY <1>1, <2>1, <2>4 DEF ToSet
  <2> QED
    BY <2>5, <2>6, <2>7 DEF rest
<1> QED
  BY <1>2, <1>3

\* The clients' steps keep the table exact.
LEMMA TableExactClient ==
  ASSUME TypeInv, TableExact, Client
  PROVE  TableExact'
<1> PICK c \in Conns : Connect(c) \/ Introduce(c) \/ Type(c) \/ Leave(c) \/ Die(c)
  BY DEF Client
<1>1. UNCHANGED <<pfds, fd_size, registered>>
  BY DEF Connect, Introduce, Type, Leave, Die, table
<1>2. /\ peer \in [Conns -> {"idle", "connected", "joined", "eof", "reset"}]
      /\ backlog \in Seq(Conns)
  BY DEF TypeInv, GroupTypeOK
<1>3. CASE Connect(c)
  <2>1. c \notin ToSet(backlog) \cup Fds(pfds)
    BY <1>3 DEF Connect, TableExact
  <2>2. backlog' = Append(backlog, c) /\ peer' = [peer EXCEPT ![c] = "connected"]
    BY <1>3 DEF Connect
  <2>3. \A i, j \in DOMAIN backlog : backlog[i] = backlog[j] => i = j
    BY DEF TableExact
  <2>4. /\ ToSet(backlog') = ToSet(backlog) \cup {c}
        /\ \A i, j \in DOMAIN backlog' : backlog'[i] = backlog'[j] => i = j
    BY <1>2, <2>1, <2>2, <2>3, BacklogFacts
  <2>5. Fds(pfds') = Fds(pfds) /\ ToSet(backlog)' = ToSet(backlog')
    BY <1>1 DEF Fds, ToSet
  <2>6. /\ \A d \in Conns : peer'[d] = "idle" => d \notin ToSet(backlog') \cup Fds(pfds')
        /\ \A d \in Conns :
             peer'[d] \in {"connected", "joined"} => d \in ToSet(backlog') \cup Fds(pfds')
        /\ ToSet(backlog') \cap Fds(pfds') = {}
    BY <1>2, <2>1, <2>2, <2>4, <2>5 DEF TableExact
  <2> QED
    BY <1>1, <2>4, <2>5, <2>6 DEF TableExact
<1>4. CASE Introduce(c) \/ Type(c) \/ Leave(c) \/ Die(c)
  <2>1. /\ backlog' = backlog
        /\ \/ peer' = peer
           \/ /\ peer[c] \in {"connected", "joined", "eof"}
              /\ peer' = [peer EXCEPT ![c] = "joined"] /\ peer[c] = "connected"
           \/ peer[c] # "idle" /\ \E p \in {"eof", "reset"} : peer' = [peer EXCEPT ![c] = p]
    BY <1>4 DEF Introduce, Type, Leave, Die
  <2>2. \A d \in Conns :
          /\ peer'[d] = "idle" => peer[d] = "idle"
          /\ peer'[d] \in {"connected", "joined"} => peer[d] \in {"connected", "joined"}
    BY <1>2, <2>1
  <2> QED
    BY <1>1, <2>1, <2>2 DEF TableExact
<1> QED
  BY <1>3, <1>4

\* The server's steps keep the table exact.
LEMMA TableExactServer ==
  ASSUME TypeInv, TableExact, Server
  PROVE  TableExact'
<1>1. /\ pfds \in Seq([fd : Conns, revents : BOOLEAN]) /\ Len(pfds) \in Nat
      /\ DOMAIN pfds = 1 .. Len(pfds)
      /\ backlog \in Seq(Conns) /\ fd_size \in Nat
      /\ peer \in [Conns -> {"idle", "connected", "joined", "eof", "reset"}]
  BY DEF TypeInv, GroupTypeOK
<1>2. CASE Poll
  <2>1. /\ UNCHANGED <<peer, backlog, fd_size, registered>>
        /\ pfds' = [i \in DOMAIN pfds |-> [pfds[i] EXCEPT !.revents = Readable(pfds[i].fd)]]
    BY <1>2 DEF Poll, environment
  <2>2. \A i \in DOMAIN pfds : pfds[i] \in [fd : Conns, revents : BOOLEAN]
    BY <1>1, SeqElements
  <2>3. /\ DOMAIN pfds' = DOMAIN pfds
        /\ \A i \in DOMAIN pfds : pfds'[i].fd = pfds[i].fd
    BY <2>1, <2>2
  <2>4. Fds(pfds') = Fds(pfds)
    BY <2>3 DEF Fds
  <2>5. Len(pfds') = Len(pfds)
    BY <1>1, <2>1
  <2> QED
    BY <2>1, <2>3, <2>4, <2>5 DEF TableExact
<1>3. CASE HandleNewConnection
  <2>1. /\ pfds' = AddToPfds(pfds, Head(backlog))
        /\ backlog' = Tail(backlog) /\ backlog # <<>>
        /\ fd_size' = IF Len(pfds) + 1 = fd_size THEN 2 * fd_size ELSE fd_size
        /\ UNCHANGED <<peer, registered>>
    BY <1>3 DEF HandleNewConnection, TypeInv
  <2>2. \A i, j \in DOMAIN backlog : backlog[i] = backlog[j] => i = j
    BY DEF TableExact
  <2>3. /\ Head(backlog) \in Conns
        /\ ToSet(backlog') = ToSet(backlog) \ {Head(backlog)}
        /\ Head(backlog) \in ToSet(backlog)
        /\ \A i, j \in DOMAIN backlog' : backlog'[i] = backlog'[j] => i = j
    BY <1>1, <2>1, <2>2, BacklogFacts
  <2>4. /\ Fds(pfds') = Fds(pfds) \cup {Head(backlog)}
        /\ Len(pfds') = Len(pfds) + 1
        /\ DOMAIN pfds' = 1 .. Len(pfds) + 1
        /\ \A k \in 1 .. Len(pfds) : pfds'[k] = pfds[k]
        /\ pfds'[Len(pfds) + 1] = [fd |-> Head(backlog), revents |-> FALSE]
    BY <2>1, <2>3, FdsAfterAdd
  <2>5. \A j, k \in DOMAIN pfds' : pfds'[j].fd = pfds'[k].fd => j = k
    <3>1. \A k \in 1 .. Len(pfds) : pfds[k].fd # Head(backlog)
      BY <1>1, <2>3 DEF TableExact, Fds
    <3>2. \A j \in 1 .. Len(pfds) + 1 : j \in 1 .. Len(pfds) \/ j = Len(pfds) + 1
      BY <1>1
    <3>3. \A j, k \in 1 .. Len(pfds) : pfds[j].fd = pfds[k].fd => j = k
      BY <1>1 DEF TableExact
    <3> QED
      BY <2>4, <3>1, <3>2, <3>3
  <2>6. Len(pfds') + 1 <= fd_size'
    <3>1. Len(pfds) + 1 <= fd_size
      BY DEF TableExact
    <3> QED
      BY <1>1, <2>1, <2>4, <3>1
  <2>7. ToSet(backlog)' = ToSet(backlog')
    BY DEF ToSet
  <2> QED
    BY <2>1, <2>3, <2>4, <2>5, <2>6, <2>7 DEF TableExact
<1>4. ASSUME NEW i \in DOMAIN pfds, NEW c \in Conns, HandleClientData(i, c)
      PROVE  TableExact'
  <2>1. CASE HandleHangup(i, c)
    <3>1. /\ UNCHANGED <<peer, backlog, fd_size>>
          /\ registered' = registered \ {c}
          /\ c = pfds[i].fd /\ peer[c] \in {"eof", "reset"}
      BY <2>1 DEF HandleHangup, Serving, environment
    <3>2. pfds' = DelFromPfds(pfds, i) /\ Len(pfds') = Len(pfds) - 1
      BY <2>1, HangupFacts
    <3>3. /\ Fds(pfds') = Fds(pfds) \ {c}
          /\ \A j, k \in DOMAIN pfds' : pfds'[j].fd = pfds'[k].fd => j = k
      BY <3>1, <3>2, FdsAfterDel
    <3>4. Len(pfds') + 1 <= fd_size'
      <4>1. Len(pfds) + 1 <= fd_size
        BY DEF TableExact
      <4> QED
        BY <1>1, <3>1, <3>2, <4>1
    <3> QED
      BY <3>1, <3>3, <3>4 DEF TableExact
  <2>2. CASE ~HandleHangup(i, c)
    <3>1. /\ UNCHANGED <<peer, backlog, pfds, fd_size>>
          /\ \/ registered' = registered
             \/ registered' = registered \cup {c} /\ c = pfds[i].fd
      BY <1>4, <2>2, HandlerKinds
    <3>2. pfds[i].fd \in Fds(pfds)
      BY DEF Fds
    <3> QED
      BY <3>1, <3>2 DEF TableExact
  <2> QED
    BY <2>1, <2>2
<1> QED
  BY <1>2, <1>3, <1>4 DEF Server

\* However joins and departures interleave, moving the last entry into the
\* gap loses and duplicates no connection.
THEOREM TableStaysExact == Spec => []TableExact
<1>1. Init => TableExact
  <2> SUFFICES ASSUME Init PROVE TableExact
    OBVIOUS
  <2>1. /\ pfds = <<>> /\ backlog = <<>> /\ peer = [c \in Conns |-> "idle"]
        /\ fd_size = MAX_GROUP_CONNECTIONS /\ registered = {}
    BY DEF Init
  <2>2. MAX_GROUP_CONNECTIONS \in Nat \ {0}
    BY GroupAssumption
  <2>3. Len(pfds) + 1 <= fd_size
    BY <2>1, <2>2
  <2>4. DOMAIN pfds = {} /\ DOMAIN backlog = {}
    BY <2>1
  <2> QED
    BY <2>1, <2>3, <2>4 DEF TableExact, ToSet, Fds
<1>2. TypeInv /\ TableExact /\ [Next]_vars => TableExact'
  <2>1. CASE UNCHANGED vars
    BY <2>1 DEF vars, environment, table, TableExact
  <2> QED
    BY <2>1, TableExactClient, TableExactServer DEF Next
<1> QED
  BY <1>1, <1>2, GroupTypeInvariant, PTL DEF Spec

-----------------------------------------------------------------------------
(* No recv() blocks. *)

\* Connections stay readable while the server does not read from them.
LEMMA ReadableStays ==
  ASSUME TypeInv, NEW c \in Conns, Readable(c),
         \/ Client
         \/ UNCHANGED <<peer, inbox>>
         \/ \E d \in Conns : d # c /\ peer' = peer /\ inbox' = [inbox EXCEPT ![d] = Tail(@)]
  PROVE  Readable(c)'
<1>1. /\ peer \in [Conns -> {"idle", "connected", "joined", "eof", "reset"}]
      /\ inbox \in [Conns -> Seq(Frame)]
  BY DEF TypeInv, GroupTypeOK
<1>2. CASE Client
  <2>1. PICK d \in Conns : Connect(d) \/ Introduce(d) \/ Type(d) \/ Leave(d) \/ Die(d)
    BY <1>2 DEF Client
  <2>2. CASE Connect(d) \/ Leave(d)
    BY <1>1, <2>2 DEF Connect, Leave, Readable
  <2>3. CASE Introduce(d) \/ Type(d)
    <3>1. \E frame \in Frame : inbox' = [inbox EXCEPT ![d] = Append(@, frame)]
      BY <2>3 DEF Introduce, Type, Frame
    <3>2. inbox[c] \in Seq(Frame) /\ inbox[d] \in Seq(Frame)
      BY <1>1
    <3>3. inbox[c] # <<>> => inbox'[c] # <<>>
      BY <1>1, <3>1, <3>2
    <3>4. peer[c] \in {"eof", "reset"} => peer'[c] \in {"eof", "reset"}
      BY <1>1, <2>3 DEF Introduce, Type
    <3> QED
      BY <3>3, <3>4 DEF Readable
  <2>4. CASE Die(d)
    BY <1>1, <2>4 DEF Die, Readable
  <2> QED
    BY <2>1, <2>2, <2>3, <2>4
<1>3. CASE UNCHANGED <<peer, inbox>>
  BY <1>3 DEF Readable
<1>4. CASE \E d \in Conns : d # c /\ peer' = peer /\ inbox' = [inbox EXCEPT ![d] = Tail(@)]
  BY <1>1, <1>4 DEF Readable
<1> QED
  BY <1>2, <1>3, <1>4

\* The entries the scan has yet to visit.
LEMMA NeverBlocksStep ==
  ASSUME TypeInv, TableExact, NeverBlocksInRecv, [Next]_vars
  PROVE  NeverBlocksInRecv'
<1>1. /\ pfds \in Seq([fd : Conns, revents : BOOLEAN]) /\ Len(pfds) \in Nat
      /\ DOMAIN pfds = 1 .. Len(pfds)
      /\ \A k \in DOMAIN pfds : pfds[k] \in [fd : Conns, revents : BOOLEAN]
      /\ pfd_i \in 0 .. Len(pfds) + 1
  <2>1. pfds \in Seq([fd : Conns, revents : BOOLEAN]) /\ pfd_i \in 0 .. Len(pfds) + 1
    BY DEF TypeInv, GroupTypeOK
  <2> QED
    BY <2>1, SeqElements
<1>2. CASE Client
  <2>1. UNCHANGED <<pfds, pfd_i>>
    BY <1>2 DEF Client, Connect, Introduce, Type, Leave, Die, table
  <2> SUFFICES ASSUME NEW k \in DOMAIN pfds, k >= pfd_i, pfds[k].revents
               PROVE  Readable(pfds[k].fd)'
    BY <2>1 DEF NeverBlocksInRecv
  <2> QED
    BY <1>1, <1>2, <2>1, ReadableStays DEF NeverBlocksInRecv
<1>3. CASE Poll
  <2>1. /\ pfds' = [i \in DOMAIN pfds |-> [pfds[i] EXCEPT !.revents = Readable(pfds[i].fd)]]
        /\ UNCHANGED <<peer, inbox>>
    BY <1>3 DEF Poll, environment
  <2>2. \A k \in DOMAIN pfds' : pfds'[k].fd = pfds[k].fd
                                /\ pfds'[k].revents = Readable(pfds[k].fd)
    BY <1>1, <2>1
  <2> QED
    BY <2>1, <2>2 DEF NeverBlocksInRecv, Readable
<1>4. CASE HandleNewConnection
  <2>1. /\ pfds' = AddToPfds(pfds, Head(backlog)) /\ pfd_i = 0
        /\ UNCHANGED <<peer, inbox>>
        /\ Head(backlog) \in Conns
    BY <1>4 DEF HandleNewConnection, TypeInv, GroupTypeOK
  <2>2. /\ DOMAIN pfds' = 1 .. Len(pfds) + 1
        /\ \A k \in 1 .. Len(pfds) : pfds'[k] = pfds[k]
        /\ pfds'[Len(pfds) + 1] = [fd |-> Head(backlog), revents |-> FALSE]
    BY <2>1, FdsAfterAdd
  <2>3. \A k \in 1 .. Len(pfds) + 1 : k >= pfd_i /\ (k \in 1 .. Len(pfds) \/ k = Len(pfds) + 1)
    BY <1>1, <2>1
  <2> QED
    BY <1>1, <2>1, <2>2, <2>3 DEF NeverBlocksInRecv, Readable
<1>5. ASSUME NEW i \in DOMAIN pfds, NEW c \in Conns, HandleClientData(i, c)
      PROVE  NeverBlocksInRecv'
  <2>1. CASE HandleHangup(i, c)
    <3>1. /\ UNCHANGED <<peer, inbox>> /\ pfd_i = i
      BY <2>1 DEF HandleHangup, Serving, environment
    <3>2. /\ pfds' = DelFromPfds(pfds, i)
          /\ pfds' \in Seq([fd : Conns, revents : BOOLEAN])
          /\ Len(pfds') = Len(pfds) - 1
          /\ pfd_i' \in i .. Len(pfds') + 1
      BY <2>1, HangupFacts
    <3>3. i \in 1 .. Len(pfds)
      BY <1>1
    <3>4. \A k \in 1 .. Len(pfds) - 1 :
            pfds'[k] = IF k = i THEN pfds[Len(pfds)] ELSE pfds[k]
      BY <1>1, <3>2, <3>3, DelFromPfdsFacts, SMTT(30)
    <3>5. DOMAIN pfds' = 1 .. Len(pfds) - 1 /\ Len(pfds) \in DOMAIN pfds /\ Len(pfds) >= i
      BY <1>1, <3>2
    <3> SUFFICES ASSUME NEW k \in 1 .. Len(pfds) - 1, k >= pfd_i', pfds'[k].revents,
                        NEW d, d = pfds'[k].fd
                 PROVE  Readable(d)'
      BY <3>5 DEF NeverBlocksInRecv
    <3>6. k >= i /\ k \in DOMAIN pfds
      BY <1>1, <3>2
    <3>7. Readable(d)
      BY <1>1, <3>1, <3>4, <3>5, <3>6 DEF NeverBlocksInRecv
    <3> QED
      BY <3>1, <3>7 DEF Readable
  <2>2. CASE ~HandleHangup(i, c)
    <3>1. CASE /\ UNCHANGED <<peer, backlog, pfds, fd_size>>
               /\ c = pfds[i].fd /\ pfd_i = i
               /\ inbox' = [inbox EXCEPT ![c] = Tail(@)]
               /\ pfd_i' = NextReady(pfds, i)
      <4>1. i \in Nat /\ i <= Len(pfds)
        BY <1>1
      <4>2. pfd_i' \in i + 1 .. Len(pfds) + 1
        BY <1>1, <3>1, <4>1, NextReadyFacts
      <4> SUFFICES ASSUME NEW k \in DOMAIN pfds, k >= pfd_i', pfds[k].revents
                   PROVE  Readable(pfds[k].fd)'
        BY <3>1 DEF NeverBlocksInRecv
      <4>3. k >= pfd_i /\ k # i
        BY <1>1, <3>1, <4>1, <4>2
      <4>4. pfds[k].fd \in Conns /\ pfds[k].fd # c
        BY <1>1, <3>1, <4>3 DEF TableExact
      <4>5. Readable(pfds[k].fd)
        BY <4>3 DEF NeverBlocksInRecv
      <4> QED
        BY <3>1, <4>4, <4>5, ReadableStays
    <3>2. CASE UNCHANGED <<peer, backlog, inbox, pfds, fd_size, pfd_i, registered>>
      BY <3>2 DEF NeverBlocksInRecv, Readable
    <3> QED
      BY <1>5, <2>2, <3>1, <3>2, HandlerKinds
  <2> QED
    BY <2>1, <2>2
<1>6. CASE UNCHANGED vars
  BY <1>6 DEF vars, environment, table, NeverBlocksInRecv, Readable
<1> QED
  BY <1>2, <1>3, <1>4, <1>5, <1>6 DEF Next, Server

\* The one thread of the server never waits for a single client.
THEOREM ServerNeverBlocks == Spec => []NeverBlocksInRecv
<1>1. Init => NeverBlocksInRecv
  <2> SUFFICES ASSUME Init PROVE NeverBlocksInRecv
    OBVIOUS
  <2>1. DOMAIN pfds = {}
    BY DEF Init
  <2> QED
    BY <2>1 DEF NeverBlocksInRecv
<1>2. TypeInv /\ TableExact /\ NeverBlocksInRecv /\ [Next]_vars => NeverBlocksInRecv'
  BY NeverBlocksStep
<1> QED
  BY <1>1, <1>2, GroupTypeInvariant, TableStaysExact, PTL DEF Spec

-----------------------------------------------------------------------------
(* Members and introductions. *)

\* A client introduces itself once, before it writes anything else, and is
\* not registered until that frame was read.
IntroducedOnce ==
  \A c \in Conns :
    /\ peer[c] \in {"idle", "connected"} => inbox[c] = <<>> /\ c \notin registered
    /\ \A k \in DOMAIN inbox[c] :
         inbox[c][k].type = "LMP_GRP_INIT_MEMBER" => k = 1 /\ c \notin registered

\* What a handler does to the introductions and to the number of members.
LEMMA CountKinds ==
  ASSUME TypeInv, NEW i \in DOMAIN pfds, NEW c \in Conns, HandleClientData(i, c)
  PROVE  /\ peer' = peer
         /\ \/ /\ HandleHangup(i, c)
               /\ inbox' = inbox
               /\ registered' = registered \ {c}
               /\ current_group'.member_count = current_group.member_count - 1
            \/ /\ HandleInitMember(i, c)
               /\ inbox[c] # <<>> /\ Head(inbox[c]).type = "LMP_GRP_INIT_MEMBER"
               /\ inbox' = [inbox EXCEPT ![c] = Tail(@)]
               /\ registered' = registered \cup {c}
               /\ current_group'.member_count = current_group.member_count + 1
            \/ /\ inbox[c] # <<>> /\ Head(inbox[c]).type # "LMP_GRP_INIT_MEMBER"
               /\ inbox' = [inbox EXCEPT ![c] = Tail(@)]
               /\ registered' = registered
               /\ current_group'.member_count = current_group.member_count
            \/ UNCHANGED <<inbox, registered, current_group>>
<1>0. /\ current_group \in Group
      /\ current_group.members \in [0 .. MAX_GROUP_MEMBERS - 1 -> GroupMember]
  BY DEF TypeInv, GroupTypeOK, Group
<1>1. CASE HandleHangup(i, c)
  <2>1. DropMember(current_group, i).member_count = current_group.member_count - 1
    BY <1>0 DEF DropMember, Group
  <2> QED
    BY <1>1, <2>1 DEF HandleHangup, environment
<1>2. CASE HandleInitMember(i, c)
  <2>1. StoreMember(current_group, MemberOf[c]).member_count = current_group.member_count + 1
    BY <1>0 DEF StoreMember, Group
  <2> QED
    BY <1>2, <2>1 DEF HandleInitMember, Receive
<1>3. CASE HandleNick(i, c)
  <2>1. [current_group EXCEPT !.members[i - 1].nickname = Head(inbox[c]).text].member_count
          = current_group.member_count
    BY <1>0 DEF Group
  <2> QED
    BY <1>3, <2>1 DEF HandleNick, Receive
<1>4. CASE HandleLoadMsg(i, c) \/ HandleGuessRefused(i, c) \/ HandleGuess(i, c)
  BY <1>4 DEF HandleLoadMsg, HandleGuessRefused, HandleGuess, Receive
<1>5. CASE HandleMsg(i, c) \/ HandleDefault(i, c)
  BY <1>5 DEF HandleMsg, HandleDefault, Receive
<1>6. CASE \/ HandleHangmanStart(i, c) \/ HandleHangmanStartAgain(i, c)
           \/ HandleHangmanExit(i, c) \/ HandleHangmanJoin(i, c)
           \/ HandleHangmanJoinNoGame(i, c)
  BY <1>6 DEF HandleHangmanStart, HandleHangmanStartAgain, HandleHangmanExit, HandleHangmanJoin,
              HandleHangmanJoinNoGame, HangmanFrame, Receive
<1>7. CASE HandleOutOfBounds(i, c)
  BY <1>7 DEF HandleOutOfBounds, environment
<1> QED
  BY <1>1, <1>2, <1>3, <1>4, <1>5, <1>6, <1>7 DEF HandleClientData

\* Poll and accept do nothing to them.
LEMMA CountOthers ==
  ASSUME Poll \/ HandleNewConnection \/ UNCHANGED vars
  PROVE  UNCHANGED <<peer, inbox, registered, current_group>>
  BY DEF Poll, HandleNewConnection, vars, environment

LEMMA IntroducedOnceStep ==
  ASSUME TypeInv, IntroducedOnce, [Next]_vars
  PROVE  IntroducedOnce'
<1>1. /\ peer \in [Conns -> {"idle", "connected", "joined", "eof", "reset"}]
      /\ inbox \in [Conns -> Seq(Frame)]
  BY DEF TypeInv, GroupTypeOK
<1>2. ASSUME NEW c \in Conns, inbox[c] # <<>>, inbox' = [inbox EXCEPT ![c] = Tail(@)]
      PROVE  /\ \A k \in DOMAIN inbox'[c] : inbox'[c][k].type # "LMP_GRP_INIT_MEMBER"
             /\ \A d \in Conns : inbox[d] = <<>> => inbox'[d] = <<>>
             /\ \A d \in Conns \ {c} : inbox'[d] = inbox[d]
  <2>1. inbox[c] \in Seq(Frame) /\ inbox'[c] = Tail(inbox[c])
    BY <1>1, <1>2
  <2>2. ASSUME NEW k \in DOMAIN inbox'[c]
        PROVE  inbox'[c][k].type # "LMP_GRP_INIT_MEMBER"
    <3>1. k + 1 \in DOMAIN inbox[c] /\ k + 1 # 1 /\ inbox'[c][k] = inbox[c][k + 1]
      BY <1>2, <2>1, TailElements
    <3> QED
      BY <3>1 DEF IntroducedOnce
  <2> QED
    BY <1>1, <1>2, <2>2
<1>3. CASE Client
  <2>1. PICK c \in Conns : Connect(c) \/ Introduce(c) \/ Type(c) \/ Leave(c) \/ Die(c)
    BY <1>3 DEF Client
  <2>2. registered' = registered
    BY <2>1 DEF Connect, Introduce, Type, Leave, Die
  <2>3. CASE Connect(c) \/ Leave(c)
    BY <1>1, <2>2, <2>3 DEF Connect, Leave, IntroducedOnce
  <2>4. CASE Introduce(c)
    <3>1. inbox[c] = <<>> /\ c \notin registered
      BY <2>4 DEF Introduce, IntroducedOnce
    <3>2. inbox' = [inbox EXCEPT ![c] = <<InitFrame>>] /\ peer' = [peer EXCEPT ![c] = "joined"]
      BY <2>4, <3>1 DEF Introduce
    <3> QED
      BY <1>1, <2>2, <3>1, <3>2 DEF IntroducedOnce
  <2>5. CASE Type(c)
    <3>1. PICK frame \in Commands : inbox' = [inbox EXCEPT ![c] = Append(@, frame)]
      BY <2>5 DEF Type
    <3>2. frame.type # "LMP_GRP_INIT_MEMBER"
      BY GroupAssumption DEF FrameTypes
    <3>3. inbox[c] \in Seq(Frame) /\ frame \in Frame
      BY <1>1 DEF Frame
    <3>4. \A k \in DOMAIN Append(inbox[c], frame) :
            \/ k \in DOMAIN inbox[c] /\ Append(inbox[c], frame)[k] = inbox[c][k]
            \/ Append(inbox[c], frame)[k] = frame
      BY <3>3
    <3>5. /\ inbox'[c] = Append(inbox[c], frame)
          /\ \A d \in Conns \ {c} : inbox'[d] = inbox[d]
          /\ peer' = peer /\ peer[c] = "joined"
      BY <1>1, <2>5, <3>1 DEF Type
    <3> QED
      BY <2>2, <3>2, <3>4, <3>5 DEF IntroducedOnce
  <2>6. CASE Die(c)
    BY <1>1, <2>2, <2>6 DEF Die, IntroducedOnce
  <2> QED
    BY <2>1, <2>3, <2>4, <2>5, <2>6
<1>4. CASE Poll \/ HandleNewConnection \/ UNCHANGED vars
  BY <1>4, CountOthers DEF IntroducedOnce
<1>5. ASSUME NEW i \in DOMAIN pfds, NEW c \in Conns, HandleClientData(i, c)
      PROVE  IntroducedOnce'
  <2>1. peer' = peer
    BY <1>5, CountKinds
  <2>2. CASE inbox[c] # <<>> /\ inbox' = [inbox EXCEPT ![c] = Tail(@)]
             /\ registered' \subseteq registered \cup {c}
    <3>1. peer[c] \notin {"idle", "connected"}
      BY <2>2 DEF IntroducedOnce
    <3> QED
      BY <1>2, <2>1, <2>2, <3>1, ZenonT(30) DEF IntroducedOnce
  <2>3. CASE inbox' = inbox /\ registered' \subseteq registered
    BY <2>1, <2>3 DEF IntroducedOnce
  <2> QED
    BY <1>5, <2>2, <2>3, CountKinds
<1> QED
  BY <1>3, <1>4, <1>5 DEF Next, Server

LEMMA IntroducedOnceInit ==
  ASSUME Init
  PROVE  IntroducedOnce
  BY DEF Init, IntroducedOnce

\* The number of members announced never exceeds that of introductions.
LEMMA MembersHaveConnectionsStep ==
  ASSUME TypeInv, TableExact, IntroducedOnce, MembersHaveConnections, [Next]_vars
  PROVE  MembersHaveConnections'
<1>1. /\ IsFiniteSet(registered) /\ Cardinality(registered) \in Nat
      /\ current_group.member_count \in Int
  <2>1. IsFiniteSet(Conns) /\ registered \subseteq Conns /\ current_group \in Group
    BY GroupAssumption DEF TypeInv, GroupTypeOK
  <2> QED
    BY <2>1, FS_Subset, FS_CardinalityType DEF Group
<1>2. CASE Client
  <2>1. UNCHANGED <<registered, current_group>>
    BY <1>2 DEF Client, Connect, Introduce, Type, Leave, Die
  <2> QED
    BY <2>1 DEF MembersHaveConnections
<1>3. CASE Poll \/ HandleNewConnection \/ UNCHANGED vars
  BY <1>3, CountOthers DEF MembersHaveConnections
<1>4. ASSUME NEW i \in DOMAIN pfds, NEW c \in Conns, HandleClientData(i, c)
      PROVE  MembersHaveConnections'
  <2>1. CASE /\ registered' = registered \ {c}
             /\ current_group'.member_count = current_group.member_count - 1
    <3>1. Cardinality(registered') >= Cardinality(registered) - 1
      BY <1>1, <2>1, FS_RemoveElement
    <3>2. Cardinality(registered') \in Nat
      BY <1>1, <2>1, FS_RemoveElement, FS_CardinalityType
    <3> QED
      BY <1>1, <2>1, <3>1, <3>2 DEF MembersHaveConnections
  <2>2. CASE /\ inbox[c] # <<>> /\ Head(inbox[c]).type = "LMP_GRP_INIT_MEMBER"
             /\ registered' = registered \cup {c}
             /\ current_group'.member_count = current_group.member_count + 1
    <3>1. inbox[c] \in Seq(Frame)
      BY DEF TypeInv, GroupTypeOK
    <3>2. 1 \in DOMAIN inbox[c] /\ inbox[c][1].type = "LMP_GRP_INIT_MEMBER"
      BY <2>2, <3>1
    <3>3. c \notin registered
      BY <3>2 DEF IntroducedOnce
    <3>4. Cardinality(registered') = Cardinality(registered) + 1
      BY <1>1, <2>2, <3>3, FS_AddElement
    <3> QED
      BY <1>1, <2>2, <3>4 DEF MembersHaveConnections
  <2>3. CASE registered' = registered /\ current_group'.member_count = current_group.member_count
    BY <2>3 DEF MembersHaveConnections
  <2> QED
    BY <1>4, <2>1, <2>2, <2>3, CountKinds
<1> QED
  BY <1>2, <1>3, <1>4 DEF Next, Server

\* Every member announced has a connection, so that pfds[user_index + 1]
\* exists, whoever hangs up before having introduced themselves.
THEOREM MembersAreConnected == Spec => []MembersHaveConnections
<1>1. Spec => []IntroducedOnce
  BY IntroducedOnceInit, IntroducedOnceStep, GroupTypeInvariant, PTL DEF Spec
<1>2. Init => MembersHaveConnections
  <2> SUFFICES ASSUME Init PROVE MembersHaveConnections
    OBVIOUS
  <2>1. registered = {} /\ current_group.member_count = 0
    BY DEF Init, ZeroGroup
  <2>2. Cardinality(registered) = 0
    BY <2>1, FS_EmptySet
  <2> QED
    BY <2>1, <2>2 DEF MembersHaveConnections
<1>3. TypeInv /\ TableExact /\ IntroducedOnce /\ MembersHaveConnections /\ [Next]_vars
        => MembersHaveConnections'
  BY MembersHaveConnectionsStep
<1> QED
  BY <1>1, <1>2, <1>3, GroupTypeInvariant, TableStaysExact, PTL DEF Spec

-----------------------------------------------------------------------------
(* What the clients know of the group, as long as no client sends a group  *)
(* object itself.                                                          *)

NoClientGroups == \A frame \in Commands : frame.type # "LMP_GRP_OBJ"

LEMMA ViewsStep ==
  ASSUME NoClientGroups, TypeInv, TableExact, TableExact', ViewsUpToDate, [Next]_vars
  PROVE  ViewsUpToDate'
<1>1. /\ told \in [Conns -> Group] /\ registered \subseteq Conns
      /\ pfds \in Seq([fd : Conns, revents : BOOLEAN])
      /\ registered' \subseteq Fds(pfds') /\ registered \subseteq Fds(pfds)
  <2>1. Fds(pfds)' = Fds(pfds')
    BY DEF Fds
  <2> QED
    BY <2>1 DEF TypeInv, GroupTypeOK, TableExact
<1>2. CASE Client \/ Poll \/ HandleNewConnection \/ UNCHANGED vars
  <2>1. UNCHANGED <<registered, current_group, told, server>>
    BY <1>2 DEF Client, Connect, Introduce, Type, Leave, Die, Poll, HandleNewConnection, vars
  <2> QED
    BY <2>1 DEF ViewsUpToDate
<1>3. ASSUME NEW i \in DOMAIN pfds, NEW c \in Conns, HandleClientData(i, c)
      PROVE  ViewsUpToDate'
  <2>0. server = "up" \/ server' = "undefined"
    BY <1>3 DEF HandleClientData, HandleHangup, HandleNick, HandleInitMember, HandleLoadMsg,
                HandleGuessRefused, HandleGuess, HandleMsg, HandleDefault, HandleHangmanStart,
                HandleHangmanStartAgain, HandleHangmanExit, HandleHangmanJoin,
                HandleHangmanJoinNoGame, HangmanFrame, HandleOutOfBounds, Receive, Serving
  <2>1. CASE \E entries \in {pfds, pfds'} :
               /\ SendNewGroupToUsers(entries, current_group')
               /\ registered' \subseteq Fds(entries)
    <3>1. \A d \in registered' : d \in Conns /\ told'[d] = current_group'
      <4>1. registered' \subseteq Conns
        BY <1>1, <1>3, CountKinds
      <4> QED
        BY <2>1, <4>1 DEF SendNewGroupToUsers
    <3> QED
      BY <3>1 DEF ViewsUpToDate
  <2>2. CASE UNCHANGED <<registered, current_group, told>>
    BY <2>0, <2>2 DEF ViewsUpToDate
  <2>3. CASE HandleHangup(i, c)
    <3>1. /\ pfds' = DelFromPfds(pfds, i)
          /\ SendNewGroupToUsers(pfds', current_group')
      BY <2>3 DEF HandleHangup
    <3> QED
      BY <1>1, <2>1, <3>1
  <2>4. CASE HandleNick(i, c)
    <3>1. SendNewGroupToUsers(pfds, current_group') /\ registered' = registered
      BY <2>4 DEF HandleNick
    <3> QED
      BY <1>1, <2>1, <3>1
  <2>5. CASE HandleInitMember(i, c)
    <3>1. SendNewGroupToUsers(pfds, current_group') /\ pfds' = pfds
      BY <2>5 DEF HandleInitMember, table
    <3> QED
      BY <1>1, <2>1, <3>1
  <2>6. CASE HandleMsg(i, c) \/ HandleDefault(i, c)
    <3>1. PICK type \in {"LMP_MSG", "LMP_GRP_OBJ", "LMP_STICKERS"} : Receive(i, c, type)
      BY <2>6 DEF HandleMsg, HandleDefault
    <3>2. Head(inbox[c]) \in Frame /\ Head(inbox[c]).type = type
      BY <3>1, ReceiveFacts DEF TypeInv
    <3>3. Head(inbox[c]) \in Commands
      BY <3>1, <3>2, TypedText
    <3>4. Head(inbox[c]).type # "LMP_GRP_OBJ"
      BY <3>3 DEF NoClientGroups
    <3>5. UNCHANGED <<registered, current_group, told>>
      BY <2>6, <3>4 DEF HandleMsg, HandleDefault, Relay, ToldByRelay
    <3> QED
      BY <2>2, <3>5
  <2>7. CASE \/ HandleLoadMsg(i, c) \/ HandleGuessRefused(i, c) \/ HandleGuess(i, c)
             \/ HandleHangmanStart(i, c) \/ HandleHangmanStartAgain(i, c)
             \/ HandleHangmanExit(i, c) \/ HandleHangmanJoin(i, c)
             \/ HandleHangmanJoinNoGame(i, c) \/ HandleOutOfBounds(i, c)
    <3>1. UNCHANGED <<registered, current_group, told>>
      BY <2>7 DEF HandleLoadMsg, HandleGuessRefused, HandleGuess, HandleHangmanStart,
                  HandleHangmanStartAgain, HandleHangmanExit, HandleHangmanJoin,
                  HandleHangmanJoinNoGame, HangmanFrame, HandleOutOfBounds
    <3> QED
      BY <2>2, <3>1
  <2> QED
    BY <1>3, <2>3, <2>4, <2>5, <2>6, <2>7 DEF HandleClientData
<1> QED
  BY <1>2, <1>3 DEF Next, Server

\* No change of the group goes untold: each client that introduced itself was
\* sent the group as it is.
THEOREM ViewsStayUpToDate ==
  ASSUME NoClientGroups
  PROVE  Spec => []ViewsUpToDate
<1>1. Init => ViewsUpToDate
  BY DEF Init, ViewsUpToDate
<1>2. TypeInv /\ TableExact /\ TableExact' /\ ViewsUpToDate /\ [Next]_vars => ViewsUpToDate'
  BY ViewsStep
<1> QED
  BY <1>1, <1>2, GroupTypeInvariant, TableStaysExact, PTL DEF Spec

-----------------------------------------------------------------------------
(* The game. *)

\* The state a call leaves the game in.
LEMMA GameStates ==
  ASSUME NEW fsm, FsmOK(fsm), NEW input
  PROVE  /\ \A new \in AfterGuess(fsm, input) : new.state # "HANGMAN_UPDATE"
         /\ fsm.state = "HANGMAN_INITIAL" =>
              \A new \in ProcessHangmanState(fsm, input) : new.state = "HANGMAN_PLAYING"
<1>1. ASSUME NEW f, FsmOK(f)
      PROVE  HangmanFinishBroadcast(f).state # "HANGMAN_UPDATE"
  BY <1>1 DEF FsmOK, HANGMAN_FSM, HangmanFinishBroadcast
<1>2. \A new \in AfterGuess(fsm, input) : new.state # "HANGMAN_UPDATE"
  BY <1>1, ProcessOK DEF AfterGuess
<1>3. ASSUME fsm.state = "HANGMAN_INITIAL", NEW new \in ProcessHangmanState(fsm, input)
      PROVE  new.state = "HANGMAN_PLAYING"
  <2>1. PICK f \in SetRandomWord(fsm) : new = [f EXCEPT !.state = "HANGMAN_PLAYING"]
    BY <1>3 DEF ProcessHangmanState
  <2>2. f = fsm \/ \E w \in Words : f = [fsm EXCEPT !.hangman_word = w]
    BY DEF SetRandomWord
  <2>3. f \in [DOMAIN fsm -> {f[x] : x \in DOMAIN fsm}] /\ "state" \in DOMAIN fsm
    BY <2>2 DEF FsmOK, HANGMAN_FSM
  <2> QED
    BY <2>1, <2>3
<1> QED
  BY <1>2, <1>3

PlayersInv == PlayersOnlyInGame /\ NeverBusy

LEMMA PlayersStep ==
  ASSUME TypeInv, PlayersInv, [Next]_vars
  PROVE  PlayersInv'
<1>1. FsmOK(hangman_fsm) /\ hangman_users_list \in Seq(Uids)
  BY DEF TypeInv, GroupTypeOK
<1>2. CASE UNCHANGED game
  BY <1>2 DEF game, PlayersInv, PlayersOnlyInGame, NeverBusy
<1>3. ASSUME NEW i, NEW c, HandleHangmanStart(i, c)
      PROVE  PlayersInv'
  <2>1. hangman_fsm'.state = "HANGMAN_PLAYING"
    BY <1>1, <1>3, GameStates DEF HandleHangmanStart
  <2> QED
    BY <2>1 DEF PlayersInv, PlayersOnlyInGame, NeverBusy
<1>4. ASSUME NEW i, NEW c, HandleHangmanExit(i, c)
      PROVE  PlayersInv'
  <2>1. /\ hangman_fsm' = hangman_fsm
        /\ hangman_users_list' = RemoveUser(hangman_users_list, Sender(i).uid)
    BY <1>4 DEF HandleHangmanExit
  <2>2. hangman_users_list = <<>> => hangman_users_list' = <<>>
    <3>1. hangman_users_list = <<>> => ~\E k \in 1 .. Len(hangman_users_list) :
                                          hangman_users_list[k] = Sender(i).uid
      OBVIOUS
    <3> QED
      BY <2>1, <3>1 DEF RemoveUser, RemoveFirst
  <2> QED
    BY <2>1, <2>2 DEF PlayersInv, PlayersOnlyInGame, NeverBusy
<1>5. ASSUME NEW i, NEW c, HandleHangmanJoin(i, c)
      PROVE  PlayersInv'
  BY <1>5 DEF HandleHangmanJoin, PlayersInv, PlayersOnlyInGame, NeverBusy
<1>6. ASSUME NEW i, NEW c, HandleGuess(i, c)
      PROVE  PlayersInv'
  <2>1. /\ hangman_fsm'.state # "HANGMAN_UPDATE"
        /\ hangman_users_list' = RemainingPlayers(hangman_fsm', hangman_users_list)
    BY <1>1, <1>6, GameStates DEF HandleGuess
  <2> QED
    BY <2>1 DEF RemainingPlayers, PlayersInv, PlayersOnlyInGame, NeverBusy
<1>7. ASSUME NEW i, NEW c,
             \/ HandleHangup(i, c) \/ HandleNick(i, c) \/ HandleInitMember(i, c)
             \/ HandleLoadMsg(i, c) \/ HandleHangmanStartAgain(i, c)
             \/ HandleHangmanJoinNoGame(i, c) \/ HandleGuessRefused(i, c)
             \/ HandleMsg(i, c) \/ HandleDefault(i, c) \/ HandleOutOfBounds(i, c)
      PROVE  UNCHANGED game
  BY <1>7 DEF HandleHangup, HandleNick, HandleInitMember, HandleLoadMsg, HandleHangmanStartAgain,
              HandleHangmanJoinNoGame, HandleGuessRefused, HandleMsg, HandleDefault,
              HandleOutOfBounds
<1>8. Client \/ Poll \/ HandleNewConnection \/ UNCHANGED vars => UNCHANGED game
  BY DEF Client, Connect, Introduce, Type, Leave, Die, Poll, HandleNewConnection, vars
<1> QED
  BY <1>2, <1>3, <1>4, <1>5, <1>6, <1>7, <1>8 DEF Next, Server, HandleClientData

LEMMA PlayersInvariant == Spec => []PlayersInv
<1>1. Init => PlayersInv
  BY DEF Init, HangmanInit, ZeroedFsm, PlayersInv, PlayersOnlyInGame, NeverBusy
<1> QED
  BY <1>1, PlayersStep, GroupTypeInvariant, PTL DEF Spec

\* When a game is over nobody is left in the list of players: a later game
\* starts with its starter alone.
THEOREM PlayersBelongToGame == Spec => []PlayersOnlyInGame
<1>1. PlayersInv => PlayersOnlyInGame
  BY DEF PlayersInv
<1> QED
  BY <1>1, PlayersInvariant, PTL

\* The busy answer is never given.
THEOREM GameIsNeverBusy == Spec => []NeverBusy
<1>1. PlayersInv => NeverBusy
  BY DEF PlayersInv
<1> QED
  BY <1>1, PlayersInvariant, PTL

\* A guess is processed and its broadcast finished in one step of the server;
\* together they are one move of the abstract game or none.
LEMMA AfterGuessMoves ==
  ASSUME NEW fsm, FsmOK(fsm), NEW input,
         NEW new \in AfterGuess(fsm, input), HasWord(new)
  PROVE  GameMoved(fsm, new)
<1>1. PICK f \in ProcessHangmanState(fsm, input) : new = HangmanFinishBroadcast(f)
  BY DEF AfterGuess
<1>2. FsmOK(f)
  BY ProcessOK
<1>4. HasWord(f)
  <2>1. /\ new.hangman_word = f.hangman_word
        /\ f.state # "HANGMAN_INITIAL" => new.state # "HANGMAN_INITIAL"
    BY <1>1, <1>2 DEF HangmanFinishBroadcast, FsmOK, HANGMAN_FSM
  <2> QED
    BY <2>1 DEF HasWord
<1>5. GameMoved(fsm, f)
  BY <1>4, ProcessMoves
<1>3. SameGame(f, new)
  BY <1>1, <1>2, FinishKeepsGame
<1> QED
  BY <1>5, <1>3 DEF GameMoved, SameGame, GameStarted, LetterTried

\* The server's handlers make of hangman.c the game its players expect: no
\* interleaving of starts, joins, exits, guesses, departures and messages of
\* all clients does anything else to it, as long as no game is started without
\* a word.
THEOREM GroupPlaysWordGame ==
  Spec => ([]OpenGameHasWord => ImplementsWordGame)
<1>1. Init => Game!Init
  BY DEF Init, HangmanInit, ZeroedFsm, Game!Init, GamePhase, TriedLetters, RevealedLetters, ToSet
<1>2. TypeInv /\ OpenGameHasWord' /\ [Next]_vars => [Game!Next]_Game!vars
  <2> SUFFICES ASSUME TypeInv, HasWord(hangman_fsm'), [Next]_vars
               PROVE  GameMoved(hangman_fsm, hangman_fsm')
    BY MoveIsGameStep DEF OpenGameHasWord, HasWord
  <2>1. FsmOK(hangman_fsm)
    BY DEF TypeInv
  <2>2. CASE UNCHANGED hangman_fsm
    BY <2>2 DEF GameMoved, SameGame
  <2>3. ASSUME NEW i, NEW c, HandleHangmanStart(i, c)
        PROVE  GameMoved(hangman_fsm, hangman_fsm')
    BY <2>1, <2>3, ProcessMoves DEF HandleHangmanStart
  <2>4. ASSUME NEW i, NEW c, HandleGuess(i, c)
        PROVE  GameMoved(hangman_fsm, hangman_fsm')
    BY <2>1, <2>4, AfterGuessMoves DEF HandleGuess
  <2>5. ASSUME NEW i, NEW c,
               \/ HandleHangup(i, c) \/ HandleNick(i, c) \/ HandleInitMember(i, c)
               \/ HandleLoadMsg(i, c) \/ HandleHangmanStartAgain(i, c)
               \/ HandleHangmanExit(i, c) \/ HandleHangmanJoin(i, c)
               \/ HandleHangmanJoinNoGame(i, c) \/ HandleGuessRefused(i, c)
               \/ HandleMsg(i, c) \/ HandleDefault(i, c) \/ HandleOutOfBounds(i, c)
        PROVE  UNCHANGED hangman_fsm
    BY <2>5 DEF HandleHangup, HandleNick, HandleInitMember, HandleLoadMsg,
                HandleHangmanStartAgain, HandleHangmanExit, HandleHangmanJoin,
                HandleHangmanJoinNoGame, HandleGuessRefused, HandleMsg, HandleDefault,
                HandleOutOfBounds, game
  <2>6. Client \/ Poll \/ HandleNewConnection \/ UNCHANGED vars => UNCHANGED hangman_fsm
    BY DEF Client, Connect, Introduce, Type, Leave, Die, Poll, HandleNewConnection, vars, game
  <2> QED
    BY <2>2, <2>3, <2>4, <2>5, <2>6 DEF Next, Server, HandleClientData
<1> QED
  BY <1>1, <1>2, GroupTypeInvariant, PTL DEF Spec, ImplementsWordGame, Game!Spec
=============================================================================
