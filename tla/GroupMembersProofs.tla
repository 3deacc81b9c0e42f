------------------------- MODULE GroupMembersProofs -------------------------
(***************************************************************************)
(* Proofs about the two tables of the group server, the connections and    *)
(* the members, while joins and departures do not overlap                  *)
(* (OrderlyMembership): they agree index by index, and what the server     *)
(* does through that agreement, attributing relayed frames, saving         *)
(* messages, finding the players, is right.  Clients may be killed.        *)
(***************************************************************************)
EXTENDS GroupServerProofs

-----------------------------------------------------------------------------
(* The inductive invariant.  That the two tables agree is not inductive by  *)
(* itself: a departure moves the last member into the gap, which is right   *)
(* only if the last connection is a member, so that nobody may be joining   *)
(* meanwhile; a join stores the member at member_count, which is right only *)
(* if everybody before it is a member.                                      *)

\* The server has not finished with the join or the departure of c.
Pending(c) ==
  \/ peer[c] \in {"connected", "joined"} /\ c \notin registered
  \/ peer[c] \in {"eof", "reset"} /\ c \in ToSet(backlog) \cup Fds(pfds)

OnePending == \A c, d \in Conns : Pending(c) /\ Pending(d) => c = d

\* Who leaves has joined before.
LeaversAreMembers ==
  \A c \in Conns :
    peer[c] \in {"eof", "reset"} /\ c \in ToSet(backlog) \cup Fds(pfds) => c \in registered

\* The first member_count entries of the table are those of the members.
TablesAgree ==
  /\ current_group.member_count \in 0 .. Len(pfds)
  /\ current_group.member_count <= MAX_GROUP_MEMBERS
  /\ \A i \in DOMAIN pfds :
       /\ pfds[i].fd \in registered <=> i <= current_group.member_count
       /\ i <= current_group.member_count => Sender(i).uid = MemberOf[pfds[i].fd].uid

OrderInv ==
  /\ OnePending
  /\ LeaversAreMembers
  /\ server = "up" => TablesAgree

\* What the invariants before this one say of the tables.
LEMMA TableFacts ==
  ASSUME TypeInv
  PROVE  /\ pfds \in Seq([fd : Conns, revents : BOOLEAN])
         /\ Len(pfds) \in Nat
         /\ DOMAIN pfds = 1 .. Len(pfds)
         /\ \A i \in DOMAIN pfds : pfds[i].fd \in Conns /\ pfds[i].fd \in Fds(pfds)
         /\ backlog \in Seq(Conns)
         /\ peer \in [Conns -> {"idle", "connected", "joined", "eof", "reset"}]
         /\ inbox \in [Conns -> Seq(Frame)]
         /\ current_group \in Group
         /\ current_group.member_count \in Int
         /\ current_group.members \in [0 .. MAX_GROUP_MEMBERS - 1 -> GroupMember]
         /\ MAX_GROUP_MEMBERS \in Nat \ {0}
         /\ registered \subseteq Conns
<1>1. /\ pfds \in Seq([fd : Conns, revents : BOOLEAN])
      /\ backlog \in Seq(Conns)
      /\ peer \in [Conns -> {"idle", "connected", "joined", "eof", "reset"}]
      /\ inbox \in [Conns -> Seq(Frame)]
      /\ current_group \in Group
      /\ registered \subseteq Conns
  BY DEF TypeInv, GroupTypeOK
<1>2. /\ Len(pfds) \in Nat /\ DOMAIN pfds = 1 .. Len(pfds)
      /\ \A i \in DOMAIN pfds : pfds[i] \in [fd : Conns, revents : BOOLEAN]
  BY <1>1, SeqElements
<1>3. \A i \in DOMAIN pfds : pfds[i].fd \in Conns /\ pfds[i].fd \in Fds(pfds)
  BY <1>2 DEF Fds
<1>4. /\ current_group.member_count \in Int
      /\ current_group.members \in [0 .. MAX_GROUP_MEMBERS - 1 -> GroupMember]
  BY <1>1 DEF Group
<1> QED
  BY <1>1, <1>2, <1>3, <1>4, GroupAssumption

\* While someone joins or leaves, everybody else in the table is a member.
LEMMA OthersAreMembers ==
  ASSUME TypeInv, TableExact, OrderInv, NEW c \in Conns, Pending(c),
         NEW i \in DOMAIN pfds, pfds[i].fd # c
  PROVE  pfds[i].fd \in registered
<1> DEFINE d == pfds[i].fd
<1>1. d \in Conns /\ d \in Fds(pfds)
  BY TableFacts
<1>2. peer[d] \in {"connected", "joined", "eof", "reset"}
  BY <1>1, TableFacts DEF TableExact
<1>3. CASE peer[d] \in {"connected", "joined"}
  BY <1>1, <1>3 DEF OrderInv, OnePending, Pending
<1>4. CASE peer[d] \in {"eof", "reset"}
  BY <1>1, <1>4 DEF OrderInv, LeaversAreMembers
<1> QED
  BY <1>2, <1>3, <1>4

\* If the table holds members only, it holds as many as are announced.
LEMMA AllMembers ==
  ASSUME TypeInv, TablesAgree, \A i \in DOMAIN pfds : pfds[i].fd \in registered
  PROVE  current_group.member_count = Len(pfds)
<1>1. Len(pfds) \in Nat /\ DOMAIN pfds = 1 .. Len(pfds)
  BY TableFacts
<1>2. current_group.member_count \in 0 .. Len(pfds)
  BY DEF TablesAgree
<1>3. CASE Len(pfds) = 0
  BY <1>2, <1>3
<1>4. CASE Len(pfds) # 0
  <2>1. Len(pfds) \in DOMAIN pfds
    BY <1>1, <1>4
  <2>2. Len(pfds) <= current_group.member_count
    BY <2>1 DEF TablesAgree
  <2> QED
    BY <1>1, <1>2, <2>2
<1> QED
  BY <1>3, <1>4

\* The clients' steps: one join or departure begins only when none is under way.
LEMMA OrderClient ==
  ASSUME OrderlyMembership = TRUE, TypeInv, TableExact, IntroducedOnce, OrderInv, Client
  PROVE  OrderInv'
<1> PICK c \in Conns : Connect(c) \/ Introduce(c) \/ Type(c) \/ Leave(c) \/ Die(c)
  BY DEF Client
<1>1. UNCHANGED <<pfds, current_group, registered, server>>
  BY DEF Connect, Introduce, Type, Leave, Die, table
<1>2. Fds(pfds') = Fds(pfds) /\ ToSet(backlog)' = ToSet(backlog') /\ Fds(pfds)' = Fds(pfds')
  BY <1>1 DEF Fds, ToSet
<1>3. (server = "up" => TablesAgree)'
  BY <1>1 DEF OrderInv, TablesAgree, Sender
<1>4. /\ peer \in [Conns -> {"idle", "connected", "joined", "eof", "reset"}]
      /\ backlog \in Seq(Conns)
  BY TableFacts
<1>5. CASE Connect(c)
  <2>1. /\ \A d \in Conns : ~Pending(d)
        /\ backlog' = Append(backlog, c) /\ peer' = [peer EXCEPT ![c] = "connected"]
    BY <1>5 DEF Connect, MembershipInFlight, Pending
  <2>2. c \notin ToSet(backlog) /\ \A i, j \in DOMAIN backlog : backlog[i] = backlog[j] => i = j
    BY <1>5 DEF Connect, TableExact
  <2>3. ToSet(backlog') = ToSet(backlog) \cup {c}
    BY <1>4, <2>1, <2>2, BacklogFacts
  <2>4. \A d \in Conns : Pending(d)' => d = c
    BY <1>1, <1>2, <1>4, <2>1, <2>3 DEF Pending
  <2>5. LeaversAreMembers'
    BY <1>1, <1>2, <1>4, <2>1, <2>3 DEF OrderInv, LeaversAreMembers
  <2> QED
    BY <1>3, <2>4, <2>5 DEF OrderInv, OnePending
<1>6. CASE Introduce(c) \/ Type(c)
  <2>1. /\ backlog' = backlog
        /\ peer' = peer \/ (peer[c] = "connected" /\ peer' = [peer EXCEPT ![c] = "joined"])
    BY <1>6 DEF Introduce, Type
  <2>2. \A d \in Conns : Pending(d)' => Pending(d)
    BY <1>1, <1>2, <1>4, <2>1 DEF Pending
  <2>3. LeaversAreMembers'
    BY <1>1, <1>2, <1>4, <2>1 DEF OrderInv, LeaversAreMembers
  <2> QED
    BY <1>3, <2>2, <2>3 DEF OrderInv, OnePending
<1>7. CASE Leave(c) \/ Die(c)
  <2>1. /\ \A d \in Conns : ~Pending(d)
        /\ backlog' = backlog
        /\ peer[c] \in {"connected", "joined", "eof"}
        /\ \E p \in {"eof", "reset"} : peer' = [peer EXCEPT ![c] = p]
    BY <1>7 DEF Leave, Die, MembershipInFlight, Pending
  <2>2. c \in ToSet(backlog) \cup Fds(pfds) => c \in registered
    BY <2>1 DEF Pending
  <2>3. \A d \in Conns : Pending(d)' => d = c
    BY <1>1, <1>2, <1>4, <2>1 DEF Pending
  <2>4. LeaversAreMembers'
    BY <1>1, <1>2, <1>4, <2>1, <2>2 DEF OrderInv, LeaversAreMembers
  <2> QED
    BY <1>3, <2>3, <2>4 DEF OrderInv, OnePending
<1> QED
  BY <1>5, <1>6, <1>7

\* poll() changes no descriptor of the table.
LEMMA PollKeepsTable ==
  ASSUME TypeInv, Poll
  PROVE  /\ UNCHANGED <<peer, backlog, inbox, current_group, history, told, registered, server>>
         /\ DOMAIN pfds' = DOMAIN pfds
         /\ Len(pfds') = Len(pfds)
         /\ \A i \in DOMAIN pfds : pfds'[i].fd = pfds[i].fd
         /\ Fds(pfds') = Fds(pfds)
         /\ sent' = {}
<1>1. /\ UNCHANGED <<peer, backlog, inbox, current_group, history, told, registered, server>>
      /\ pfds' = [i \in DOMAIN pfds |-> [pfds[i] EXCEPT !.revents = Readable(pfds[i].fd)]]
      /\ sent' = {}
  BY DEF Poll, environment
<1>2. /\ pfds \in Seq([fd : Conns, revents : BOOLEAN])
      /\ \A i \in DOMAIN pfds : pfds[i] \in [fd : Conns, revents : BOOLEAN]
  BY TableFacts, SeqElements
<1>3. DOMAIN pfds' = DOMAIN pfds /\ \A i \in DOMAIN pfds : pfds'[i].fd = pfds[i].fd
  BY <1>1, <1>2
<1>4. Len(pfds') = Len(pfds)
  BY <1>1, <1>2
<1> QED
  BY <1>1, <1>3, <1>4 DEF Fds

LEMMA OrderPoll ==
  ASSUME TypeInv, OrderInv, Poll
  PROVE  OrderInv'
<1>1. /\ UNCHANGED <<peer, backlog, current_group, registered, server>>
      /\ DOMAIN pfds' = DOMAIN pfds /\ Len(pfds') = Len(pfds)
      /\ \A i \in DOMAIN pfds : pfds'[i].fd = pfds[i].fd
      /\ Fds(pfds)' = Fds(pfds) /\ ToSet(backlog)' = ToSet(backlog)
  <2>1. Fds(pfds)' = Fds(pfds')
    BY DEF Fds
  <2> QED
    BY <2>1, PollKeepsTable DEF ToSet
<1>2. \A d \in Conns : Pending(d)' = Pending(d)
  BY <1>1 DEF Pending
<1>3. OnePending' /\ LeaversAreMembers'
  BY <1>1, <1>2 DEF OrderInv, OnePending, LeaversAreMembers
<1>4. (server = "up" => TablesAgree)'
  BY <1>1 DEF OrderInv, TablesAgree, Sender
<1> QED
  BY <1>3, <1>4 DEF OrderInv

\* Whoever is accepted comes behind the members.
LEMMA OrderNewConnection ==
  ASSUME TypeInv, TableExact, OrderInv, HandleNewConnection
  PROVE  OrderInv'
<1> DEFINE c == Head(backlog)
<1>1. /\ pfds' = AddToPfds(pfds, c)
      /\ backlog' = Tail(backlog) /\ backlog # <<>> /\ server = "up"
      /\ UNCHANGED <<peer, current_group, registered, server>>
  BY DEF HandleNewConnection, TypeInv
<1>2. \A i, j \in DOMAIN backlog : backlog[i] = backlog[j] => i = j
  BY DEF TableExact
<1>3. /\ c \in Conns /\ c \in ToSet(backlog)
      /\ ToSet(backlog') = ToSet(backlog) \ {c}
  BY <1>1, <1>2, TableFacts, BacklogFacts
<1>4. /\ Fds(pfds') = Fds(pfds) \cup {c}
      /\ Len(pfds') = Len(pfds) + 1
      /\ DOMAIN pfds' = 1 .. Len(pfds) + 1
      /\ \A k \in 1 .. Len(pfds) : pfds'[k] = pfds[k]
      /\ pfds'[Len(pfds) + 1].fd = c
  <2> HIDE DEF c
  <2>1. pfds'[Len(pfds) + 1] = [fd |-> c, revents |-> FALSE]
    BY <1>1, <1>3, FdsAfterAdd
  <2> QED
    BY <1>1, <1>3, <2>1, FdsAfterAdd
<1>5. c \notin registered /\ c \notin Fds(pfds)
  BY <1>3 DEF TableExact
<1>6. Pending(c)
  <2>1. peer[c] \in {"connected", "joined", "eof", "reset"}
    BY <1>3, TableFacts DEF TableExact
  <2> QED
    BY <1>3, <1>5, <2>1 DEF Pending
<1>7. ToSet(backlog') \cup Fds(pfds') = ToSet(backlog) \cup Fds(pfds)
  BY <1>3, <1>4
<1>8. ToSet(backlog)' = ToSet(backlog') /\ Fds(pfds)' = Fds(pfds')
  BY DEF ToSet, Fds
<1>9. OnePending' /\ LeaversAreMembers'
  BY <1>1, <1>7, <1>8 DEF OrderInv, OnePending, LeaversAreMembers, Pending
<1>10. TablesAgree'
  <2>1. \A i \in DOMAIN pfds : pfds[i].fd \in registered
    <3>1. \A i \in DOMAIN pfds : pfds[i].fd # c
      BY <1>5, TableFacts
    <3> QED
      BY <1>3, <1>6, <3>1, OthersAreMembers
  <2>2. current_group.member_count = Len(pfds)
    BY <1>1, <2>1, AllMembers DEF OrderInv
  <2>3. Len(pfds) \in Nat /\ DOMAIN pfds = 1 .. Len(pfds)
    BY TableFacts
  <2>4. current_group'.member_count \in 0 .. Len(pfds')
    BY <1>1, <1>4, <2>2, <2>3
  <2>5. ASSUME NEW i \in 1 .. Len(pfds) + 1
        PROVE  /\ pfds'[i].fd \in registered' <=> i <= current_group'.member_count
               /\ i <= current_group'.member_count =>
                    current_group'.members[i - 1].uid = MemberOf[pfds'[i].fd].uid
    <3>1. CASE i = Len(pfds) + 1
      BY <1>1, <1>4, <1>5, <2>2, <2>3, <3>1
    <3>2. CASE i \in 1 .. Len(pfds)
      <4>1. pfds'[i] = pfds[i] /\ i \in DOMAIN pfds /\ i <= current_group.member_count
        BY <1>4, <2>2, <2>3, <3>2
      <4>2. Sender(i).uid = MemberOf[pfds[i].fd].uid
        BY <1>1, <4>1 DEF OrderInv, TablesAgree
      <4> QED
        BY <1>1, <2>1, <4>1, <4>2 DEF Sender
    <3> QED
      BY <2>3, <3>1, <3>2
  <2>6. current_group'.member_count <= MAX_GROUP_MEMBERS
    BY <1>1 DEF OrderInv, TablesAgree
  <2> QED
    BY <1>4, <2>4, <2>5, <2>6 DEF TablesAgree, Sender
<1> QED
  BY <1>9, <1>10 DEF OrderInv

\* The last connection and the last member fill the same gap.
LEMMA OrderHangup ==
  ASSUME TypeInv, TableExact, OrderInv, NEW i \in DOMAIN pfds, NEW c \in Conns,
         HandleHangup(i, c)
  PROVE  OrderInv'
<1> DEFINE n == Len(pfds)
           members == current_group.members
<1>1. /\ server = "up" /\ c = pfds[i].fd /\ peer[c] \in {"eof", "reset"}
      /\ current_group' = DropMember(current_group, i)
      /\ registered' = registered \ {c}
      /\ UNCHANGED <<peer, backlog>>
  BY DEF HandleHangup, Serving, environment
<1>2. /\ i \in 1 .. n /\ n \in Nat /\ n <= MAX_GROUP_MEMBERS
      /\ pfds' = DelFromPfds(pfds, i) /\ Len(pfds') = n - 1
      /\ DOMAIN pfds' = 1 .. n - 1
  <2>1. /\ i \in 1 .. n /\ n \in Nat /\ n <= MAX_GROUP_MEMBERS
        /\ pfds' = DelFromPfds(pfds, i) /\ Len(pfds') = n - 1
        /\ pfds' \in Seq([fd : Conns, revents : BOOLEAN])
    BY HangupFacts
  <2> QED
    BY <2>1
<1>3. Fds(pfds') = Fds(pfds) \ {c} /\ c \in Fds(pfds)
  BY <1>1, <1>2, FdsAfterDel, TableFacts
<1>4. \A k \in 1 .. n - 1 : pfds'[k] = IF k = i THEN pfds[n] ELSE pfds[k]
  <2>1. pfds \in Seq([fd : Conns, revents : BOOLEAN]) /\ i \in 1 .. Len(pfds)
    BY <1>2, TableFacts
  <2>2. \A k \in 1 .. Len(pfds) - 1 :
          DelFromPfds(pfds, i)[k] = IF k = i THEN pfds[Len(pfds)] ELSE pfds[k]
    BY <2>1, DelFromPfdsFacts
  <2> QED
    BY <1>2, <2>2
<1>5. Pending(c) /\ c \in registered
  BY <1>1, <1>3 DEF Pending, OrderInv, LeaversAreMembers
<1>6. \A k \in 1 .. n : pfds[k].fd \in registered
  <2>1. DOMAIN pfds = 1 .. n
    BY TableFacts
  <2> QED
    BY <1>5, <2>1, OthersAreMembers
<1>7. /\ current_group.member_count = n
      /\ \A k \in 1 .. n : members[k - 1].uid = MemberOf[pfds[k].fd].uid
  <2>1. DOMAIN pfds = 1 .. n
    BY TableFacts
  <2>2. current_group.member_count = n
    BY <1>1, <1>6, <2>1, AllMembers DEF OrderInv
  <2>3. \A k \in 1 .. n : k <= n
    BY <1>2
  <2> QED
    BY <1>1, <2>1, <2>2, <2>3 DEF OrderInv, TablesAgree, Sender
<1>8. /\ current_group'.member_count = n - 1
      /\ \A k \in 1 .. n - 1 :
           current_group'.members[k - 1] = IF k = i THEN members[n - 1] ELSE members[k - 1]
  <2>1. /\ current_group'.members = [members EXCEPT ![i - 1] = members[n - 1]]
        /\ current_group'.member_count = n - 1
    BY <1>1, <1>7, TableFacts DEF DropMember, Group
  <2>2. \A k \in 1 .. n - 1 : k - 1 \in 0 .. MAX_GROUP_MEMBERS - 1 /\ (k - 1 = i - 1 <=> k = i)
    <3> HIDE DEF n, members
    <3>1. PICK max \in Nat : max = MAX_GROUP_MEMBERS
      BY TableFacts
    <3>2. n \in Nat /\ i \in Nat /\ n <= max
      BY <1>2, <3>1
    <3>3. \A k \in 1 .. n - 1 : k - 1 \in 0 .. max - 1 /\ (k - 1 = i - 1 <=> k = i)
      BY <3>2
    <3> QED
      BY <3>1, <3>3
  <2> HIDE DEF members
  <2>3. members \in [0 .. MAX_GROUP_MEMBERS - 1 -> GroupMember]
    BY TableFacts DEF members
  <2> QED
    BY <2>1, <2>2, <2>3
<1>9. Fds(pfds)' = Fds(pfds') /\ ToSet(backlog)' = ToSet(backlog)
  BY <1>1 DEF Fds, ToSet
<1>10. \A d \in Conns : Pending(d)' => Pending(d)
  <2>1. c \notin ToSet(backlog)
    BY <1>3 DEF TableExact
  <2>2. ~Pending(c)'
    BY <1>1, <1>3, <1>9, <2>1 DEF Pending
  <2> QED
    BY <1>1, <1>3, <1>9, <2>2 DEF Pending
<1>11. OnePending' /\ LeaversAreMembers'
  <2>1. c \notin ToSet(backlog)
    BY <1>3 DEF TableExact
  <2> QED
    BY <1>1, <1>3, <1>9, <1>10, <2>1 DEF OrderInv, OnePending, LeaversAreMembers
<1>12. TablesAgree'
  <2>1. ASSUME NEW k \in 1 .. n - 1
        PROVE  /\ k <= n - 1
               /\ pfds'[k].fd \in registered'
               /\ current_group'.members[k - 1].uid = MemberOf[pfds'[k].fd].uid
    <3>1. k \in 1 .. n /\ n \in 1 .. n /\ k # n /\ k <= n - 1
      BY <1>2
    <3>2. k \in DOMAIN pfds'
      BY <1>2
    <3>3. pfds'[k].fd \in Fds(pfds')
      BY <3>2 DEF Fds
    <3>4. pfds'[k].fd \in registered'
      <4>1. pfds'[k].fd \in registered
        BY <1>4, <1>6, <3>1
      <4> QED
        BY <1>1, <1>3, <3>3, <4>1
    <3>5. current_group'.members[k - 1].uid = MemberOf[pfds'[k].fd].uid
      BY <1>4, <1>7, <1>8, <3>1
    <3> QED
      BY <3>1, <3>4, <3>5
  <2>2. n - 1 \in 0 .. n - 1 /\ n - 1 <= MAX_GROUP_MEMBERS
    BY <1>2, TableFacts
  <2> QED
    BY <1>2, <1>8, <2>1, <2>2 DEF TablesAgree, Sender
<1> QED
  BY <1>11, <1>12 DEF OrderInv

\* A new member is stored behind all others, at the index of its connection.
LEMMA OrderInitMember ==
  ASSUME TypeInv, TableExact, IntroducedOnce, OrderInv,
         NEW i \in DOMAIN pfds, NEW c \in Conns, HandleInitMember(i, c)
  PROVE  OrderInv'
<1> DEFINE n == Len(pfds)
           members == current_group.members
<1>1. /\ server = "up" /\ c = pfds[i].fd
      /\ inbox[c] # <<>> /\ Head(inbox[c]).type = "LMP_GRP_INIT_MEMBER"
      /\ current_group' = StoreMember(current_group, MemberOf[c])
      /\ current_group.member_count \in -1 .. MAX_GROUP_MEMBERS - 1
      /\ registered' = registered \cup {c}
      /\ UNCHANGED <<peer, backlog, pfds>>
  BY DEF HandleInitMember, Receive, Serving, table
<1>2. n \in Nat /\ DOMAIN pfds = 1 .. n /\ i \in 1 .. n /\ c \in Fds(pfds)
  BY <1>1, TableFacts
<1>3. c \notin registered
  <2>1. 1 \in DOMAIN inbox[c] /\ inbox[c][1].type = "LMP_GRP_INIT_MEMBER"
    BY <1>1, TableFacts
  <2> QED
    BY <2>1 DEF IntroducedOnce
<1>4. peer[c] \in {"connected", "joined"} /\ Pending(c)
  <2>1. peer[c] \in {"connected", "joined", "eof", "reset"}
    BY <1>2, TableFacts DEF TableExact
  <2> QED
    BY <1>2, <1>3, <2>1 DEF Pending, OrderInv, LeaversAreMembers
<1>5. \A k \in 1 .. n : k # i => pfds[k].fd \in registered
  <2>1. \A k \in 1 .. n : k # i => pfds[k].fd # c
    BY <1>1, <1>2 DEF TableExact
  <2> QED
    BY <1>2, <1>4, <2>1, OthersAreMembers
<1>6. TablesAgree
  BY <1>1 DEF OrderInv
<1>7. current_group.member_count = i - 1 /\ i = n
  <2>1. current_group.member_count \in 0 .. n /\ ~(i <= current_group.member_count)
    BY <1>1, <1>2, <1>3, <1>6 DEF TablesAgree
  <2>2. i # n => n <= current_group.member_count
    <3>1. n \in 1 .. n
      BY <1>2
    <3> QED
      BY <1>2, <1>5, <1>6, <3>1 DEF TablesAgree
  <2>3. i = n
    BY <1>2, <2>1, <2>2
  <2>4. n - 1 \in 1 .. n => n - 1 <= current_group.member_count
    <3> SUFFICES ASSUME n - 1 \in 1 .. n
                 PROVE  n - 1 <= current_group.member_count
      OBVIOUS
    <3>1. n - 1 # i
      <4> HIDE DEF n
      <4> QED
        BY <1>2, <2>3
    <3>2. n - 1 \in DOMAIN pfds /\ pfds[n - 1].fd \in registered
      BY <1>2, <1>5, <3>1
    <3> QED
      BY <1>6, <3>2 DEF TablesAgree
  <2>5. n - 1 \in 1 .. n \/ n = 1
    BY <1>2
  <2> QED
    BY <1>2, <2>1, <2>3, <2>4, <2>5
<1>8. /\ current_group'.member_count = n
      /\ current_group'.members[n - 1] = MemberOf[c]
      /\ \A k \in 1 .. n - 1 : current_group'.members[k - 1] = members[k - 1]
  <2>1. current_group.member_count # -1 /\ n - 1 \in 0 .. MAX_GROUP_MEMBERS - 1
    BY <1>1, <1>2, <1>7, TableFacts
  <2>2. /\ current_group'.members = [members EXCEPT ![n - 1] = MemberOf[c]]
        /\ current_group'.member_count = n
    <3>1. current_group' = [current_group EXCEPT !.members = [members EXCEPT ![n - 1] = MemberOf[c]],
                                                 !.member_count = n - 1 + 1]
      BY <1>1, <1>7, <2>1 DEF StoreMember
    <3>2. n - 1 + 1 = n
      BY <1>2
    <3> HIDE DEF n
    <3> QED
      BY <3>1, <3>2, TableFacts DEF Group
  <2>3. \A k \in 1 .. n - 1 : k - 1 \in 0 .. MAX_GROUP_MEMBERS - 1 /\ k - 1 # n - 1
    <3> HIDE DEF n
    <3> QED
      BY <1>2, <2>1, TableFacts
  <2> HIDE DEF members
  <2>4. members \in [0 .. MAX_GROUP_MEMBERS - 1 -> GroupMember]
    BY TableFacts DEF members
  <2> QED
    BY <2>1, <2>2, <2>3, <2>4
<1>9. Fds(pfds)' = Fds(pfds) /\ ToSet(backlog)' = ToSet(backlog)
  BY <1>1 DEF Fds, ToSet
<1>10. OnePending' /\ LeaversAreMembers'
  <2>1. \A d \in Conns : Pending(d)' => Pending(d)
    BY <1>1, <1>9 DEF Pending
  <2> QED
    BY <1>1, <1>9, <2>1 DEF OrderInv, OnePending, LeaversAreMembers
<1>11. TablesAgree'
  <2>1. ASSUME NEW k \in 1 .. n
        PROVE  /\ k <= n
               /\ pfds[k].fd \in registered'
               /\ current_group'.members[k - 1].uid = MemberOf[pfds[k].fd].uid
    <3>1. CASE k = n
      <4>1. pfds[k].fd = c /\ k <= n
        BY <1>1, <1>2, <1>7, <3>1
      <4>2. current_group'.members[k - 1] = MemberOf[c]
        BY <1>8, <3>1
      <4>3. c \in registered'
        BY <1>1
      <4> HIDE DEF n
      <4> QED
        BY <4>1, <4>2, <4>3
    <3>2. CASE k # n
      <4>1. k \in 1 .. n - 1 /\ k <= current_group.member_count /\ k <= n
        <5> HIDE DEF n
        <5> QED
          BY <1>2, <1>7, <3>2
      <4>2. members[k - 1].uid = MemberOf[pfds[k].fd].uid
        BY <1>2, <1>6, <4>1 DEF TablesAgree, Sender
      <4> QED
        BY <1>1, <1>5, <1>7, <1>8, <3>2, <4>1, <4>2
    <3> QED
      BY <3>1, <3>2
  <2>2. n \in 0 .. n /\ n <= MAX_GROUP_MEMBERS
    BY <1>1, <1>2, <1>7, TableFacts
  <2> QED
    BY <1>1, <1>2, <1>8, <2>1, <2>2 DEF TablesAgree, Sender
<1> QED
  BY <1>10, <1>11 DEF OrderInv

\* Every other handler leaves both tables alone, but for a nickname.
LEMMA OtherHandlersKeepTables ==
  ASSUME TypeInv, NEW i \in DOMAIN pfds, NEW c \in Conns, HandleClientData(i, c),
         ~HandleHangup(i, c), ~HandleInitMember(i, c)
  PROVE  /\ UNCHANGED <<peer, backlog, pfds, registered>>
         /\ current_group'.member_count = current_group.member_count
         /\ \A k \in 0 .. MAX_GROUP_MEMBERS - 1 :
              current_group'.members[k].uid = current_group.members[k].uid
         /\ server' = "up" => server = "up"
<1>1. CASE HandleNick(i, c)
  <2>1. /\ UNCHANGED <<peer, backlog, pfds, registered>> /\ server = "up"
        /\ current_group' = [current_group EXCEPT !.members[i - 1].nickname = Head(inbox[c]).text]
        /\ InMembers(i)
    BY <1>1 DEF HandleNick, Receive, Serving, table
  <2>2. i - 1 \in 0 .. MAX_GROUP_MEMBERS - 1
    BY <2>1, SenderType
  <2>3. /\ current_group'.member_count = current_group.member_count
        /\ current_group'.members =
             [current_group.members EXCEPT
                ![i - 1] = [current_group.members[i - 1] EXCEPT !.nickname = Head(inbox[c]).text]]
    BY <2>1, TableFacts DEF Group
  <2>4. [current_group.members[i - 1] EXCEPT !.nickname = Head(inbox[c]).text].uid
          = current_group.members[i - 1].uid
    BY <2>2, TableFacts DEF GroupMember
  <2>5. \A k \in 0 .. MAX_GROUP_MEMBERS - 1 :
          current_group'.members[k].uid = current_group.members[k].uid
    BY <2>2, <2>3, <2>4, TableFacts
  <2> QED
    BY <2>1, <2>3, <2>5
<1>2. CASE HandleOutOfBounds(i, c)
  BY <1>2 DEF HandleOutOfBounds, environment, table
<1>3. CASE HandleLoadMsg(i, c) \/ HandleGuessRefused(i, c) \/ HandleGuess(i, c)
  BY <1>3 DEF HandleLoadMsg, HandleGuessRefused, HandleGuess, Receive, Serving, table
<1>4. CASE HandleMsg(i, c) \/ HandleDefault(i, c)
  BY <1>4 DEF HandleMsg, HandleDefault, Receive, Serving, table
<1>5. CASE \/ HandleHangmanStart(i, c) \/ HandleHangmanStartAgain(i, c)
           \/ HandleHangmanExit(i, c) \/ HandleHangmanJoin(i, c)
           \/ HandleHangmanJoinNoGame(i, c)
  BY <1>5 DEF HandleHangmanStart, HandleHangmanStartAgain, HandleHangmanExit, HandleHangmanJoin,
              HandleHangmanJoinNoGame, HangmanFrame, Receive, Serving, table
<1> QED
  BY <1>1, <1>2, <1>3, <1>4, <1>5 DEF HandleClientData

LEMMA OrderOtherHandlers ==
  ASSUME TypeInv, OrderInv, NEW i \in DOMAIN pfds, NEW c \in Conns, HandleClientData(i, c),
         ~HandleHangup(i, c), ~HandleInitMember(i, c)
  PROVE  OrderInv'
<1>1. /\ UNCHANGED <<peer, backlog, pfds, registered>>
      /\ current_group'.member_count = current_group.member_count
      /\ \A k \in 0 .. MAX_GROUP_MEMBERS - 1 :
           current_group'.members[k].uid = current_group.members[k].uid
      /\ server' = "up" => server = "up"
  BY OtherHandlersKeepTables
<1>2. Fds(pfds)' = Fds(pfds) /\ ToSet(backlog)' = ToSet(backlog)
  BY <1>1 DEF Fds, ToSet
<1>3. OnePending' /\ LeaversAreMembers'
  BY <1>1, <1>2 DEF OrderInv, OnePending, LeaversAreMembers, Pending
<1>4. ASSUME TablesAgree, NEW k \in DOMAIN pfds, k <= current_group.member_count
      PROVE  current_group'.members[k - 1].uid = current_group.members[k - 1].uid
  <2>1. k - 1 \in 0 .. MAX_GROUP_MEMBERS - 1
    <3>1. PICK max \in Nat : max = MAX_GROUP_MEMBERS
      BY TableFacts
    <3>2. PICK total \in Nat : total = Len(pfds) /\ DOMAIN pfds = 1 .. total
      BY TableFacts
    <3>3. PICK count \in 0 .. total : count = current_group.member_count
      BY <1>4, <3>2 DEF TablesAgree
    <3>4. k \in 1 .. total /\ k <= count /\ count <= max
      BY <1>4, <3>1, <3>2, <3>3 DEF TablesAgree
    <3>5. k - 1 \in 0 .. max - 1
      BY <3>4
    <3> QED
      BY <3>1, <3>5
  <2> QED
    BY <1>1, <2>1
<1>5. TablesAgree => TablesAgree'
  BY <1>1, <1>4 DEF TablesAgree, Sender
<1> QED
  BY <1>1, <1>3, <1>5 DEF OrderInv

LEMMA OrderInvStep ==
  ASSUME OrderlyMembership = TRUE, TypeInv, TableExact, IntroducedOnce, OrderInv, [Next]_vars
  PROVE  OrderInv'
<1>1. CASE UNCHANGED vars
  BY <1>1 DEF vars, environment, table, OrderInv, OnePending, LeaversAreMembers, Pending,
              TablesAgree, Sender, Fds, ToSet
<1>2. ASSUME NEW i \in DOMAIN pfds, NEW c \in Conns, HandleClientData(i, c)
      PROVE  OrderInv'
  BY <1>2, OrderHangup, OrderInitMember, OrderOtherHandlers
<1> QED
  BY <1>1, <1>2, OrderClient, OrderPoll, OrderNewConnection DEF Next, Server

LEMMA OrderInvInit ==
  ASSUME Init
  PROVE  OrderInv
<1>1. /\ pfds = <<>> /\ backlog = <<>> /\ peer = [c \in Conns |-> "idle"]
      /\ current_group.member_count = 0 /\ registered = {}
  BY DEF Init, ZeroGroup
<1>2. Len(pfds) = 0 /\ DOMAIN pfds = {} /\ 0 <= MAX_GROUP_MEMBERS
  <2>1. MAX_GROUP_MEMBERS \in Nat
    BY GroupAssumption
  <2> QED
    BY <1>1, <2>1
<1>3. \A c \in Conns : ~Pending(c)
  BY <1>1 DEF Pending
<1>4. LeaversAreMembers
  BY <1>1 DEF LeaversAreMembers
<1>5. TablesAgree
  BY <1>1, <1>2 DEF TablesAgree
<1> QED
  BY <1>3, <1>4, <1>5 DEF OrderInv, OnePending

LEMMA OrderInvariant ==
  ASSUME OrderlyMembership = TRUE
  PROVE  Spec => [](TypeInv /\ TableExact /\ IntroducedOnce /\ OrderInv)
<1>1. TypeInv /\ TableExact /\ IntroducedOnce /\ OrderInv /\ [Next]_vars => OrderInv'
  BY OrderInvStep
<1>2. Spec => []IntroducedOnce
  BY IntroducedOnceInit, IntroducedOnceStep, GroupTypeInvariant, PTL DEF Spec
<1> QED
  BY <1>1, <1>2, OrderInvInit, GroupTypeInvariant, TableStaysExact, PTL DEF Spec

\* While joins and departures do not overlap, the member data at index i - 1
\* are those of the connection at index i, whoever joins, leaves, is killed or
\* takes a nickname in whatever order.
THEOREM MembersStayMatched ==
  ASSUME OrderlyMembership = TRUE
  PROVE  Spec => []MembersMatchConnections
<1>1. OrderInv => MembersMatchConnections
  BY DEF OrderInv, TablesAgree, MembersMatchConnections
<1> QED
  BY <1>1, OrderInvariant, PTL

-----------------------------------------------------------------------------
(* What the server sends and saves through the agreement of the two tables. *)

\* What a connection that is not registered yet can have written begins with
\* its introduction.
IntroducedFirst ==
  \A c \in Conns :
    c \notin registered =>
      /\ peer[c] = "joined" => inbox[c] # <<>>
      /\ inbox[c] # <<>> => Head(inbox[c]).type = "LMP_GRP_INIT_MEMBER"

LEMMA IntroducedFirstStep ==
  ASSUME TypeInv, IntroducedOnce, IntroducedFirst, [Next]_vars
  PROVE  IntroducedFirst'
<1>1. /\ peer \in [Conns -> {"idle", "connected", "joined", "eof", "reset"}]
      /\ inbox \in [Conns -> Seq(Frame)]
  BY TableFacts
<1>2. CASE Client
  <2> PICK c \in Conns : Connect(c) \/ Introduce(c) \/ Type(c) \/ Leave(c) \/ Die(c)
    BY <1>2 DEF Client
  <2>1. registered' = registered
    BY DEF Connect, Introduce, Type, Leave, Die
  <2>2. CASE Connect(c) \/ Leave(c)
    BY <1>1, <2>1, <2>2 DEF Connect, Leave, IntroducedFirst
  <2>3. CASE Introduce(c)
    <3>1. inbox[c] = <<>>
      BY <2>3 DEF Introduce, IntroducedOnce
    <3>2. inbox' = [inbox EXCEPT ![c] = <<InitFrame>>] /\ peer' = [peer EXCEPT ![c] = "joined"]
      BY <2>3, <3>1 DEF Introduce
    <3>3. Head(<<InitFrame>>) = InitFrame /\ <<InitFrame>> # <<>>
      OBVIOUS
    <3>4. InitFrame.type = "LMP_GRP_INIT_MEMBER"
      BY DEF InitFrame
    <3> QED
      BY <1>1, <2>1, <3>2, <3>3, <3>4 DEF IntroducedFirst
  <2>4. CASE Type(c)
    <3>1. PICK frame \in Frame : inbox' = [inbox EXCEPT ![c] = Append(@, frame)]
      BY <2>4 DEF Type, Frame
    <3>2. peer' = peer /\ peer[c] = "joined"
      BY <2>4 DEF Type
    <3>3. inbox[c] \in Seq(Frame)
      BY <1>1
    <3>4. Append(inbox[c], frame) # <<>>
      BY <3>3
    <3>5. inbox[c] # <<>> => Head(Append(inbox[c], frame)) = Head(inbox[c])
      BY <3>3
    <3> QED
      BY <1>1, <2>1, <3>1, <3>2, <3>4, <3>5 DEF IntroducedFirst
  <2>5. CASE Die(c)
    BY <1>1, <2>1, <2>5 DEF Die, IntroducedFirst
  <2> QED
    BY <2>2, <2>3, <2>4, <2>5
<1>3. CASE Poll \/ HandleNewConnection \/ UNCHANGED vars
  BY <1>3, CountOthers DEF IntroducedFirst
<1>4. ASSUME NEW i \in DOMAIN pfds, NEW c \in Conns, HandleClientData(i, c)
      PROVE  IntroducedFirst'
  <2>1. peer' = peer
    BY <1>4, CountKinds
  <2>2. CASE HandleHangup(i, c)
    <3>1. inbox' = inbox /\ registered' = registered \ {c}
      BY <2>2 DEF HandleHangup, environment
    <3>2. inbox[c] = <<>> /\ peer[c] \in {"eof", "reset"}
      BY <2>2 DEF HandleHangup
    <3> QED
      BY <2>1, <3>1, <3>2 DEF IntroducedFirst
  <2>3. CASE /\ inbox[c] # <<>> /\ inbox' = [inbox EXCEPT ![c] = Tail(@)]
             /\ \/ registered' = registered \cup {c}
                \/ registered' = registered /\ Head(inbox[c]).type # "LMP_GRP_INIT_MEMBER"
    <3>1. c \in registered' /\ registered \subseteq registered'
      BY <2>3 DEF IntroducedFirst
    <3> QED
      BY <1>1, <2>1, <2>3, <3>1 DEF IntroducedFirst
  <2>4. CASE UNCHANGED <<inbox, registered>>
    BY <2>1, <2>4 DEF IntroducedFirst
  <2> QED
    BY <1>4, <2>2, <2>3, <2>4, CountKinds
<1> QED
  BY <1>2, <1>3, <1>4 DEF Next, Server

LEMMA IntroducedFirstInit ==
  ASSUME Init
  PROVE  IntroducedFirst
  BY DEF Init, IntroducedFirst

\* All of them together.
ServedInv ==
  /\ TypeInv
  /\ TableExact
  /\ IntroducedOnce
  /\ IntroducedFirst
  /\ OrderInv
  /\ PlayersInv

LEMMA ServedInvariant ==
  ASSUME OrderlyMembership = TRUE
  PROVE  Spec => []ServedInv
<1>1. TypeInv /\ IntroducedOnce /\ IntroducedFirst /\ [Next]_vars => IntroducedFirst'
  BY IntroducedFirstStep
<1>2. TypeInv /\ TableExact /\ IntroducedOnce /\ IntroducedFirst /\ OrderInv /\ PlayersInv
        => ServedInv
  BY DEF ServedInv
<1> QED
  BY <1>1, <1>2, IntroducedFirstInit, OrderInvariant, PlayersInvariant, PTL DEF Spec

\* The sender of anything but an introduction is a member, at the index
\* before its connection's, under the UID it introduced itself with.
LEMMA SenderIsMember ==
  ASSUME ServedInv, NEW i \in DOMAIN pfds, NEW c \in Conns, NEW type, Receive(i, c, type),
         type # "LMP_GRP_INIT_MEMBER"
  PROVE  /\ c \in registered
         /\ c = pfds[i].fd
         /\ i \in 1 .. current_group.member_count
         /\ Sender(i).uid = MemberOf[c].uid
         /\ MemberOf[c].uid # ""
<1>1. server = "up" /\ c = pfds[i].fd /\ inbox[c] # <<>> /\ Head(inbox[c]).type = type
  BY DEF Receive, Serving
<1>2. c \in registered
  BY <1>1 DEF ServedInv, IntroducedFirst
<1>3. i \in 1 .. Len(pfds)
  BY TableFacts DEF ServedInv
<1>4. i <= current_group.member_count /\ Sender(i).uid = MemberOf[c].uid
  BY <1>1, <1>2 DEF ServedInv, OrderInv, TablesAgree
<1>5. i \in 1 .. current_group.member_count
  BY <1>3, <1>4, TableFacts DEF ServedInv
<1>6. MemberOf[c].uid # ""
  BY GroupAssumption
<1> QED
  BY <1>1, <1>2, <1>4, <1>5, <1>6

\* The frames of an answer and of a relay.
LEMMA AnswerFacts ==
  ASSUME NEW recipients, NEW c, NEW type, NEW text,
         NEW f \in Answer(recipients, c, type, text)
  PROVE  f.type = type /\ f.text = text /\ f.to \in recipients
<1>1. PICK d \in recipients : f = [to |-> d, type |-> type, from |-> c, index |-> 0,
                                  uid |-> "", text |-> text]
  BY DEF Answer
<1> QED
  BY <1>1

LEMMA RelayedFacts ==
  ASSUME NEW recipients, NEW c, NEW index, NEW frame,
         NEW f \in Relayed(recipients, c, index, frame)
  PROVE  /\ f.index = index /\ f.from = c /\ f.to \in recipients
         /\ f.type = frame.type /\ f.text = frame.text
<1>1. PICK d \in recipients : f = [to |-> d, type |-> frame.type, from |-> c, index |-> index,
                                  uid |-> "", text |-> frame.text]
  BY DEF Relayed
<1> QED
  BY <1>1

\* The lines of a history and the frame that ends them.
LEMMA LoadFrames ==
  ASSUME NEW i, NEW c, HandleLoadMsg(i, c)
  PROVE  \A frame \in sent' : frame.type \in {"LMP_GRP_LOADING_MSG", "LMP_GRP_LOAD_MSG"}
<1> DEFINE ToLine(line) == [to |-> c, type |-> "LMP_GRP_LOADING_MSG", from |-> c, index |-> 0,
                            uid |-> line.uid, text |-> line.text]
<1>1. \A line : ToLine(line).type = "LMP_GRP_LOADING_MSG"
  OBVIOUS
<1>2. PICK recipients, text :
        \E lines : sent' = {ToLine(line) : line \in lines}
                             \cup Answer(recipients, c, "LMP_GRP_LOAD_MSG", text)
  <2>1. \E lines \in ReadableLines :
          sent' = {ToLine(line) : line \in lines} \cup Answer({c}, c, "LMP_GRP_LOAD_MSG", "")
    BY DEF HandleLoadMsg
  <2> HIDE DEF ToLine
  <2> QED
    BY <2>1, Zenon
<1> HIDE DEF ToLine
<1>3. \A frame \in Answer(recipients, c, "LMP_GRP_LOAD_MSG", text) : frame.type = "LMP_GRP_LOAD_MSG"
  BY AnswerFacts
<1> QED
  BY <1>1, <1>2, <1>3

\* The server's frames about the game.
LEMMA GameFrames ==
  ASSUME NEW i, NEW c,
         \/ HandleHangmanStart(i, c) \/ HandleHangmanStartAgain(i, c)
         \/ HandleHangmanExit(i, c) \/ HandleHangmanJoin(i, c)
         \/ HandleGuessRefused(i, c) \/ HandleGuess(i, c)
  PROVE  \A frame \in sent' : frame.type = "LMP_GRP_HANGMAN"
<1>1. CASE HandleHangmanStart(i, c)
  <2>1. \E starter, others :
          sent' = Answer(starter, c, "LMP_GRP_HANGMAN", "welcome")
                    \cup Answer(others, c, "LMP_GRP_HANGMAN", "announcement")
    BY <1>1 DEF HandleHangmanStart
  <2> QED
    BY <2>1, AnswerFacts
<1>2. CASE ~HandleHangmanStart(i, c)
  <2>1. \E recipients, text : sent' = Answer(recipients, c, "LMP_GRP_HANGMAN", text)
    BY <1>2 DEF HandleHangmanStartAgain, HandleHangmanExit, HandleHangmanJoin,
                HandleGuessRefused, HandleGuess
  <2> QED
    BY <2>1, AnswerFacts
<1> QED
  BY <1>1, <1>2

\* What a handler writes: frames of the server's own, or those it relays.
LEMMA WrittenFrames ==
  ASSUME NEW i \in DOMAIN pfds, NEW c \in Conns, HandleClientData(i, c)
  PROVE  \/ \A frame \in sent' : frame.type \notin {"LMP_MSG", "LMP_STICKERS"}
         \/ HandleOutOfBounds(i, c)
         \/ /\ HandleMsg(i, c) \/ HandleDefault(i, c)
            /\ sent' = Relayed(OthersThan(c), c, i - 1, Head(inbox[c]))
<1>1. CASE HandleHangup(i, c) \/ HandleNick(i, c) \/ HandleInitMember(i, c)
           \/ HandleHangmanJoinNoGame(i, c)
  BY <1>1 DEF HandleHangup, HandleNick, HandleInitMember, HandleHangmanJoinNoGame
<1>2. CASE HandleLoadMsg(i, c)
  BY <1>2, LoadFrames
<1>3. CASE HandleGuessRefused(i, c) \/ HandleGuess(i, c)
  BY <1>3, GameFrames
<1>4. CASE \/ HandleHangmanStart(i, c) \/ HandleHangmanStartAgain(i, c)
           \/ HandleHangmanExit(i, c) \/ HandleHangmanJoin(i, c)
  BY <1>4, GameFrames
<1>5. CASE HandleMsg(i, c) \/ HandleDefault(i, c)
  BY <1>5 DEF HandleMsg, HandleDefault, Relay
<1> QED
  BY <1>1, <1>2, <1>3, <1>4, <1>5 DEF HandleClientData

\* What was written stays what it was until the server's next step.
LEMMA WrittenStays ==
  ASSUME Client \/ UNCHANGED vars
  PROVE  UNCHANGED <<sent, told, registered, history, server>>
  BY DEF Client, Connect, Introduce, Type, Leave, Die, vars

\* A connection was told of the group as it is, or of none.
ViewsOrNone == server = "up" => \A d \in Conns : told[d] \in {ZeroGroup, current_group}

LEMMA ViewsOrNoneStep ==
  ASSUME NoClientGroups, TypeInv, ViewsOrNone, [Next]_vars
  PROVE  ViewsOrNone'
<1>1. CASE Client \/ Poll \/ HandleNewConnection \/ UNCHANGED vars
  <2>1. UNCHANGED <<current_group, told, server>>
    BY <1>1 DEF Client, Connect, Introduce, Type, Leave, Die, Poll, HandleNewConnection, vars
  <2> QED
    BY <2>1 DEF ViewsOrNone
<1>2. ASSUME NEW i \in DOMAIN pfds, NEW c \in Conns, HandleClientData(i, c)
      PROVE  ViewsOrNone'
  <2>1. server = "up"
    BY <1>2 DEF HandleClientData, HandleHangup, HandleNick, HandleInitMember, HandleLoadMsg,
                HandleGuessRefused, HandleGuess, HandleMsg, HandleDefault, HandleHangmanStart,
                HandleHangmanStartAgain, HandleHangmanExit, HandleHangmanJoin,
                HandleHangmanJoinNoGame, HangmanFrame, HandleOutOfBounds, Receive, Serving
  <2>2. CASE UNCHANGED <<current_group, told>>
    BY <2>1, <2>2 DEF ViewsOrNone
  <2>3. CASE HandleHangup(i, c) \/ HandleNick(i, c) \/ HandleInitMember(i, c)
    <3>1. PICK entries : SendNewGroupToUsers(entries, current_group')
      BY <2>3 DEF HandleHangup, HandleNick, HandleInitMember
    <3> QED
      BY <3>1 DEF SendNewGroupToUsers, ViewsOrNone
  <2>4. CASE HandleMsg(i, c) \/ HandleDefault(i, c)
    <3>1. PICK type \in {"LMP_MSG", "LMP_GRP_OBJ", "LMP_STICKERS"} : Receive(i, c, type)
      BY <2>4 DEF HandleMsg, HandleDefault
    <3>2. Head(inbox[c]) \in Commands
      BY <3>1, ReceiveFacts, TypedText DEF TypeInv
    <3>3. UNCHANGED <<current_group, told>>
      BY <2>4, <3>2 DEF NoClientGroups, HandleMsg, HandleDefault, Relay, ToldByRelay
    <3> QED
      BY <2>2, <3>3
  <2>5. CASE \/ HandleLoadMsg(i, c) \/ HandleGuessRefused(i, c) \/ HandleGuess(i, c)
             \/ HandleHangmanStart(i, c) \/ HandleHangmanStartAgain(i, c)
             \/ HandleHangmanExit(i, c) \/ HandleHangmanJoin(i, c)
             \/ HandleHangmanJoinNoGame(i, c) \/ HandleOutOfBounds(i, c)
    <3>1. UNCHANGED <<current_group, told>>
      BY <2>5 DEF HandleLoadMsg, HandleGuessRefused, HandleGuess, HandleHangmanStart,
                  HandleHangmanStartAgain, HandleHangmanExit, HandleHangmanJoin,
                  HandleHangmanJoinNoGame, HangmanFrame, HandleOutOfBounds
    <3> QED
      BY <2>2, <3>1
  <2> QED
    BY <1>2, <2>3, <2>4, <2>5 DEF HandleClientData
<1> QED
  BY <1>1, <1>2 DEF Next, Server

LEMMA RelaysStep ==
  ASSUME NoClientGroups, ServedInv, ViewsUpToDate, ViewsOrNone, RelaysAttributed, [Next]_vars
  PROVE  RelaysAttributed'
<1>1. CASE Client \/ UNCHANGED vars
  BY <1>1, WrittenStays DEF RelaysAttributed
<1>2. CASE Poll \/ HandleNewConnection
  BY <1>2 DEF Poll, HandleNewConnection, RelaysAttributed
<1>3. ASSUME NEW i \in DOMAIN pfds, NEW c \in Conns, HandleClientData(i, c)
      PROVE  RelaysAttributed'
  <2>1. CASE \/ \A frame \in sent' : frame.type \notin {"LMP_MSG", "LMP_STICKERS"}
             \/ HandleOutOfBounds(i, c)
    BY <2>1 DEF RelaysAttributed, HandleOutOfBounds
  <2>2. CASE /\ HandleMsg(i, c) \/ HandleDefault(i, c)
             /\ sent' = Relayed(OthersThan(c), c, i - 1, Head(inbox[c]))
    <3>1. PICK type \in {"LMP_MSG", "LMP_GRP_OBJ", "LMP_STICKERS"} : Receive(i, c, type)
      BY <2>2 DEF HandleMsg, HandleDefault
    <3>2. Head(inbox[c]) \in Frame /\ Head(inbox[c]).type = type
      BY <3>1, ReceiveFacts DEF ServedInv, TypeInv
    <3>3. Head(inbox[c]) \in Commands
      BY <3>1, <3>2, TypedText
    <3>4. Head(inbox[c]).type # "LMP_GRP_OBJ"
      BY <3>3 DEF NoClientGroups
    <3>5. UNCHANGED <<registered, current_group, told>> /\ server = "up"
      BY <2>2, <3>1, <3>4 DEF HandleMsg, HandleDefault, Relay, ToldByRelay, Receive, Serving
    <3>6. \A d \in Conns : told[d] = current_group \/ (told[d] = ZeroGroup /\ d \notin registered)
      BY <3>5 DEF ViewsUpToDate, ViewsOrNone
    <3>7. /\ i - 1 < current_group.member_count
          /\ current_group.members[i - 1].uid = MemberOf[c].uid
      <4>1. /\ i \in 1 .. current_group.member_count
            /\ Sender(i).uid = MemberOf[c].uid
        BY <3>1, SenderIsMember
      <4>2. current_group.member_count \in Int
        BY TableFacts DEF ServedInv
      <4> QED
        BY <4>1, <4>2 DEF Sender
    <3>8. \A frame \in sent' : frame.index = i - 1 /\ frame.from = c /\ frame.to \in Conns
      <4>1. OthersThan(c) \subseteq Conns
        BY TableFacts DEF OthersThan, Fds, ServedInv
      <4> QED
        BY <2>2, <4>1, RelayedFacts
    <3>9. ASSUME NEW frame \in sent'
          PROVE  \/ /\ frame.index < told[frame.to].member_count
                    /\ told[frame.to].members[frame.index].uid = MemberOf[frame.from].uid
                 \/ frame.to \notin registered /\ told[frame.to] = ZeroGroup
      BY <3>6, <3>7, <3>8
    <3> QED
      BY <3>5, <3>9 DEF RelaysAttributed
  <2> QED
    BY <1>3, <2>1, <2>2, WrittenFrames
<1> QED
  BY <1>1, <1>2, <1>3 DEF Next, Server

\* A relayed message or sticker shows up as its author's with everybody who
\* was told of the group, and under no name with a connection that was not yet,
\* if no client sends group objects and joins and departures do not overlap.
THEOREM RelaysStayAttributed ==
  ASSUME OrderlyMembership = TRUE, NoClientGroups
  PROVE  Spec => []RelaysAttributed
<1>1. Init => RelaysAttributed /\ ViewsOrNone
  BY DEF Init, RelaysAttributed, ViewsOrNone
<1>2. ServedInv /\ ViewsUpToDate /\ ViewsOrNone /\ RelaysAttributed /\ [Next]_vars
        => RelaysAttributed'
  BY RelaysStep
<1>3. ServedInv /\ ViewsOrNone /\ [Next]_vars => ViewsOrNone'
  BY ViewsOrNoneStep DEF ServedInv
<1> QED
  BY <1>1, <1>2, <1>3, ServedInvariant, ViewsStayUpToDate, PTL DEF Spec

LEMMA HistoryStep ==
  ASSUME HistoryFileMayFail = FALSE, ServedInv, RelayedIsInHistory, [Next]_vars
  PROVE  RelayedIsInHistory'
<1>1. CASE Client \/ UNCHANGED vars
  BY <1>1, WrittenStays DEF RelayedIsInHistory
<1>2. CASE Poll \/ HandleNewConnection
  BY <1>2 DEF Poll, HandleNewConnection, RelayedIsInHistory
<1>3. ASSUME NEW i \in DOMAIN pfds, NEW c \in Conns, HandleClientData(i, c)
      PROVE  RelayedIsInHistory'
  <2>1. CASE \/ \A frame \in sent' : frame.type \notin {"LMP_MSG", "LMP_STICKERS"}
             \/ HandleOutOfBounds(i, c)
    BY <2>1 DEF RelayedIsInHistory, HandleOutOfBounds
  <2>2. CASE HandleMsg(i, c) /\ sent' = Relayed(OthersThan(c), c, i - 1, Head(inbox[c]))
    <3>1. Receive(i, c, "LMP_MSG")
      BY <2>2 DEF HandleMsg
    <3>2. Sender(i).uid = MemberOf[c].uid /\ MemberOf[c].uid # ""
      BY <3>1, SenderIsMember
    <3>3. [uid |-> MemberOf[c].uid, text |-> Head(inbox[c]).text] \in history'
      BY <2>2, <3>2 DEF HandleMsg, SaveMessageToHistory
    <3>4. \A frame \in sent' : frame.from = c /\ frame.text = Head(inbox[c]).text
      BY <2>2, RelayedFacts
    <3> QED
      BY <3>3, <3>4 DEF RelayedIsInHistory
  <2>3. CASE HandleDefault(i, c) /\ sent' = Relayed(OthersThan(c), c, i - 1, Head(inbox[c]))
    <3>1. Head(inbox[c]).type \in {"LMP_GRP_OBJ", "LMP_STICKERS"}
      BY <2>3 DEF HandleDefault, Receive
    <3>2. \A frame \in sent' : frame.type = Head(inbox[c]).type
      BY <2>3, RelayedFacts
    <3> QED
      BY <3>1, <3>2 DEF RelayedIsInHistory
  <2> QED
    BY <1>3, <2>1, <2>2, <2>3, WrittenFrames
<1> QED
  BY <1>1, <1>2, <1>3 DEF Next, Server

\* Whoever may have received a message can load it, under its author's UID,
\* even if the server died while it relayed it, as long as the history file
\* can be opened.
THEOREM RelayedStaysInHistory ==
  ASSUME OrderlyMembership = TRUE, HistoryFileMayFail = FALSE
  PROVE  Spec => []RelayedIsInHistory
<1>1. Init => RelayedIsInHistory
  BY DEF Init, RelayedIsInHistory
<1>2. ServedInv /\ RelayedIsInHistory /\ [Next]_vars => RelayedIsInHistory'
  BY HistoryStep
<1> QED
  BY <1>1, <1>2, ServedInvariant, PTL DEF Spec

\* The history grows by messages only, and what that says of the step.
LEMMA HistoryGrows ==
  ASSUME ServedInv, [Next]_vars, history' # history
  PROVE  \E i \in DOMAIN pfds, c \in Conns : HandleMsg(i, c)
<1>1. ~(Client \/ Poll \/ HandleNewConnection \/ UNCHANGED vars)
  BY DEF Client, Connect, Introduce, Type, Leave, Die, Poll, HandleNewConnection, vars
<1>2. PICK i \in DOMAIN pfds, c \in Conns : HandleClientData(i, c)
  BY <1>1 DEF Next, Server
<1>3. ~(\/ HandleHangup(i, c) \/ HandleNick(i, c) \/ HandleInitMember(i, c)
        \/ HandleLoadMsg(i, c) \/ HandleGuessRefused(i, c) \/ HandleGuess(i, c)
        \/ HandleDefault(i, c) \/ HandleOutOfBounds(i, c))
  BY DEF HandleHangup, HandleNick, HandleInitMember, HandleLoadMsg, HandleGuessRefused,
         HandleGuess, HandleDefault, HandleOutOfBounds
<1>4. ~(\/ HandleHangmanStart(i, c) \/ HandleHangmanStartAgain(i, c) \/ HandleHangmanExit(i, c)
        \/ HandleHangmanJoin(i, c) \/ HandleHangmanJoinNoGame(i, c))
  BY DEF HandleHangmanStart, HandleHangmanStartAgain, HandleHangmanExit, HandleHangmanJoin,
         HandleHangmanJoinNoGame, HangmanFrame
<1> QED
  BY <1>2, <1>3, <1>4 DEF HandleClientData

\* Who a relay goes to.
LEMMA RelayReaches ==
  ASSUME NEW recipients, NEW c, NEW index, NEW frame
  PROVE  {f.to : f \in Relayed(recipients, c, index, frame)} = recipients
<1> DEFINE ToOne(d) == [to |-> d, type |-> frame.type, from |-> c, index |-> index, uid |-> "",
                        text |-> frame.text]
<1>1. \A d : ToOne(d).to = d
  OBVIOUS
<1>2. Relayed(recipients, c, index, frame) = {ToOne(d) : d \in recipients}
  BY DEF Relayed
<1> HIDE DEF ToOne
<1> QED
  BY <1>1, <1>2

\* Whether the history file can be opened or not, nothing gets into it but
\* what a member said to the group, under its own UID; a guess never does.
THEOREM HistoryIsTheConversation ==
  ASSUME OrderlyMembership = TRUE
  PROVE  Spec => HistoryIsWhatWasSaid
<1>1. ASSUME ServedInv, [Next]_vars, history' # history
      PROVE  \E c \in registered :
               /\ MessageRead(c) /\ ~GuessRead(c)
               /\ history' = history \cup {[uid |-> MemberOf[c].uid, text |-> Head(inbox[c]).text]}
               /\ {frame.to : frame \in sent'} = Fds(pfds) \ {c}
  <2>1. PICK i \in DOMAIN pfds, c \in Conns : HandleMsg(i, c)
    BY <1>1, HistoryGrows
  <2>2. Receive(i, c, "LMP_MSG") /\ ~Plays(i) /\ peer' = peer
    BY <2>1 DEF HandleMsg
  <2>3. c \in registered /\ Sender(i).uid = MemberOf[c].uid
    BY <1>1, <2>2, SenderIsMember
  <2>4. MessageRead(c)
    BY <1>1, <2>2, TableFacts DEF MessageRead, Receive, ServedInv
  <2>5. ~GuessRead(c)
    BY <2>2, <2>3 DEF GuessRead, IsPlaying, Plays, UserInList
  <2>6. history' = history \cup {[uid |-> MemberOf[c].uid, text |-> Head(inbox[c]).text]}
    BY <1>1, <2>1, <2>3 DEF HandleMsg, SaveMessageToHistory
  <2>7. {frame.to : frame \in sent'} = Fds(pfds) \ {c}
    <3>1. sent' = Relayed(OthersThan(c), c, i - 1, Head(inbox[c]))
      BY <2>1 DEF HandleMsg, Relay
    <3>2. {f.to : f \in Relayed(OthersThan(c), c, i - 1, Head(inbox[c]))} = OthersThan(c)
      BY RelayReaches
    <3> QED
      BY <3>1, <3>2 DEF OthersThan
  <2> QED
    BY <2>3, <2>4, <2>5, <2>6, <2>7
<1>2. ServedInv /\ [Next]_vars =>
        [history' # history =>
           \E c \in registered :
             /\ MessageRead(c) /\ ~GuessRead(c)
             /\ history' = history \cup {[uid |-> MemberOf[c].uid, text |-> Head(inbox[c]).text]}
             /\ {frame.to : frame \in sent'} = Fds(pfds) \ {c}]_vars
  BY <1>1
<1> QED
  BY <1>2, ServedInvariant, PTL DEF Spec, HistoryIsWhatWasSaid

-----------------------------------------------------------------------------
(* The game in the group.                                                   *)

\* Only the player's guess and the start of a game change the game.
LEMMA GameChanges ==
  ASSUME [Next]_vars, hangman_fsm' # hangman_fsm, hangman_fsm.state # "HANGMAN_INITIAL"
  PROVE  \E i \in DOMAIN pfds, c \in Conns : HandleGuess(i, c)
<1>1. ASSUME NEW i, NEW c,
             \/ HandleHangup(i, c) \/ HandleNick(i, c) \/ HandleInitMember(i, c)
             \/ HandleLoadMsg(i, c) \/ HandleHangmanStartAgain(i, c)
             \/ HandleHangmanExit(i, c) \/ HandleHangmanJoin(i, c)
             \/ HandleHangmanJoinNoGame(i, c) \/ HandleGuessRefused(i, c)
             \/ HandleMsg(i, c) \/ HandleDefault(i, c) \/ HandleOutOfBounds(i, c)
      PROVE  UNCHANGED hangman_fsm
  BY <1>1 DEF HandleHangup, HandleNick, HandleInitMember, HandleLoadMsg,
              HandleHangmanStartAgain, HandleHangmanExit, HandleHangmanJoin,
              HandleHangmanJoinNoGame, HandleGuessRefused, HandleMsg, HandleDefault,
              HandleOutOfBounds, game
<1>2. ASSUME NEW i, NEW c, HandleHangmanStart(i, c)
      PROVE  hangman_fsm.state = "HANGMAN_INITIAL"
  BY <1>2 DEF HandleHangmanStart
<1>3. Client \/ Poll \/ HandleNewConnection \/ UNCHANGED vars => UNCHANGED hangman_fsm
  BY DEF Client, Connect, Introduce, Type, Leave, Die, Poll, HandleNewConnection, vars, game
<1> QED
  BY <1>1, <1>2, <1>3 DEF Next, Server, HandleClientData

\* Only a player moves a game that is on, and the message that does is
\* neither relayed nor saved.
THEOREM OnlyPlayersMoveTheGame ==
  ASSUME OrderlyMembership = TRUE
  PROVE  Spec => OnlyPlayersGuess
<1>1. ASSUME ServedInv, [Next]_vars,
             hangman_fsm.state # "HANGMAN_INITIAL", hangman_fsm' # hangman_fsm
      PROVE  /\ \E c \in registered :
                  /\ inbox'[c] # inbox[c]
                  /\ MemberOf[c].uid \in ToSet(hangman_users_list)
             /\ history' = history
             /\ \A frame \in sent' : frame.type = "LMP_GRP_HANGMAN"
  <2>1. PICK i \in DOMAIN pfds, c \in Conns : HandleGuess(i, c)
    BY <1>1, GameChanges
  <2>2. Receive(i, c, "LMP_MSG") /\ Plays(i) /\ history' = history
    BY <2>1 DEF HandleGuess
  <2>3. c \in registered /\ Sender(i).uid = MemberOf[c].uid
    BY <1>1, <2>2, SenderIsMember
  <2>4. MemberOf[c].uid \in ToSet(hangman_users_list)
    BY <2>2, <2>3 DEF Plays, UserInList
  <2>5. inbox'[c] # inbox[c]
    <3>1. inbox \in [Conns -> Seq(Frame)]
      BY <1>1, TableFacts DEF ServedInv
    <3>2. inbox[c] \in Seq(Frame) /\ inbox[c] # <<>> /\ inbox'[c] = Tail(inbox[c])
      BY <2>2, <3>1 DEF Receive
    <3>3. Len(inbox'[c]) = Len(inbox[c]) - 1 /\ Len(inbox[c]) \in Nat
      BY <3>2
    <3> QED
      BY <3>3
  <2>6. \A frame \in sent' : frame.type = "LMP_GRP_HANGMAN"
    BY <2>1, GameFrames
  <2> QED
    BY <2>2, <2>3, <2>4, <2>5, <2>6
<1>2. ServedInv /\ [Next]_vars =>
        [hangman_fsm.state # "HANGMAN_INITIAL" /\ hangman_fsm' # hangman_fsm =>
           /\ \E c \in registered :
                /\ inbox'[c] # inbox[c]
                /\ MemberOf[c].uid \in ToSet(hangman_users_list)
           /\ history' = history
           /\ \A frame \in sent' : frame.type = "LMP_GRP_HANGMAN"]_vars
  BY <1>1
<1> QED
  BY <1>2, ServedInvariant, PTL DEF Spec, OnlyPlayersGuess

\* No two connections are of users with the same UID.
DistinctUids == \A c, d \in Conns : MemberOf[c].uid = MemberOf[d].uid => c = d

\* The lookup of the players' descriptors, from the list of players to the
\* members and from there to the connections, finds the players.
LEMMA PlayerFdsFound ==
  ASSUME DistinctUids, ServedInv, server = "up", NEW list
  PROVE  PlayerFds(list) = {d \in registered : MemberOf[d].uid \in ToSet(list)}
<1> DEFINE n == current_group.member_count
           members == current_group.members
<1>1. /\ DOMAIN pfds = 1 .. Len(pfds) /\ Len(pfds) \in Nat
      /\ \A i \in DOMAIN pfds : pfds[i].fd \in Conns
      /\ registered \subseteq Fds(pfds)
  BY TableFacts DEF ServedInv, TableExact
<1>2. /\ n \in 0 .. Len(pfds)
      /\ \A i \in DOMAIN pfds : pfds[i].fd \in registered <=> i <= n
      /\ \A i \in DOMAIN pfds : i <= n => members[i - 1].uid = MemberOf[pfds[i].fd].uid
  BY DEF ServedInv, OrderInv, TablesAgree, Sender
<1> HIDE DEF n, members
<1>3. \A j \in 0 .. n - 1 : /\ j + 1 \in DOMAIN pfds
                            /\ pfds[j + 1].fd \in registered
                            /\ members[j].uid = MemberOf[pfds[j + 1].fd].uid
  <2> TAKE j \in 0 .. n - 1
  <2>1. j + 1 \in DOMAIN pfds /\ j + 1 <= n /\ (j + 1) - 1 = j
    BY <1>1, <1>2
  <2>2. members[(j + 1) - 1].uid = MemberOf[pfds[j + 1].fd].uid
    BY <1>2, <2>1
  <2> QED
    BY <1>2, <2>1, <2>2
<1>4. ASSUME NEW uid \in ToSet(list), NEW j \in FirstMember(uid)
      PROVE  pfds[j + 1].fd \in registered /\ MemberOf[pfds[j + 1].fd].uid \in ToSet(list)
  <2>1. j \in 0 .. n - 1 /\ members[j].uid = uid
    BY <1>4 DEF FirstMember, n, members
  <2> QED
    BY <1>3, <2>1
<1>5. ASSUME NEW d \in registered, MemberOf[d].uid \in ToSet(list)
      PROVE  \E j \in FirstMember(MemberOf[d].uid) : d = pfds[j + 1].fd
  <2>1. PICK i \in DOMAIN pfds : d = pfds[i].fd
    BY <1>1 DEF Fds
  <2>2. i <= n /\ i \in 1 .. Len(pfds)
    BY <1>1, <1>2, <2>1
  <2>3. i - 1 \in 0 .. n - 1 /\ (i - 1) + 1 = i
    BY <1>1, <1>2, <2>2
  <2>4. members[i - 1].uid = MemberOf[d].uid
    BY <1>2, <2>1, <2>2
  <2>5. ASSUME NEW k \in 0 .. (i - 1) - 1
        PROVE  members[k].uid # MemberOf[d].uid
    <3>1. k \in 0 .. n - 1 /\ k + 1 # i /\ k + 1 \in DOMAIN pfds
      BY <1>1, <1>2, <2>2
    <3>2. pfds[k + 1].fd # d
      BY <2>1, <3>1 DEF ServedInv, TableExact
    <3>3. members[k].uid = MemberOf[pfds[k + 1].fd].uid
      BY <1>3, <3>1
    <3> QED
      BY <1>1, <2>1, <3>1, <3>2, <3>3 DEF DistinctUids
  <2>6. i - 1 \in FirstMember(MemberOf[d].uid)
    BY <2>3, <2>4, <2>5 DEF FirstMember, n, members
  <2> QED
    BY <2>1, <2>3, <2>6
<1>6. ASSUME NEW d
      PROVE  d \in PlayerFds(list) <=>
               \E uid \in ToSet(list) : \E j \in FirstMember(uid) : d = pfds[j + 1].fd
  BY DEF PlayerFds
<1>7. \A d : d \in PlayerFds(list) => d \in registered /\ MemberOf[d].uid \in ToSet(list)
  BY <1>4, <1>6
<1>8. \A d \in registered : MemberOf[d].uid \in ToSet(list) => d \in PlayerFds(list)
  BY <1>5, <1>6
<1> QED
  BY <1>7, <1>8

\* The frames of an answer reach whom it is for.
LEMMA AnswerReaches ==
  ASSUME NEW recipients, NEW c, NEW type, NEW text
  PROVE  {frame.to : frame \in {f \in Answer(recipients, c, type, text) : f.text = text}}
           = recipients
<1> DEFINE ToOne(d) == [to |-> d, type |-> type, from |-> c, index |-> 0, uid |-> "", text |-> text]
<1>1. \A d : ToOne(d).text = text /\ ToOne(d).to = d
  OBVIOUS
<1>2. Answer(recipients, c, type, text) = {ToOne(d) : d \in recipients}
  BY DEF Answer
<1> HIDE DEF ToOne
<1> QED
  BY <1>1, <1>2

\* A step that takes the guess of a player off its inbox handles the guess.
LEMMA GuessIsHandled ==
  ASSUME ServedInv, [Next]_vars, NEW c \in registered, GuessRead(c)
  PROVE  \E i \in DOMAIN pfds : HandleGuess(i, c)
<1>1. /\ inbox \in [Conns -> Seq(Frame)] /\ c \in Conns
      /\ peer \in [Conns -> {"idle", "connected", "joined", "eof", "reset"}]
  BY TableFacts DEF ServedInv
<1>2. /\ inbox[c] \in Seq(Frame) /\ inbox[c] # <<>> /\ inbox'[c] = Tail(inbox[c])
      /\ Head(inbox[c]).type = "LMP_MSG" /\ Head(inbox[c]).text \in Chars
      /\ peer' = peer
      /\ hangman_fsm.state # "HANGMAN_INITIAL"
      /\ MemberOf[c].uid \in ToSet(hangman_users_list)
  BY <1>1 DEF GuessRead, MessageRead, IsPlaying
<1>3. /\ inbox'[c] # inbox[c]
      /\ \A frame \in Frame : inbox'[c] # Append(inbox[c], frame)
  <2>1. Len(inbox'[c]) = Len(inbox[c]) - 1 /\ Len(inbox[c]) \in Nat
    BY <1>2
  <2>2. \A frame \in Frame : Len(Append(inbox[c], frame)) = Len(inbox[c]) + 1
    BY <1>2
  <2> QED
    BY <2>1, <2>2
<1>4. ~Client
  <2> SUFFICES ASSUME NEW d \in Conns,
                      Connect(d) \/ Introduce(d) \/ Type(d) \/ Leave(d) \/ Die(d)
               PROVE  FALSE
    BY DEF Client
  <2>1. CASE Connect(d) \/ Leave(d)
    BY <1>3, <2>1 DEF Connect, Leave
  <2>2. CASE Introduce(d) \/ Type(d)
    <3>1. PICK frame \in Frame : inbox' = [inbox EXCEPT ![d] = Append(@, frame)]
      BY <2>2 DEF Introduce, Type, Frame
    <3> QED
      BY <1>1, <1>3, <3>1
  <2>3. CASE Die(d)
    BY <1>1, <1>2, <2>3 DEF Die
  <2> QED
    BY <2>1, <2>2, <2>3
<1>5. ~(Poll \/ HandleNewConnection \/ UNCHANGED vars)
  BY <1>3, CountOthers
<1>6. PICK i \in DOMAIN pfds, d \in Conns : HandleClientData(i, d)
  BY <1>4, <1>5 DEF Next, Server
<1>7. d = c
  <2>1. inbox' = inbox \/ inbox' = [inbox EXCEPT ![d] = Tail(@)]
    BY <1>6, CountKinds DEF ServedInv
  <2> QED
    BY <1>1, <1>3, <2>1
<1>8. HandleGuess(i, c) \/ HandleGuessRefused(i, c) \/ HandleMsg(i, c)
  <2>1. ~(HandleHangup(i, c) \/ HandleOutOfBounds(i, c))
    BY <1>3 DEF HandleHangup, HandleOutOfBounds, environment
  <2>2. \A type : Receive(i, c, type) => type = "LMP_MSG"
    BY <1>2 DEF Receive
  <2>3. ~(HandleNick(i, c) \/ HandleInitMember(i, c) \/ HandleLoadMsg(i, c))
    BY <2>2 DEF HandleNick, HandleInitMember, HandleLoadMsg
  <2>4. ~(\/ HandleHangmanStart(i, c) \/ HandleHangmanStartAgain(i, c) \/ HandleHangmanExit(i, c)
          \/ HandleHangmanJoin(i, c) \/ HandleHangmanJoinNoGame(i, c))
    BY <2>2 DEF HandleHangmanStart, HandleHangmanStartAgain, HandleHangmanExit,
                HandleHangmanJoin, HandleHangmanJoinNoGame, HangmanFrame
  <2>5. ~HandleDefault(i, c)
    BY <2>2 DEF HandleDefault
  <2> QED
    BY <1>6, <1>7, <2>1, <2>3, <2>4, <2>5 DEF HandleClientData
<1>9. Sender(i).uid = MemberOf[c].uid
  <2>1. Receive(i, c, "LMP_MSG")
    BY <1>8 DEF HandleGuess, HandleGuessRefused, HandleMsg
  <2> QED
    BY <1>1, <2>1, SenderIsMember
<1>10. Plays(i) /\ GuessAccepted(Head(inbox[c]).text)
  <2>1. hangman_fsm.state # "HANGMAN_UPDATE"
    BY DEF ServedInv, PlayersInv, NeverBusy
  <2> QED
    BY <1>2, <1>9, <2>1 DEF Plays, UserInList, GuessAccepted
<1> QED
  BY <1>8, <1>10 DEF HandleGuessRefused, HandleMsg

\* The answer to a player's guess goes to the players, the guess that ends
\* the game included, and to nobody else.
THEOREM AnswersReachThePlayers ==
  ASSUME OrderlyMembership = TRUE, DistinctUids
  PROVE  Spec => AnswersReachPlayers
<1>1. ASSUME ServedInv, [Next]_vars, NEW c \in registered, GuessRead(c)
      PROVE  {frame.to : frame \in {f \in sent' : f.text = "answer"}} =
               {d \in registered : MemberOf[d].uid \in ToSet(hangman_users_list)}
  <2>1. PICK i \in DOMAIN pfds : HandleGuess(i, c)
    BY <1>1, GuessIsHandled
  <2>2. server = "up"
    BY <2>1 DEF HandleGuess, Receive, Serving
  <2>3. sent' = Answer(PlayerFds(hangman_users_list), c, "LMP_GRP_HANGMAN", "answer")
    BY <2>1 DEF HandleGuess
  <2>4. {frame.to : frame \in {f \in sent' : f.text = "answer"}} = PlayerFds(hangman_users_list)
    BY <2>3, AnswerReaches
  <2> QED
    BY <1>1, <2>2, <2>4, PlayerFdsFound
<1>2. ServedInv /\ [Next]_vars =>
        [server' = "up" =>
           \A c \in registered :
             GuessRead(c) =>
               {frame.to : frame \in {f \in sent' : f.text = "answer"}} =
                 {d \in registered : MemberOf[d].uid \in ToSet(hangman_users_list)}]_vars
  BY <1>1
<1> QED
  BY <1>2, ServedInvariant, PTL DEF Spec, AnswersReachPlayers
=============================================================================
