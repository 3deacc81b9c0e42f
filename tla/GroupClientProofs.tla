------------------------- MODULE GroupClientProofs -------------------------
(***************************************************************************)
(* Proofs about a client of the group: its two threads, which share the    *)
(* copy of the group and the state of a load without a lock, and the       *)
(* server, which may end at any time.  They hold for every set of users    *)
(* and nicknames, every length of the history and every bound.             *)
(***************************************************************************)
EXTENDS GroupClient, FiniteSetTheorems, NaturalsInduction, TLAPS

-----------------------------------------------------------------------------
(* Sequences, and the number of frames of a type in them. *)

\* What a queue is after its head has been taken.
LEMMA TailShifts ==
  ASSUME NEW S, NEW s \in Seq(S), s # <<>>
  PROVE  /\ Len(s) \in Nat \ {0}
         /\ Head(s) = s[1] /\ Head(s) \in S
         /\ Tail(s) \in Seq(S)
         /\ Len(Tail(s)) = Len(s) - 1
         /\ \A k \in 1 .. Len(s) - 1 : Tail(s)[k] = s[k + 1]
  OBVIOUS

\* What a queue is after something has been written to it.
LEMMA ConcatElements ==
  ASSUME NEW S, NEW s \in Seq(S), NEW u \in Seq(S)
  PROVE  /\ s \o u \in Seq(S)
         /\ Len(s \o u) = Len(s) + Len(u)
         /\ \A k \in 1 .. Len(s) : (s \o u)[k] = s[k]
         /\ \A k \in 1 .. Len(u) : (s \o u)[Len(s) + k] = u[k]
  OBVIOUS

\* Where the frames of a type are.
PlacesOf(seq, type) == {n \in DOMAIN seq : seq[n].type = type}

\* A count is a natural number, and zero exactly when there is no such frame.
LEMMA CountType ==
  ASSUME NEW S, NEW s \in Seq(S), NEW type
  PROVE  /\ IsFiniteSet(PlacesOf(s, type))
         /\ Count(s, type) = Cardinality(PlacesOf(s, type))
         /\ Count(s, type) \in Nat
         /\ Count(s, type) = 0 <=> \A n \in 1 .. Len(s) : s[n].type # type
<1>1. DOMAIN s = 1 .. Len(s) /\ Len(s) \in Nat
  OBVIOUS
<1>2. IsFiniteSet(1 .. Len(s))
  BY <1>1, FS_Interval
<1>3. PlacesOf(s, type) \in SUBSET (1 .. Len(s))
  BY <1>1 DEF PlacesOf
<1>4. IsFiniteSet(PlacesOf(s, type))
  BY <1>2, <1>3, FS_Subset
<1>5. Count(s, type) = Cardinality(PlacesOf(s, type))
  BY DEF Count, PlacesOf
<1>6. Cardinality(PlacesOf(s, type)) = 0 <=> PlacesOf(s, type) = {}
  BY <1>4, FS_EmptySet
<1>7. PlacesOf(s, type) = {} <=> \A n \in 1 .. Len(s) : s[n].type # type
  BY <1>1 DEF PlacesOf
<1> QED
  BY <1>4, <1>5, <1>6, <1>7, FS_CardinalityType

\* There are none in an empty queue.
LEMMA CountEmpty ==
  ASSUME NEW S, NEW s \in Seq(S), Len(s) = 0, NEW type
  PROVE  Count(s, type) = 0
<1>1. \A n \in 1 .. Len(s) : s[n].type # type
  OBVIOUS
<1> QED
  BY <1>1, CountType

\* Two frames of a type are two.
LEMMA CountOneIsUnique ==
  ASSUME NEW S, NEW s \in Seq(S), NEW type, Count(s, type) <= 1,
         NEW i \in 1 .. Len(s), NEW j \in 1 .. Len(s), s[i].type = type, s[j].type = type
  PROVE  i = j
<1>1. i \in PlacesOf(s, type) /\ j \in PlacesOf(s, type)
  BY DEF PlacesOf
<1> SUFFICES ASSUME i # j PROVE FALSE
  OBVIOUS
<1>2. PICK one : one = {i} /\ IsFiniteSet(one) /\ Cardinality(one) = 1
  BY FS_Singleton
<1>3. IsFiniteSet({i} \cup {j}) /\ Cardinality({i} \cup {j}) = 2
  <2>1. j \notin one
    BY <1>2
  <2>2. IsFiniteSet(one \cup {j}) /\ Cardinality(one \cup {j}) = Cardinality(one) + 1
    BY <1>2, <2>1, FS_AddElement
  <2> QED
    BY <1>2, <2>2
<1>4. {i} \cup {j} \in SUBSET PlacesOf(s, type)
  BY <1>1
<1>5. IsFiniteSet(PlacesOf(s, type)) /\ Count(s, type) = Cardinality(PlacesOf(s, type))
  BY CountType
<1>6. Cardinality({i} \cup {j}) <= Cardinality(PlacesOf(s, type))
  BY <1>4, <1>5, FS_Subset
<1>7. PICK count \in Nat : count = Count(s, type)
  BY CountType
<1>8. 2 <= count
  BY <1>3, <1>5, <1>6, <1>7
<1>9. count <= 1
  BY <1>7
<1> QED
  BY <1>8, <1>9

\* The count of what is written is added to that of what was there.
LEMMA CountConcat ==
  ASSUME NEW S, NEW s \in Seq(S), NEW u \in Seq(S), NEW type
  PROVE  Count(s \o u, type) = Count(s, type) + Count(u, type)
<1> DEFINE whole   == PlacesOf(s \o u, type)
           first   == PlacesOf(s, type)
           second  == PlacesOf(u, type)
           shifted == {n \in 1 .. Len(s) + Len(u) : n > Len(s) /\ (s \o u)[n].type = type}
           shift   == [n \in second |-> n + Len(s)]
<1>1. /\ Len(s) \in Nat /\ DOMAIN s = 1 .. Len(s)
      /\ Len(u) \in Nat /\ DOMAIN u = 1 .. Len(u)
      /\ s \o u \in Seq(S) /\ Len(s \o u) = Len(s) + Len(u)
      /\ DOMAIN (s \o u) = 1 .. Len(s) + Len(u)
  OBVIOUS
<1>2. /\ \A k \in 1 .. Len(s) : (s \o u)[k] = s[k]
      /\ \A k \in 1 .. Len(u) : (s \o u)[k + Len(s)] = u[k]
  OBVIOUS
<1>3. \A k \in second : k \in 1 .. Len(u) /\ k + Len(s) \in shifted
  BY <1>1, <1>2 DEF PlacesOf
<1>4. \A n \in shifted : n - Len(s) \in second /\ n = (n - Len(s)) + Len(s)
  <2> SUFFICES ASSUME NEW n \in shifted
               PROVE  n - Len(s) \in second /\ n = (n - Len(s)) + Len(s)
    OBVIOUS
  <2>1. n - Len(s) \in 1 .. Len(u) /\ n = (n - Len(s)) + Len(s)
    BY <1>1
  <2>2. (s \o u)[n] = u[n - Len(s)]
    BY <1>2, <2>1
  <2> QED
    BY <1>1, <2>1, <2>2 DEF PlacesOf
<1>5. shift \in Bijection(second, shifted)
  <2>1. shift \in [second -> shifted]
    BY <1>3
  <2>2. \A a, b \in second : shift[a] = shift[b] => a = b
    BY <1>1, <1>3
  <2>3. \A n \in shifted : \E a \in second : shift[a] = n
    BY <1>4
  <2> QED
    BY <2>1, <2>2, <2>3 DEF Bijection, Injection, Surjection, IsInjective
<1>6. whole = first \cup shifted
  BY <1>1, <1>2 DEF PlacesOf
<1>7. first \cap shifted = {}
  BY <1>1 DEF PlacesOf
<1>8. /\ IsFiniteSet(first) /\ Cardinality(first) = Count(s, type)
      /\ IsFiniteSet(second) /\ Cardinality(second) = Count(u, type)
      /\ Cardinality(whole) = Count(s \o u, type)
      /\ Count(s, type) \in Nat /\ Count(u, type) \in Nat
  BY <1>1, CountType
<1> HIDE DEF whole, first, second, shifted, shift
<1>9. IsFiniteSet(shifted) /\ Cardinality(shifted) = Cardinality(second)
  BY <1>5, <1>8, FS_Bijection DEF ExistsBijection
<1>10. Cardinality(whole) = Cardinality(first) + Cardinality(shifted) - Cardinality(first \cap shifted)
  BY <1>6, <1>8, <1>9, FS_Union
<1>11. Cardinality(first \cap shifted) = 0
  BY <1>7, FS_EmptySet
<1> QED
  BY <1>8, <1>9, <1>10, <1>11

\* One frame counts if it has the type.
LEMMA CountOne ==
  ASSUME NEW f, NEW type
  PROVE  Count(<<f>>, type) = IF f.type = type THEN 1 ELSE 0
<1>1. DOMAIN <<f>> = {1} /\ <<f>>[1] = f
  OBVIOUS
<1>2. CASE f.type = type
  <2>1. {n \in DOMAIN <<f>> : <<f>>[n].type = type} = {1}
    BY <1>1, <1>2
  <2> QED
    BY <1>2, <2>1, FS_Singleton DEF Count
<1>3. CASE f.type # type
  <2>1. {n \in DOMAIN <<f>> : <<f>>[n].type = type} = {}
    BY <1>1, <1>3
  <2> QED
    BY <1>3, <2>1, FS_EmptySet DEF Count
<1> QED
  BY <1>2, <1>3

\* A frame written to a queue, and one taken from it.
LEMMA CountAppend ==
  ASSUME NEW S, NEW s \in Seq(S), NEW f \in S, NEW type
  PROVE  Count(Append(s, f), type) = Count(s, type) + IF f.type = type THEN 1 ELSE 0
<1>1. PICK one : one = <<f>> /\ one \in Seq(S)
  <2>1. <<f>> \in Seq(S)
    OBVIOUS
  <2> QED
    BY <2>1
<1>2. Append(s, f) = s \o one
  BY <1>1
<1>3. Count(s \o one, type) = Count(s, type) + Count(one, type)
  BY <1>1, CountConcat
<1>4. Count(one, type) = IF f.type = type THEN 1 ELSE 0
  BY <1>1, CountOne
<1> QED
  BY <1>2, <1>3, <1>4

LEMMA CountTail ==
  ASSUME NEW S, NEW s \in Seq(S), s # <<>>, NEW type
  PROVE  Count(s, type) = Count(Tail(s), type) + IF Head(s).type = type THEN 1 ELSE 0
<1> DEFINE head == Head(s)
<1>1. PICK one : one = <<head>> /\ one \in Seq(S)
  <2>1. <<head>> \in Seq(S)
    OBVIOUS
  <2> QED
    BY <2>1
<1>2. PICK rest : rest = Tail(s) /\ rest \in Seq(S)
  <2>1. Tail(s) \in Seq(S)
    OBVIOUS
  <2> QED
    BY <2>1
<1>3. s = one \o rest
  BY <1>1, <1>2
<1>4. Count(one \o rest, type) = Count(one, type) + Count(rest, type)
  BY <1>1, <1>2, CountConcat
<1>5. Count(one, type) = IF Head(s).type = type THEN 1 ELSE 0
  BY <1>1, CountOne
<1>6. Count(rest, type) \in Nat
  BY <1>2, CountType
<1>7. Count(s, type) = Count(one, type) + Count(Tail(s), type)
  BY <1>2, <1>3, <1>4
<1>8. CASE Head(s).type = type
  BY <1>2, <1>5, <1>6, <1>7, <1>8
<1>9. CASE Head(s).type # type
  BY <1>2, <1>5, <1>6, <1>7, <1>9
<1> QED
  BY <1>8, <1>9

\* A set of natural numbers has its minimum as an element.
LEMMA MinOfNaturals ==
  ASSUME NEW S \in SUBSET Nat, S # {}
  PROVE  Min(S) \in S
<1> DEFINE less == {ss \in Nat \X Nat : ss[1] < ss[2]}
<1>1. IsWellFoundedOn(less, Nat)
  BY NatLessThanWellFounded DEF OpToRel
<1> HIDE DEF less
<1>2. PICK n \in S : \A m \in S : ~(<<m, n>> \in less)
  BY <1>1, WFMin
<1>3. \A m \in S : ~(m < n)
  BY <1>2 DEF less
<1>4. \A m \in S : n <= m
  BY <1>3
<1>5. \E x \in S : \A m \in S : x <= m
  BY <1>4
<1> QED
  BY <1>5 DEF Min

-----------------------------------------------------------------------------
(* Groups. *)

\* A group whose announced entries are members.
Announced(group) ==
  group \in Group /\ \A k \in Indices(group) : group.members[k] # NoMember

\* No one is announced twice.
DistinctMembers(group) ==
  \A i, j \in Indices(group) : group.members[i].uid = group.members[j].uid => i = j

LEMMA ZeroGroupType == Announced(ZeroGroup) /\ UidsOf(ZeroGroup) = {} /\ DistinctMembers(ZeroGroup)
<1>1. ZeroGroup \in Group
  BY ClientAssumption DEF ZeroGroup, Group, GroupMember
<1>2. Indices(ZeroGroup) = {}
  BY DEF Indices, ZeroGroup
<1> QED
  BY <1>1, <1>2 DEF Announced, UidsOf, DistinctMembers

\* A copy that has the members of one group and the count of another is a
\* structure like any other.
LEMMA TornCopyType ==
  ASSUME NEW g \in Group, NEW h \in Group
  PROVE  /\ [g EXCEPT !.members = h.members] \in Group
         /\ [g EXCEPT !.members = h.members].members = h.members
         /\ [g EXCEPT !.member_count = h.member_count] \in Group
         /\ [g EXCEPT !.member_count = h.member_count].members = g.members
         /\ [g EXCEPT !.member_count = h.member_count].member_count = h.member_count
  BY DEF Group

\* What an announced entry is.
LEMMA AnnouncedEntries ==
  ASSUME NEW g, Announced(g)
  PROVE  /\ g.member_count \in 0 .. MAX_GROUP_MEMBERS
         /\ Indices(g) \subseteq 0 .. MAX_GROUP_MEMBERS - 1
         /\ \A k \in Indices(g) : /\ g.members[k] \in [uid : Uids, nickname : Nicks]
                                  /\ g.members[k].uid \in Uids
                                  /\ g.members[k].nickname \in Nicks
<1>1. g.members \in [0 .. MAX_GROUP_MEMBERS - 1 -> GroupMember] /\ g.member_count \in 0 .. MAX_GROUP_MEMBERS
  BY DEF Announced, Group
<1>2. Indices(g) \subseteq 0 .. MAX_GROUP_MEMBERS - 1
  BY <1>1, ClientAssumption DEF Indices
<1>3. \A k \in Indices(g) : g.members[k] \in [uid : Uids, nickname : Nicks]
  BY <1>1, <1>2 DEF Announced, GroupMember
<1> QED
  BY <1>1, <1>2, <1>3

\* A member who was not there takes the first free place.
LEMMA MemberAdded ==
  ASSUME NEW g, Announced(g), DistinctMembers(g), g.member_count < MAX_GROUP_MEMBERS,
         NEW uid \in Uids, uid \notin UidsOf(g)
  PROVE  /\ Announced(AddMember(g, Member(uid)))
         /\ DistinctMembers(AddMember(g, Member(uid)))
         /\ UidsOf(AddMember(g, Member(uid))) = UidsOf(g) \cup {uid}
         /\ AddMember(g, Member(uid)).member_count = g.member_count + 1
<1> DEFINE new == AddMember(g, Member(uid))
           c   == g.member_count
<1>1. /\ g.members \in [0 .. MAX_GROUP_MEMBERS - 1 -> GroupMember]
      /\ c \in 0 .. MAX_GROUP_MEMBERS - 1 /\ c \in Nat /\ MAX_GROUP_MEMBERS \in Nat
  BY ClientAssumption DEF Announced, Group
<1>2. /\ Member(uid) \in [uid : Uids, nickname : Nicks] /\ Member(uid).uid = uid
      /\ Member(uid) # NoMember
  BY ClientAssumption DEF Member, NoMember, NoNick
<1>3. new.member_count = c + 1 /\ new.members = [g.members EXCEPT ![c] = Member(uid)]
  BY DEF AddMember
<1>4. new \in Group
  <2>1. new.members \in [0 .. MAX_GROUP_MEMBERS - 1 -> GroupMember]
    BY <1>1, <1>2, <1>3 DEF GroupMember
  <2>2. new.member_count \in 0 .. MAX_GROUP_MEMBERS
    BY <1>1, <1>3
  <2>3. new = [members |-> new.members, member_count |-> new.member_count]
    BY DEF AddMember
  <2> HIDE DEF new
  <2> QED
    BY <2>1, <2>2, <2>3 DEF Group
<1> HIDE DEF new
<1>5. Indices(new) = Indices(g) \cup {c}
  BY <1>1, <1>3 DEF Indices
<1>6. \A k \in Indices(g) : k # c /\ new.members[k] = g.members[k]
  BY <1>1, <1>3 DEF Indices
<1>7. new.members[c] = Member(uid)
  BY <1>1, <1>3
<1>8. UidsOf(new) = UidsOf(g) \cup {uid}
  BY <1>2, <1>5, <1>6, <1>7 DEF UidsOf
<1>9. \A k \in Indices(new) : new.members[k] # NoMember
  BY <1>2, <1>5, <1>6, <1>7 DEF Announced
<1>10. \A k \in Indices(g) : g.members[k].uid # uid
  BY DEF UidsOf
<1>11. DistinctMembers(new)
  BY <1>2, <1>5, <1>6, <1>7, <1>10 DEF DistinctMembers
<1> QED
  BY <1>3, <1>4, <1>8, <1>9, <1>11 DEF Announced, new

\* Who leaves is no longer announced, and everybody else still is.
LEMMA MemberDropped ==
  ASSUME NEW g, Announced(g), DistinctMembers(g), NEW k \in Indices(g)
  PROVE  /\ Announced(DropMember(g, k))
         /\ DistinctMembers(DropMember(g, k))
         /\ UidsOf(DropMember(g, k)) = UidsOf(g) \ {g.members[k].uid}
         /\ DropMember(g, k).member_count = g.member_count - 1
<1> DEFINE new  == DropMember(g, k)
           last == g.member_count - 1
<1>1. /\ g.members \in [0 .. MAX_GROUP_MEMBERS - 1 -> GroupMember]
      /\ g.member_count \in 0 .. MAX_GROUP_MEMBERS /\ MAX_GROUP_MEMBERS \in Nat
  BY ClientAssumption DEF Announced, Group
<1>2. last \in 0 .. MAX_GROUP_MEMBERS - 1 /\ k \in 0 .. last /\ last \in Indices(g)
  BY <1>1 DEF Indices
<1>3. new = [g EXCEPT !.members = [g.members EXCEPT ![k] = g.members[last]],
                      !.member_count = last]
  BY DEF DropMember
<1>4. /\ new.member_count = last
      /\ new.members = [g.members EXCEPT ![k] = g.members[last]]
      /\ new \in Group
  <2> HIDE DEF new
  <2>1. [g.members EXCEPT ![k] = g.members[last]] \in [0 .. MAX_GROUP_MEMBERS - 1 -> GroupMember]
    BY <1>1, <1>2
  <2>2. last \in 0 .. MAX_GROUP_MEMBERS
    BY <1>1, <1>2
  <2> QED
    BY <1>3, <2>1, <2>2 DEF Announced, Group
<1> HIDE DEF new
<1>5. Indices(new) = Indices(g) \ {last}
  BY <1>1, <1>2, <1>4 DEF Indices
<1>6. \A i \in Indices(new) : new.members[i] = IF i = k THEN g.members[last] ELSE g.members[i]
  BY <1>1, <1>2, <1>4, <1>5 DEF Indices
<1>7. \A i \in Indices(new) : new.members[i] # NoMember
  BY <1>2, <1>5, <1>6 DEF Announced
<1>8. DistinctMembers(new)
  BY <1>2, <1>5, <1>6 DEF DistinctMembers
<1>9. ASSUME NEW u \in UidsOf(new) PROVE u \in UidsOf(g) /\ u # g.members[k].uid
  <2>1. PICK i \in Indices(new) : u = new.members[i].uid
    BY DEF UidsOf
  <2>2. i \in Indices(g) /\ i # last
    BY <1>5
  <2>3. CASE i = k
    BY <1>2, <1>6, <2>1, <2>2, <2>3 DEF UidsOf, DistinctMembers
  <2>4. CASE i # k
    BY <1>6, <2>1, <2>2, <2>4 DEF UidsOf, DistinctMembers
  <2> QED
    BY <2>3, <2>4
<1>10. ASSUME NEW u \in UidsOf(g), u # g.members[k].uid PROVE u \in UidsOf(new)
  <2>1. PICK i \in Indices(g) : u = g.members[i].uid
    BY DEF UidsOf
  <2>2. i # k
    BY <1>10, <2>1
  <2>3. CASE i = last
    <3>1. k \in Indices(new) /\ new.members[k] = g.members[last]
      BY <1>2, <1>5, <1>6, <2>2, <2>3
    <3> QED
      BY <2>1, <2>3, <3>1 DEF UidsOf
  <2>4. CASE i # last
    <3>1. i \in Indices(new) /\ new.members[i] = g.members[i]
      BY <1>5, <1>6, <2>2, <2>4
    <3> QED
      BY <2>1, <3>1 DEF UidsOf
  <2> QED
    BY <2>3, <2>4
<1> QED
  BY <1>4, <1>7, <1>8, <1>9, <1>10 DEF Announced, new

\* A nickname is changed and nothing else.
LEMMA MemberRenamed ==
  ASSUME NEW g, Announced(g), DistinctMembers(g), NEW k \in Indices(g), NEW nick \in Nicks,
         NEW new, new = [g EXCEPT !.members[k].nickname = nick]
  PROVE  /\ Announced(new)
         /\ DistinctMembers(new)
         /\ UidsOf(new) = UidsOf(g)
         /\ new.member_count = g.member_count
<1> DEFINE entry == [g.members[k] EXCEPT !.nickname = nick]
<1>1. /\ g.members \in [0 .. MAX_GROUP_MEMBERS - 1 -> GroupMember]
      /\ k \in 0 .. MAX_GROUP_MEMBERS - 1
      /\ g.members[k] \in [uid : Uids, nickname : Nicks]
  BY AnnouncedEntries DEF Announced, Group
<1>2. entry \in [uid : Uids, nickname : Nicks] /\ entry.uid = g.members[k].uid
  BY <1>1
<1>3. entry # NoMember
  BY <1>2, ClientAssumption DEF NoMember, NoNick
<1>4. new = [g EXCEPT !.members = [g.members EXCEPT ![k] = entry]]
  OBVIOUS
<1> HIDE DEF entry
<1>5. [g.members EXCEPT ![k] = entry] \in [0 .. MAX_GROUP_MEMBERS - 1 -> GroupMember]
  BY <1>1, <1>2 DEF GroupMember
<1>6. /\ new \in Group /\ new.member_count = g.member_count
      /\ new.members = [g.members EXCEPT ![k] = entry]
  BY <1>4, <1>5 DEF Announced, Group
<1>7. Indices(new) = Indices(g)
  BY <1>6 DEF Indices
<1>8. \A i \in Indices(g) : /\ i \in 0 .. MAX_GROUP_MEMBERS - 1
                            /\ new.members[i].uid = g.members[i].uid
                            /\ new.members[i] # NoMember
  BY <1>1, <1>2, <1>3, <1>6, AnnouncedEntries DEF Announced
<1> QED
  BY <1>6, <1>7, <1>8 DEF Announced, DistinctMembers, UidsOf

-----------------------------------------------------------------------------
(* Types.  ClientTypeOK does not follow from itself: which handler the     *)
(* receiver is in tells the type of the frame in hand, a line of the       *)
(* history has an author, and the server announces only members because    *)
(* each client asks to be one once and before anything else.               *)

FramesFit ==
  /\ receiver = "showing" => frame.type = "LMP_GRP_LOADING_MSG"
  /\ receiver = "storing" => frame.type = "LMP_GRP_OBJ"
  /\ receiver = "ending" => frame.type = "LMP_GRP_LOAD_MSG"
  /\ frame.type = "LMP_GRP_LOADING_MSG" => frame.uid \in Uids
  /\ \A n \in 1 .. Len(wire) :
       wire[n].type = "LMP_GRP_LOADING_MSG" => wire[n].uid \in Uids

RequestsFit ==
  /\ \A n \in 1 .. Len(outbox) :
       /\ outbox[n].type = "LMP_NICK" => outbox[n].nickname \in Nicks
       /\ outbox[n].type = "LMP_GRP_INIT_MEMBER" => n = 1
  /\ changes + Count(outbox, "LMP_NICK") <= MaxChanges

\* The client's request to be a member has not been read.
Joining == \E n \in 1 .. Len(outbox) : outbox[n].type = "LMP_GRP_INIT_MEMBER"

\* While the server serves the client, the client is announced once its
\* request has been read, and there is room for it until then.
MembershipFits ==
  connection # "closed" =>
    /\ DistinctMembers(current_group)
    /\ Me \in UidsOf(current_group) <=> ~Joining
    /\ current_group.member_count + (IF Joining THEN 1 ELSE 0) <= MAX_GROUP_MEMBERS

TypeInv == ClientTypeOK /\ FramesFit /\ RequestsFit /\ MembershipFits

\* Frames the server writes.
LEMMA BlankType == Blank \in ServerFrame
<1>1. ZeroGroup \in Group
  BY ZeroGroupType DEF Announced
<1>2. 0 \in 0 .. MAX_GROUP_MEMBERS - 1
  BY ClientAssumption
<1> QED
  BY <1>1, <1>2 DEF Blank, ServerFrame

LEMMA GroupFrameType ==
  ASSUME NEW g \in Group
  PROVE  \E f \in ServerFrame : /\ f = [Blank EXCEPT !.type = "LMP_GRP_OBJ", !.group = g]
                                /\ f.type = "LMP_GRP_OBJ" /\ f.group = g
<1>1. [Blank EXCEPT !.type = "LMP_GRP_OBJ", !.group = g] \in ServerFrame
  BY BlankType DEF ServerFrame
<1>2. /\ [Blank EXCEPT !.type = "LMP_GRP_OBJ", !.group = g].type = "LMP_GRP_OBJ"
      /\ [Blank EXCEPT !.type = "LMP_GRP_OBJ", !.group = g].group = g
  BY DEF Blank
<1> QED
  BY <1>1, <1>2

LEMMA MessageFrameType ==
  ASSUME NEW k \in 0 .. MAX_GROUP_MEMBERS - 1, NEW nick \in Nicks
  PROVE  \E f \in ServerFrame : /\ f = [Blank EXCEPT !.type = "LMP_MSG", !.index = k, !.as = nick]
                                /\ f.type = "LMP_MSG" /\ f.index = k /\ f.as = nick
<1>1. [Blank EXCEPT !.type = "LMP_MSG", !.index = k, !.as = nick] \in ServerFrame
  BY BlankType DEF ServerFrame
<1>2. /\ [Blank EXCEPT !.type = "LMP_MSG", !.index = k, !.as = nick].type = "LMP_MSG"
      /\ [Blank EXCEPT !.type = "LMP_MSG", !.index = k, !.as = nick].index = k
      /\ [Blank EXCEPT !.type = "LMP_MSG", !.index = k, !.as = nick].as = nick
  BY DEF Blank
<1> QED
  BY <1>1, <1>2

LEMMA LineFrameType ==
  ASSUME NEW uid \in Uids, NEW nick \in Nicks \cup {NoNick, "Unknown", "You"}
  PROVE  [Blank EXCEPT !.type = "LMP_GRP_LOADING_MSG", !.uid = uid, !.as = nick] \in ServerFrame
  BY BlankType DEF ServerFrame

LEMMA EndFrameType == [Blank EXCEPT !.type = "LMP_GRP_LOAD_MSG"] \in ServerFrame
  BY BlankType DEF ServerFrame

\* The name of a line is that of a member or one of two words.
LEMMA LineNameType ==
  ASSUME NEW g, Announced(g), NEW uid
  PROVE  LineName(g, uid) \in Nicks \cup {NoNick, "Unknown", "You"}
<1> DEFINE found == {k \in Indices(g) : g.members[k].uid = uid}
<1>1. CASE uid = Me
  BY <1>1 DEF LineName
<1>2. CASE uid # Me /\ found = {}
  BY <1>2 DEF LineName
<1>3. CASE uid # Me /\ found # {}
  <2>1. found \in SUBSET Nat
    BY DEF Indices, Announced, Group
  <2>2. Min(found) \in found
    BY <1>3, <2>1, MinOfNaturals
  <2>3. g.members[Min(found)].nickname \in Nicks
    BY <2>2, AnnouncedEntries
  <2> QED
    BY <1>3, <2>3 DEF LineName
<1> QED
  BY <1>1, <1>2, <1>3

\* The model begins in a state of these types.
LEMMA InitTyped == Init => TypeInv
<1> SUFFICES ASSUME Init PROVE TypeInv
  OBVIOUS
<1> DEFINE Fits(g) == /\ Announced(g) /\ DistinctMembers(g)
                      /\ Me \notin UidsOf(g) /\ g.member_count <= 1
<1>1. Fits(current_group)
  <2>1. CASE current_group = ZeroGroup
    <3>1. ZeroGroup.member_count = 0
      BY DEF ZeroGroup
    <3> QED
      BY <2>1, <3>1, ZeroGroupType
  <2>2. ASSUME NEW uid \in Others, current_group = AddMember(ZeroGroup, Member(uid))
        PROVE  Fits(current_group)
    <3>1. uid \in Uids /\ uid # Me
      BY ClientAssumption DEF Uids
    <3>2. ZeroGroup.member_count = 0 /\ ZeroGroup.member_count < MAX_GROUP_MEMBERS
      BY ClientAssumption DEF ZeroGroup
    <3>3. uid \notin UidsOf(ZeroGroup)
      BY ZeroGroupType
    <3> QED
      BY <2>2, <3>1, <3>2, <3>3, ZeroGroupType, MemberAdded
  <2>3. \/ current_group = ZeroGroup
        \/ \E uid \in Others : current_group = AddMember(ZeroGroup, Member(uid))
    BY DEF Init
  <2> QED
    BY <2>1, <2>2, <2>3
<1>2. PICK first : first = Sending("LMP_GRP_INIT_MEMBER", NoNick) /\ outbox = <<first>>
  BY DEF Init
<1>3. first \in ClientFrame /\ first.type = "LMP_GRP_INIT_MEMBER"
  BY <1>2 DEF Sending, ClientFrame
<1>4. /\ outbox \in Seq(ClientFrame) /\ Len(outbox) = 1
      /\ outbox[1].type = "LMP_GRP_INIT_MEMBER"
  BY <1>2, <1>3
<1>5. Count(outbox, "LMP_NICK") = 0
  BY <1>4, CountType
<1>6. MaxChanges \in Nat /\ ZeroGroup \in Group /\ Blank \in ServerFrame
  BY ClientAssumption, ZeroGroupType, BlankType DEF Announced
<1>7. ClientTypeOK
  BY <1>1, <1>4, <1>6 DEF Init, ClientTypeOK, Announced, State_t
<1>8. FramesFit
  <2>1. Len(wire) = 0 /\ receiver = "reading"
    BY DEF Init
  <2>2. frame.type # "LMP_GRP_LOADING_MSG"
    BY DEF Init, Blank
  <2> QED
    BY <2>1, <2>2 DEF FramesFit
<1>9. RequestsFit
  BY <1>4, <1>5, <1>6 DEF Init, RequestsFit
<1>10. MembershipFits
  <2>1. Joining
    BY <1>4 DEF Joining
  <2>2. current_group.member_count + 1 <= MAX_GROUP_MEMBERS
    BY <1>1, ClientAssumption DEF Announced, Group
  <2> QED
    BY <1>1, <2>1, <2>2 DEF MembershipFits
<1> QED
  BY <1>7, <1>8, <1>9, <1>10 DEF TypeInv

\* What a step of the user thread may do to what others see: the connection
\* is left at most, and one frame written, which is no request to be a
\* member and, when it is a nickname, one the bound leaves room for.
Writes(f) ==
  /\ connection = "open"
  /\ outbox' = Append(outbox, f)
  /\ f \in ClientFrame /\ f.type # "LMP_GRP_INIT_MEMBER"
  /\ f.type = "LMP_NICK" => f.nickname \in Nicks /\ ChangesToCome < MaxChanges
  /\ f.type = "LMP_GRP_LOAD_MSG" <=> user = "load_send"

UserEffect ==
  /\ UNCHANGED <<view, receiverVars, serverVars, wire>>
  /\ connection' = connection \/ (connection = "open" /\ connection' = "eof")
  /\ connection = "eof" => UNCHANGED outbox
  /\ UNCHANGED outbox \/ \E f : Writes(f)

\* Sending a frame writes it or loses it.
LEMMA SendWrites ==
  ASSUME NEW type \in {"LMP_MSG", "LMP_NICK", "LMP_GRP_LOAD_MSG"},
         NEW nick, Send(type, nick),
         type = "LMP_NICK" => nick \in Nicks /\ ChangesToCome < MaxChanges,
         type # "LMP_NICK" => nick = NoNick,
         type = "LMP_GRP_LOAD_MSG" <=> user = "load_send"
  PROVE  /\ UNCHANGED <<wire, connection>>
         /\ connection = "eof" => UNCHANGED outbox
         /\ UNCHANGED outbox \/ \E f : Writes(f)
<1> DEFINE f == Sending(type, nick)
<1>1. /\ f \in ClientFrame
      /\ f.type = type /\ f.nickname = nick
  BY DEF Sending, ClientFrame
<1>2. CASE connection = "open" /\ outbox' = Append(outbox, f)
  <2> HIDE DEF f
  <2>1. Writes(f)
    BY <1>1, <1>2 DEF Writes
  <2> QED
    BY <1>2, <2>1 DEF Send
<1>3. CASE connection = "closed" /\ UNCHANGED outbox
  BY <1>3 DEF Send
<1> QED
  BY <1>2, <1>3 DEF Send

LEMMA UserSteps ==
  ASSUME TypeInv, UserRuns \/ UserTypes
  PROVE  /\ UserEffect
         /\ user' \in {"prompt", "gi", "gi_print", "load_test", "load_set", "load_send",
                       "joining", "done"}
         /\ gi_copy' \in Group
         /\ loading_message_state' \in {loading_message_state, "STATE_REQUESTING_LOAD"}
         /\ shown' \in {shown, <<>>}
         /\ process' \in {"running", "killed", "undefined"}
<1> USE DEF UserStep, view, load, serverVars, receiverVars, net
<1>0. /\ gi_copy \in Group /\ user_group \in Group /\ ZeroGroup \in Group
      /\ process \in {"running", "killed", "undefined"}
  BY ZeroGroupType DEF TypeInv, ClientTypeOK, Announced
<1> DEFINE Goal == /\ UserEffect
                   /\ user' \in {"prompt", "gi", "gi_print", "load_test", "load_set", "load_send",
                                 "joining", "done"}
                   /\ gi_copy' \in Group
                   /\ loading_message_state' \in {loading_message_state, "STATE_REQUESTING_LOAD"}
                   /\ shown' \in {shown, <<>>}
                   /\ process' \in {"running", "killed", "undefined"}
<1>1. CASE MsgSend
  <2>1. Send("LMP_MSG", NoNick) /\ user = "prompt"
    BY <1>1 DEF MsgSend
  <2>2. /\ UNCHANGED <<wire, connection>>
        /\ connection = "eof" => UNCHANGED outbox
        /\ UNCHANGED outbox \/ \E f : Writes(f)
    BY <2>1, SendWrites
  <2> QED
    BY <1>0, <1>1, <2>2 DEF MsgSend, Send, UserEffect
<1>2. CASE NickSend
  <2>1. PICK nick \in Nicks : Send("LMP_NICK", nick)
    BY <1>2 DEF NickSend
  <2>2. user = "prompt" /\ ChangesToCome < MaxChanges
    BY <1>2 DEF NickSend
  <2>3. /\ UNCHANGED <<wire, connection>>
        /\ connection = "eof" => UNCHANGED outbox
        /\ UNCHANGED outbox \/ \E f : Writes(f)
    BY <2>1, <2>2, SendWrites
  <2> QED
    BY <1>0, <1>2, <2>1, <2>3 DEF NickSend, Send, UserEffect
<1>3. CASE GroupInfoCopyMembers
  BY <1>0, <1>3, TornCopyType DEF GroupInfoCopyMembers, UserEffect
<1>4. CASE GroupInfoCopyCount
  BY <1>0, <1>4, TornCopyType DEF GroupInfoCopyCount, UserEffect
<1>5. CASE GroupInfoPrint
  BY <1>0, <1>5 DEF GroupInfoPrint, UserEffect
<1>6. CASE LoadTestRequesting
  BY <1>0, <1>6 DEF LoadTestRequesting, UserEffect
<1>7. CASE LoadTestLoading
  BY <1>0, <1>7 DEF LoadTestLoading, UserEffect
<1>8. CASE RequestLoad
  <2>1. CASE SetRequesting("load_set", "load_send")
    BY <1>0, <2>1 DEF SetRequesting, UserEffect
  <2>2. CASE SendRequest("load_send", "prompt")
    <3>1. Send("LMP_GRP_LOAD_MSG", NoNick) /\ user = "load_send"
      BY <2>2 DEF SendRequest
    <3>2. /\ UNCHANGED <<wire, connection>>
          /\ connection = "eof" => UNCHANGED outbox
          /\ UNCHANGED outbox \/ \E f : Writes(f)
      BY <3>1, SendWrites
    <3> QED
      BY <1>0, <2>2, <3>2 DEF SendRequest, Send, UserEffect
  <2> QED
    BY <1>8, <2>1, <2>2 DEF RequestLoad
<1>9. CASE Leave
  BY <1>0, <1>9 DEF Leave, UserEffect
<1>10. CASE Join
  BY <1>0, <1>10 DEF Join, UserEffect
<1> QED
  BY <1>1, <1>2, <1>3, <1>4, <1>5, <1>6, <1>7, <1>8, <1>9, <1>10 DEF UserRuns, UserTypes

\* What is written to the server keeps its requests in order, and adds none
\* to be a member.
LEMMA WrittenRequests ==
  ASSUME TypeInv, NEW f, Writes(f)
  PROVE  /\ outbox' \in Seq(ClientFrame)
         /\ Len(outbox') = Len(outbox) + 1
         /\ \A n \in 1 .. Len(outbox) : outbox'[n] = outbox[n]
         /\ outbox'[Len(outbox) + 1] = f
         /\ changes + Count(outbox', "LMP_NICK") <= MaxChanges
         /\ Joining' <=> Joining
<1>1. /\ outbox \in Seq(ClientFrame) /\ f \in ClientFrame /\ changes \in Nat
      /\ outbox' = Append(outbox, f) /\ f.type # "LMP_GRP_INIT_MEMBER"
  BY DEF TypeInv, ClientTypeOK, Writes
<1>2. /\ outbox' \in Seq(ClientFrame)
      /\ Len(outbox') = Len(outbox) + 1
      /\ \A n \in 1 .. Len(outbox) : outbox'[n] = outbox[n]
      /\ outbox'[Len(outbox) + 1] = f
      /\ Len(outbox) \in Nat
  BY <1>1
<1>3. Joining' <=> Joining
  <2>1. Joining' <=> \E n \in 1 .. Len(outbox') : outbox'[n].type = "LMP_GRP_INIT_MEMBER"
    BY DEF Joining
  <2>2. \A n \in 1 .. Len(outbox') : n \in 1 .. Len(outbox) \/ n = Len(outbox) + 1
    BY <1>2
  <2>3. \A n \in 1 .. Len(outbox) : n \in 1 .. Len(outbox')
    BY <1>2
  <2> QED
    BY <1>1, <1>2, <2>1, <2>2, <2>3 DEF Joining
<1>4. Count(outbox', "LMP_NICK") = Count(outbox, "LMP_NICK") + IF f.type = "LMP_NICK" THEN 1 ELSE 0
  BY <1>1, CountAppend
<1>5. Count(outbox, "LMP_NICK") \in Nat /\ MaxChanges \in Nat
  BY <1>1, CountType, ClientAssumption
<1>6. changes + Count(outbox, "LMP_NICK") <= MaxChanges
  BY DEF TypeInv, RequestsFit
<1>7. f.type = "LMP_NICK" => changes + Count(outbox, "LMP_NICK") < MaxChanges
  BY DEF Writes, ChangesToCome
<1> QED
  BY <1>1, <1>2, <1>3, <1>4, <1>5, <1>6, <1>7

LEMMA UserTyped ==
  ASSUME TypeInv, UserRuns \/ UserTypes
  PROVE  TypeInv'
<1>1. /\ UserEffect
      /\ user' \in {"prompt", "gi", "gi_print", "load_test", "load_set", "load_send",
                    "joining", "done"}
      /\ gi_copy' \in Group
      /\ loading_message_state' \in {loading_message_state, "STATE_REQUESTING_LOAD"}
      /\ shown' \in {shown, <<>>}
      /\ process' \in {"running", "killed", "undefined"}
  BY UserSteps
<1>2. /\ UNCHANGED <<user_group, user_group_is_initialized, receiver, frame, peer_nick,
                     current_group, history, answer, changes, wire>>
      /\ connection' = connection \/ (connection = "open" /\ connection' = "eof")
  BY <1>1 DEF UserEffect, view, receiverVars, serverVars
<1>3. /\ outbox' \in Seq(ClientFrame)
      /\ RequestsFit'
      /\ Joining' <=> Joining
  <2>1. CASE UNCHANGED outbox
    BY <1>2, <2>1 DEF TypeInv, ClientTypeOK, RequestsFit, Joining
  <2>2. ASSUME NEW f, Writes(f) PROVE <1>3
    <3>1. /\ outbox' \in Seq(ClientFrame)
          /\ Len(outbox') = Len(outbox) + 1
          /\ \A n \in 1 .. Len(outbox) : outbox'[n] = outbox[n]
          /\ outbox'[Len(outbox) + 1] = f
          /\ changes + Count(outbox', "LMP_NICK") <= MaxChanges
          /\ Joining' <=> Joining
      BY <2>2, WrittenRequests
    <3>2. Len(outbox) \in Nat
      BY DEF TypeInv, ClientTypeOK
    <3>3. \A n \in 1 .. Len(outbox') : n \in 1 .. Len(outbox) \/ n = Len(outbox) + 1
      BY <3>1, <3>2
    <3>4. RequestsFit'
      BY <1>2, <2>2, <3>1, <3>3 DEF TypeInv, RequestsFit, Writes
    <3> QED
      BY <3>1, <3>4
  <2> QED
    BY <1>1, <2>1, <2>2 DEF UserEffect
<1>4. ClientTypeOK'
  <2>1. <<>> \in Seq(Uids)
    OBVIOUS
  <2> QED
    BY <1>1, <1>2, <1>3, <2>1 DEF TypeInv, ClientTypeOK, State_t, Indices
<1>5. FramesFit'
  BY <1>2 DEF TypeInv, FramesFit
<1>6. MembershipFits'
  BY <1>2, <1>3 DEF TypeInv, MembershipFits, DistinctMembers, Indices, UidsOf
<1> QED
  BY <1>3, <1>4, <1>5, <1>6 DEF TypeInv

\* A step of the receiver.
LEMMA ReceiverTyped ==
  ASSUME TypeInv, ReceiverRuns
  PROVE  TypeInv'
<1> USE DEF ReceiverStep, userVars, serverVars, load, view
<1>1. UNCHANGED <<user, gi_copy, outbox, connection, current_group, history, answer, changes>>
  BY DEF ReceiverRuns, Receive, Disconnect, MsgRecv, GrpObjRecvMembers, GrpObjRecvCount,
         LoadingMsgRecvTest, LoadingMsgRecvShow, LoadMsgRecvTest, LoadMsgRecvEnd, Handle
<1>2. RequestsFit' /\ MembershipFits'
  BY <1>1 DEF TypeInv, RequestsFit, MembershipFits, DistinctMembers, Indices, UidsOf, Joining
<1>3. /\ wire \in Seq(ServerFrame) /\ frame \in ServerFrame /\ user_group \in Group
      /\ ClientTypeOK /\ FramesFit
  BY DEF TypeInv, ClientTypeOK
<1> SUFFICES ClientTypeOK' /\ FramesFit'
  BY <1>2 DEF TypeInv
<1>4. CASE Receive
  <2>1. wire # <<>> /\ frame' = Head(wire) /\ wire' = Tail(wire) /\ receiver' = "dispatch"
    BY <1>4 DEF Receive
  <2>2. /\ Len(wire) \in Nat \ {0}
        /\ frame' = wire[1] /\ frame' \in ServerFrame
        /\ wire' \in Seq(ServerFrame)
        /\ Len(wire') = Len(wire) - 1
        /\ \A k \in 1 .. Len(wire) - 1 : wire'[k] = wire[k + 1]
    BY <1>3, <2>1, TailShifts
  <2>3. peer_nick' \in Nicks \cup {NoNick}
    <3>1. frame'.index \in 0 .. MAX_GROUP_MEMBERS - 1
      BY <2>2 DEF ServerFrame
    <3>2. user_group.members[frame'.index] \in GroupMember
      BY <1>3, <3>1 DEF Group
    <3> QED
      BY <1>4, <3>2 DEF Receive, GroupMember, NoMember
  <2>4. ClientTypeOK'
    BY <1>1, <1>3, <1>4, <2>1, <2>2, <2>3 DEF Receive, ClientTypeOK, Indices
  <2>5. FramesFit'
    <3>1. 1 \in 1 .. Len(wire) /\ \A k \in 1 .. Len(wire') : k + 1 \in 1 .. Len(wire) /\ k \in 1 .. Len(wire) - 1
      BY <2>2
    <3> QED
      BY <1>3, <2>1, <2>2, <3>1 DEF FramesFit
  <2> QED
    BY <2>4, <2>5
<1>5. CASE Disconnect
  BY <1>1, <1>3, <1>5 DEF Disconnect, ClientTypeOK, FramesFit, Indices
<1>6. CASE MsgRecv
  BY <1>1, <1>3, <1>6 DEF MsgRecv, Handle, ClientTypeOK, FramesFit, Indices
<1>7. CASE GrpObjRecvMembers
  <2>1. frame.group \in Group
    BY <1>3 DEF ServerFrame
  <2>2. user_group' \in Group
    BY <1>3, <1>7, <2>1, TornCopyType DEF GrpObjRecvMembers
  <2> QED
    BY <1>1, <1>3, <1>7, <2>2 DEF GrpObjRecvMembers, Handle, ClientTypeOK, FramesFit, Indices
<1>8. CASE GrpObjRecvCount
  <2>1. frame.group \in Group
    BY <1>3 DEF ServerFrame
  <2>2. user_group' \in Group
    BY <1>3, <1>8, <2>1, TornCopyType DEF GrpObjRecvCount
  <2> QED
    BY <1>1, <1>3, <1>8, <2>2 DEF GrpObjRecvCount, ClientTypeOK, FramesFit, Indices
<1>9. CASE LoadingMsgRecvTest
  BY <1>1, <1>3, <1>9 DEF LoadingMsgRecvTest, Handle, ClientTypeOK, FramesFit, Indices
<1>10. CASE LoadingMsgRecvShow
  <2>1. shown' \in Seq(Uids)
    BY <1>3, <1>10 DEF LoadingMsgRecvShow, ClientTypeOK, FramesFit
  <2> QED
    BY <1>1, <1>3, <1>10, <2>1 DEF LoadingMsgRecvShow, ClientTypeOK, FramesFit, Indices, State_t
<1>11. CASE LoadMsgRecvTest
  BY <1>1, <1>3, <1>11 DEF LoadMsgRecvTest, Handle, ClientTypeOK, FramesFit, Indices
<1>12. CASE LoadMsgRecvEnd
  BY <1>1, <1>3, <1>12 DEF LoadMsgRecvEnd, ClientTypeOK, FramesFit, Indices, State_t
<1> QED
  BY <1>4, <1>5, <1>6, <1>7, <1>8, <1>9, <1>10, <1>11, <1>12 DEF ReceiverRuns

-----------------------------------------------------------------------------
(* The server keeps the types. *)

\* As many UIDs are announced as there are members.
LEMMA MembersCounted ==
  ASSUME NEW g, Announced(g), DistinctMembers(g)
  PROVE  IsFiniteSet(UidsOf(g)) /\ Cardinality(UidsOf(g)) = g.member_count
<1> DEFINE uids  == UidsOf(g)
           count == g.member_count
           at    == [k \in 1 .. count |-> g.members[k - 1].uid]
<1>1. count \in Nat
  BY ClientAssumption DEF Announced, Group
<1>2. \A k \in 1 .. count : k - 1 \in Indices(g) /\ k = (k - 1) + 1
  BY <1>1 DEF Indices
<1>3. \A k \in Indices(g) : k + 1 \in 1 .. count /\ k = (k + 1) - 1
  BY <1>1 DEF Indices
<1>4. at \in [1 .. count -> uids]
  BY <1>2 DEF UidsOf
<1>5. ASSUME NEW i \in 1 .. count, NEW j \in 1 .. count, at[i] = at[j] PROVE i = j
  <2>1. i - 1 = j - 1
    BY <1>2, <1>5 DEF DistinctMembers
  <2> QED
    BY <1>1, <2>1
<1>6. ASSUME NEW u \in uids PROVE \E k \in 1 .. count : at[k] = u
  <2>1. PICK k \in Indices(g) : u = g.members[k].uid
    BY DEF UidsOf
  <2>2. at[k + 1] = u
    BY <1>3, <2>1
  <2> QED
    BY <1>3, <2>2
<1>7. at \in Bijection(1 .. count, uids)
  BY <1>4, <1>5, <1>6 DEF Bijection, Injection, Surjection, IsInjective
<1> HIDE DEF at, uids, count
<1>8. ExistsBijection(1 .. count, uids)
  BY <1>7 DEF ExistsBijection
<1>9. IsFiniteSet(uids)
  BY <1>1, <1>8, FS_NatBijection
<1> QED
  BY <1>1, <1>8, <1>9, FS_CountingElements DEF uids, count

\* What the others do to the group does not change whether this client is
\* announced, nor take the place that is kept for it.
LEMMA OtherGroupsFit ==
  ASSUME TypeInv, connection # "closed", NEW group \in OtherGroups
  PROVE  /\ Announced(group)
         /\ DistinctMembers(group)
         /\ Me \in UidsOf(group) <=> ~Joining
         /\ group.member_count + (IF Joining THEN 1 ELSE 0) <= MAX_GROUP_MEMBERS
<1> DEFINE cur == current_group
<1>1. /\ Announced(cur) /\ DistinctMembers(cur)
      /\ Me \in UidsOf(cur) <=> ~Joining
      /\ cur.member_count + (IF Joining THEN 1 ELSE 0) <= MAX_GROUP_MEMBERS
      /\ cur.member_count \in Nat /\ MAX_GROUP_MEMBERS \in Nat
  BY ClientAssumption DEF TypeInv, ClientTypeOK, MembershipFits, Announced, Group
<1>2. ASSUME NEW uid \in Others \ UidsOf(cur),
             Cardinality(UidsOf(cur) \cup {Me, uid}) <= MAX_GROUP_MEMBERS,
             group = AddMember(cur, Member(uid))
      PROVE  /\ Announced(group)
             /\ DistinctMembers(group)
             /\ Me \in UidsOf(group) <=> ~Joining
             /\ group.member_count + (IF Joining THEN 1 ELSE 0) <= MAX_GROUP_MEMBERS
  <2>1. uid \in Uids /\ uid # Me
    BY ClientAssumption DEF Uids
  <2>2. IsFiniteSet(UidsOf(cur)) /\ Cardinality(UidsOf(cur)) = cur.member_count
    BY <1>1, MembersCounted
  <2>3. PICK more : more = UidsOf(cur) \cup {uid}
    OBVIOUS
  <2>4. IsFiniteSet(more) /\ Cardinality(more) = cur.member_count + 1
    BY <2>2, <2>3, FS_AddElement
  <2>5. UidsOf(cur) \cup {Me, uid} = more \cup {Me}
    BY <2>3
  <2>6. cur.member_count + 1 + (IF Joining THEN 1 ELSE 0) <= MAX_GROUP_MEMBERS
    <3>1. CASE Joining
      <4>1. Me \notin more
        BY <1>1, <2>1, <2>3, <3>1
      <4>2. Cardinality(more \cup {Me}) = Cardinality(more) + 1
        BY <2>4, <4>1, FS_AddElement
      <4> QED
        BY <1>1, <1>2, <2>4, <2>5, <3>1, <4>2
    <3>2. CASE ~Joining
      <4>1. UidsOf(cur) \cup {Me, uid} = more
        BY <1>1, <2>3, <3>2
      <4>2. Cardinality(more) <= MAX_GROUP_MEMBERS
        BY <1>2, <4>1
      <4> QED
        BY <1>1, <2>4, <3>2, <4>2
    <3> QED
      BY <3>1, <3>2
  <2>7. cur.member_count < MAX_GROUP_MEMBERS
    BY <1>1, <2>6
  <2>8. /\ Announced(group) /\ DistinctMembers(group)
        /\ UidsOf(group) = UidsOf(cur) \cup {uid}
        /\ group.member_count = cur.member_count + 1
    BY <1>1, <1>2, <2>1, <2>7, MemberAdded
  <2> QED
    BY <1>1, <2>1, <2>6, <2>8
<1>3. ASSUME NEW k \in OthersAt, group = DropMember(cur, k)
      PROVE  /\ Announced(group)
             /\ DistinctMembers(group)
             /\ Me \in UidsOf(group) <=> ~Joining
             /\ group.member_count + (IF Joining THEN 1 ELSE 0) <= MAX_GROUP_MEMBERS
  <2>1. k \in Indices(cur) /\ cur.members[k].uid # Me
    BY DEF OthersAt
  <2>2. /\ Announced(group) /\ DistinctMembers(group)
        /\ UidsOf(group) = UidsOf(cur) \ {cur.members[k].uid}
        /\ group.member_count = cur.member_count - 1
    BY <1>1, <1>3, <2>1, MemberDropped
  <2> QED
    BY <1>1, <2>1, <2>2
<1>4. ASSUME NEW k \in OthersAt, NEW nick \in Nicks,
             group = [cur EXCEPT !.members[k].nickname = nick]
      PROVE  /\ Announced(group)
             /\ DistinctMembers(group)
             /\ Me \in UidsOf(group) <=> ~Joining
             /\ group.member_count + (IF Joining THEN 1 ELSE 0) <= MAX_GROUP_MEMBERS
  <2>1. k \in Indices(cur)
    BY DEF OthersAt
  <2>2. /\ Announced(group) /\ DistinctMembers(group)
        /\ UidsOf(group) = UidsOf(cur)
        /\ group.member_count = cur.member_count
    BY <1>1, <1>4, <2>1, MemberRenamed
  <2> QED
    BY <1>1, <2>2
<1>5. \/ \E uid \in Others \ UidsOf(cur) :
           /\ Cardinality(UidsOf(cur) \cup {Me, uid}) <= MAX_GROUP_MEMBERS
           /\ group = AddMember(cur, Member(uid))
      \/ \E k \in OthersAt : group = DropMember(cur, k)
      \/ \E k \in OthersAt, nick \in Nicks : group = [cur EXCEPT !.members[k].nickname = nick]
  <2> DEFINE Joiners == {o \in Others \ UidsOf(current_group) :
                           Cardinality(UidsOf(current_group) \cup {Me, o}) <= MAX_GROUP_MEMBERS}
             Joined == {AddMember(current_group, Member(uid)) : uid \in Joiners}
             Left == {DropMember(current_group, k) : k \in OthersAt}
             Renamed == {[current_group EXCEPT !.members[k].nickname = nickname] :
                           k \in OthersAt, nickname \in Nicks}
  <2>1. CASE group \in Joined
    <3>1. PICK uid \in Joiners : group = AddMember(current_group, Member(uid))
      BY <2>1, Zenon
    <3>2. uid \in Others \ UidsOf(cur) /\ Cardinality(UidsOf(cur) \cup {Me, uid}) <= MAX_GROUP_MEMBERS
      OBVIOUS
    <3> QED
      BY <3>1, <3>2, Zenon
  <2>2. CASE group \in Left
    BY <2>2, Zenon
  <2>3. CASE group \in Renamed
    BY <2>3
  <2>4. OtherGroups = Joined \cup Left \cup Renamed
    BY DEF OtherGroups
  <2> HIDE DEF Joined, Left, Renamed
  <2> QED
    BY <2>1, <2>2, <2>3, <2>4
<1> QED
  BY <1>2, <1>3, <1>4, <1>5

\* Once the server has read a request, the client's wish to be a member is
\* not among those that are left.
LEMMA TakenRequest ==
  ASSUME TypeInv, NEW type, ServerReads(type)
  PROVE  /\ outbox' \in Seq(ClientFrame)
         /\ Len(outbox') = Len(outbox) - 1
         /\ Head(outbox) = outbox[1] /\ Head(outbox) \in ClientFrame /\ Len(outbox) >= 1
         /\ Head(outbox).type = type
         /\ \A k \in 1 .. Len(outbox) - 1 : outbox'[k] = outbox[k + 1]
         /\ RequestsFit'
         /\ changes' \in 0 .. MaxChanges
         /\ ~Joining'
         /\ type # "LMP_GRP_INIT_MEMBER" => ~Joining
         /\ type = "LMP_GRP_INIT_MEMBER" => Joining
<1>1. /\ outbox \in Seq(ClientFrame) /\ outbox # <<>> /\ outbox' = Tail(outbox)
      /\ Head(outbox).type = type
      /\ changes' = IF type = "LMP_NICK" THEN changes + 1 ELSE changes
      /\ changes \in Nat /\ MaxChanges \in Nat
  BY ClientAssumption DEF TypeInv, ClientTypeOK, ServerReads
<1>2. /\ Len(outbox) \in Nat \ {0}
      /\ Head(outbox) = outbox[1] /\ Head(outbox) \in ClientFrame
      /\ outbox' \in Seq(ClientFrame)
      /\ Len(outbox') = Len(outbox) - 1
      /\ \A k \in 1 .. Len(outbox) - 1 : outbox'[k] = outbox[k + 1]
  BY <1>1, TailShifts
<1>3. \A k \in 1 .. Len(outbox') : /\ k \in 1 .. Len(outbox) - 1
                                   /\ k + 1 \in 1 .. Len(outbox) /\ k + 1 # 1
  BY <1>2
<1>4. \A k \in 1 .. Len(outbox') : /\ outbox'[k].type # "LMP_GRP_INIT_MEMBER"
                                   /\ outbox'[k].type = "LMP_NICK" => outbox'[k].nickname \in Nicks
  BY <1>2, <1>3 DEF TypeInv, RequestsFit
<1>5. Count(outbox, "LMP_NICK") = Count(outbox', "LMP_NICK") + IF type = "LMP_NICK" THEN 1 ELSE 0
  BY <1>1, CountTail
<1>6. Count(outbox', "LMP_NICK") \in Nat /\ changes + Count(outbox, "LMP_NICK") <= MaxChanges
  BY <1>2, CountType DEF TypeInv, RequestsFit
<1>7. changes' + Count(outbox', "LMP_NICK") <= MaxChanges /\ changes' \in 0 .. MaxChanges
  <2>1. CASE type = "LMP_NICK"
    BY <1>1, <1>5, <1>6, <2>1
  <2>2. CASE type # "LMP_NICK"
    BY <1>1, <1>5, <1>6, <2>2
  <2> QED
    BY <2>1, <2>2
<1>8. RequestsFit'
  BY <1>4, <1>7 DEF RequestsFit
<1>9. ~Joining'
  BY <1>4 DEF Joining
<1>10. Joining <=> outbox[1].type = "LMP_GRP_INIT_MEMBER"
  BY <1>2 DEF Joining, TypeInv, RequestsFit
<1> QED
  BY <1>1, <1>2, <1>7, <1>8, <1>9, <1>10

\* Frames written to the client fit when each of them does.
LEMMA WrittenFramesFit ==
  ASSUME TypeInv, NEW frames \in Seq(ServerFrame), ServerWrites(frames),
         UNCHANGED <<receiver, frame>>,
         \A k \in 1 .. Len(frames) :
           frames[k].type = "LMP_GRP_LOADING_MSG" => frames[k].uid \in Uids
  PROVE  /\ wire' \in Seq(ServerFrame)
         /\ Len(wire') = Len(wire) + Len(frames)
         /\ \A n \in 1 .. Len(wire) : wire'[n] = wire[n]
         /\ \A n \in 1 .. Len(frames) : wire'[Len(wire) + n] = frames[n]
         /\ FramesFit'
<1>1. wire \in Seq(ServerFrame) /\ wire' = wire \o frames
  BY DEF TypeInv, ClientTypeOK, ServerWrites
<1>2. /\ wire' \in Seq(ServerFrame)
      /\ Len(wire') = Len(wire) + Len(frames)
      /\ Len(wire) \in Nat /\ Len(frames) \in Nat
      /\ \A n \in 1 .. Len(wire) : wire'[n] = wire[n]
      /\ \A n \in 1 .. Len(frames) : wire'[Len(wire) + n] = frames[n]
  BY <1>1, ConcatElements
<1>3. ASSUME NEW n \in 1 .. Len(wire'), wire'[n].type = "LMP_GRP_LOADING_MSG"
      PROVE  wire'[n].uid \in Uids
  <2>1. CASE n \in 1 .. Len(wire)
    BY <1>2, <1>3, <2>1 DEF TypeInv, FramesFit
  <2>2. CASE n \notin 1 .. Len(wire)
    <3>1. n - Len(wire) \in 1 .. Len(frames) /\ n = Len(wire) + (n - Len(wire))
      BY <1>2, <2>2
    <3>2. wire'[n] = frames[n - Len(wire)]
      BY <1>2, <3>1
    <3> QED
      BY <1>3, <3>1, <3>2
  <2> QED
    BY <2>1, <2>2
<1>4. FramesFit'
  BY <1>3 DEF TypeInv, FramesFit
<1> QED
  BY <1>2, <1>4

\* A single frame.
LEMMA OneFrameWritten ==
  ASSUME TypeInv, NEW f \in ServerFrame, f.type # "LMP_GRP_LOADING_MSG", ServerWrites(<<f>>),
         UNCHANGED <<receiver, frame>>
  PROVE  /\ wire' \in Seq(ServerFrame)
         /\ Len(wire') = Len(wire) + 1
         /\ \A n \in 1 .. Len(wire) : wire'[n] = wire[n]
         /\ wire'[Len(wire) + 1] = f
         /\ FramesFit'
<1>1. PICK one : one = <<f>> /\ one \in Seq(ServerFrame) /\ Len(one) = 1 /\ one[1] = f
  <2>1. <<f>> \in Seq(ServerFrame) /\ Len(<<f>>) = 1 /\ <<f>>[1] = f
    OBVIOUS
  <2> QED
    BY <2>1
<1>2. ServerWrites(one)
  BY <1>1
<1>3. \A k \in 1 .. Len(one) : one[k].type = "LMP_GRP_LOADING_MSG" => one[k].uid \in Uids
  BY <1>1
<1>4. /\ wire' \in Seq(ServerFrame)
      /\ Len(wire') = Len(wire) + 1
      /\ \A n \in 1 .. Len(wire) : wire'[n] = wire[n]
      /\ \A n \in 1 .. Len(one) : wire'[Len(wire) + n] = one[n]
      /\ FramesFit'
  BY <1>1, <1>2, <1>3, WrittenFramesFit
<1> QED
  BY <1>1, <1>4

\* The answer to a load, as one sequence of frames.
AnswerFrames ==
  [n \in 1 .. Len(history) |->
     [Blank EXCEPT !.type = "LMP_GRP_LOADING_MSG", !.uid = history[n],
                   !.as = LineName(current_group, history[n])]]
  \o <<[Blank EXCEPT !.type = "LMP_GRP_LOAD_MSG"]>>

LEMMA AnswerFramesAre ==
  ASSUME ClientTypeOK
  PROVE  /\ AnswerFrames \in Seq(ServerFrame)
         /\ Len(AnswerFrames) = Len(history) + 1
         /\ \A k \in 1 .. Len(history) :
              /\ AnswerFrames[k].type = "LMP_GRP_LOADING_MSG"
              /\ AnswerFrames[k].uid = history[k]
              /\ AnswerFrames[k].as = LineName(current_group, history[k])
         /\ AnswerFrames[Len(history) + 1].type = "LMP_GRP_LOAD_MSG"
<1> DEFINE line(n) == [Blank EXCEPT !.type = "LMP_GRP_LOADING_MSG", !.uid = history[n],
                                    !.as = LineName(current_group, history[n])]
           lines   == [n \in 1 .. Len(history) |-> line(n)]
           end     == [Blank EXCEPT !.type = "LMP_GRP_LOAD_MSG"]
<1>1. history \in Seq(Uids) /\ Announced(current_group) /\ Len(history) \in Nat
  BY DEF ClientTypeOK, Announced
<1>2. \A n \in 1 .. Len(history) : /\ line(n) \in ServerFrame
                                   /\ line(n).type = "LMP_GRP_LOADING_MSG"
                                   /\ line(n).uid = history[n]
                                   /\ line(n).as = LineName(current_group, history[n])
  <2> TAKE n \in 1 .. Len(history)
  <2>1. history[n] \in Uids
    BY <1>1
  <2>2. LineName(current_group, history[n]) \in Nicks \cup {NoNick, "Unknown", "You"}
    BY <1>1, LineNameType
  <2>3. line(n) \in ServerFrame
    BY <2>1, <2>2, LineFrameType
  <2> QED
    BY <2>3 DEF Blank
<1>3. end \in ServerFrame /\ end.type = "LMP_GRP_LOAD_MSG"
  BY EndFrameType DEF Blank
<1> HIDE DEF line, end
<1>4. lines \in Seq(ServerFrame) /\ Len(lines) = Len(history)
  BY <1>1, <1>2
<1>5. \A k \in 1 .. Len(history) : lines[k] = line(k)
  OBVIOUS
<1>6. AnswerFrames = lines \o <<end>>
  BY DEF AnswerFrames, line, end
<1> HIDE DEF lines
<1>7. /\ lines \o <<end>> \in Seq(ServerFrame)
      /\ Len(lines \o <<end>>) = Len(history) + 1
      /\ \A k \in 1 .. Len(history) : (lines \o <<end>>)[k] = lines[k]
      /\ (lines \o <<end>>)[Len(history) + 1] = end
  BY <1>1, <1>3, <1>4
<1> QED
  BY <1>2, <1>3, <1>5, <1>6, <1>7

\* This client is found among the members, once it is one.
LEMMA MyIndexFound ==
  ASSUME Me \in UidsOf(current_group)
  PROVE  MyIndex \in Indices(current_group) /\ current_group.members[MyIndex].uid = Me
  BY DEF MyIndex, UidsOf

\* A step of the server, or the end of it.
LEMMA ServerTyped ==
  ASSUME TypeInv, ServerRuns \/ OthersAct \/ ServerEnds
  PROVE  TypeInv'
<1>1. /\ UNCHANGED <<user, gi_copy, loading_message_state, shown, user_group,
                     user_group_is_initialized, receiver, frame, peer_nick, process>>
      /\ connection # "closed"
  BY DEF ServerRuns, OthersAct, ServerReadsInit, ServerReadsNick, ServerReadsMsg, ServerReadsLoad,
         ServerReadsEof, ServerReads, OtherChangesGroup, OtherSays, ServerEnds, ClientWaits,
         userVars, load, view, receiverVars
<1>2. /\ Announced(current_group) /\ DistinctMembers(current_group)
      /\ Me \in UidsOf(current_group) <=> ~Joining
      /\ current_group.member_count + (IF Joining THEN 1 ELSE 0) <= MAX_GROUP_MEMBERS
      /\ current_group.member_count \in Nat /\ MAX_GROUP_MEMBERS \in Nat
      /\ current_group \in Group
      /\ MaxChanges \in Nat /\ changes \in Nat
  <2>1. Announced(current_group)
    BY DEF TypeInv, ClientTypeOK, Announced
  <2>2. current_group \in Group
    BY <2>1 DEF Announced
  <2>3. current_group.member_count \in Nat
    BY <2>2 DEF Group
  <2>4. MAX_GROUP_MEMBERS \in Nat /\ MaxChanges \in Nat /\ changes \in Nat
    BY ClientAssumption DEF TypeInv, ClientTypeOK
  <2> QED
    BY <1>1, <2>1, <2>2, <2>3, <2>4 DEF TypeInv, MembershipFits
\* What remains to be shown of a step.
<1>3. SUFFICES /\ outbox' \in Seq(ClientFrame)
               /\ wire' \in Seq(ServerFrame)
               /\ connection' \in {"open", "eof", "closed"}
               /\ Announced(current_group')
               /\ history' \in Seq(Uids)
               /\ answer' \in Seq(Uids)
               /\ changes' \in 0 .. MaxChanges
               /\ FramesFit'
               /\ RequestsFit'
               /\ MembershipFits'
  BY <1>1 DEF TypeInv, ClientTypeOK, Announced, Indices
<1>4. /\ outbox \in Seq(ClientFrame) /\ wire \in Seq(ServerFrame)
      /\ connection \in {"open", "eof", "closed"}
      /\ history \in Seq(Uids) /\ answer \in Seq(Uids)
      /\ changes + Count(outbox, "LMP_NICK") <= MaxChanges
      /\ Count(outbox, "LMP_NICK") \in Nat
  BY CountType DEF TypeInv, ClientTypeOK, RequestsFit
\* A new group is announced.
<1>5. ASSUME NEW group, ServerSetsGroup(group), Announced(group), DistinctMembers(group),
             Me \in UidsOf(group) <=> ~Joining',
             group.member_count + (IF Joining' THEN 1 ELSE 0) <= MAX_GROUP_MEMBERS
      PROVE  /\ wire' \in Seq(ServerFrame) /\ FramesFit' /\ MembershipFits'
             /\ current_group' = group
             /\ UNCHANGED <<connection, history, answer>>
  <2>1. PICK f : /\ f = [Blank EXCEPT !.type = "LMP_GRP_OBJ", !.group = group]
                 /\ f \in ServerFrame /\ f.type = "LMP_GRP_OBJ"
    <3>1. group \in Group
      BY <1>5 DEF Announced
    <3> QED
      BY <3>1, GroupFrameType
  <2>2. ServerWrites(<<f>>)
    BY <1>5, <2>1 DEF ServerSetsGroup
  <2>3. wire' \in Seq(ServerFrame) /\ FramesFit'
    BY <1>1, <2>1, <2>2, OneFrameWritten
  <2>4. current_group' = group /\ UNCHANGED <<connection, history, answer>>
    BY <1>5 DEF ServerSetsGroup
  <2>5. MembershipFits'
    BY <1>5, <2>4 DEF MembershipFits, DistinctMembers, Indices, UidsOf
  <2> QED
    BY <2>3, <2>4, <2>5
<1>6. ASSUME UNCHANGED <<connection, current_group>>, Joining' <=> Joining
      PROVE  MembershipFits'
  BY <1>6 DEF TypeInv, MembershipFits, DistinctMembers, Indices, UidsOf
<1>7. CASE OtherChangesGroup
  <2>1. PICK group \in OtherGroups : ServerSetsGroup(group)
    BY <1>7 DEF OtherChangesGroup
  <2>2. UNCHANGED outbox /\ changes' = changes + 1 /\ changes + Count(outbox, "LMP_NICK") < MaxChanges
    BY <1>7 DEF OtherChangesGroup, ChangesToCome
  <2>3. /\ Announced(group) /\ DistinctMembers(group)
        /\ Me \in UidsOf(group) <=> ~Joining
        /\ group.member_count + (IF Joining THEN 1 ELSE 0) <= MAX_GROUP_MEMBERS
    BY <1>1, OtherGroupsFit
  <2>4. Joining' <=> Joining
    BY <2>2 DEF Joining
  <2>5. /\ wire' \in Seq(ServerFrame) /\ FramesFit' /\ MembershipFits'
        /\ current_group' = group
        /\ UNCHANGED <<connection, history, answer>>
    BY <1>5, <2>1, <2>3, <2>4
  <2>6. changes' \in 0 .. MaxChanges /\ RequestsFit'
    BY <1>2, <1>4, <2>2 DEF TypeInv, RequestsFit
  <2> QED
    BY <1>4, <2>2, <2>3, <2>5, <2>6
<1>8. CASE OtherSays
  <2>1. PICK k \in OthersAt :
          /\ history' = Append(history, current_group.members[k].uid)
          /\ ServerWrites(<<[Blank EXCEPT !.type = "LMP_MSG", !.index = k,
                                          !.as = current_group.members[k].nickname]>>)
    BY <1>8 DEF OtherSays
  <2>2. UNCHANGED <<outbox, connection, current_group, answer, changes>>
    BY <1>8 DEF OtherSays
  <2>3. /\ k \in 0 .. MAX_GROUP_MEMBERS - 1
        /\ current_group.members[k].uid \in Uids /\ current_group.members[k].nickname \in Nicks
    BY <1>2, AnnouncedEntries DEF OthersAt
  <2>4. PICK f : /\ f = [Blank EXCEPT !.type = "LMP_MSG", !.index = k,
                                      !.as = current_group.members[k].nickname]
                 /\ f \in ServerFrame /\ f.type = "LMP_MSG"
    <3>1. PICK nick \in Nicks : nick = current_group.members[k].nickname
      BY <2>3
    <3>2. PICK at \in 0 .. MAX_GROUP_MEMBERS - 1 : at = k
      BY <2>3
    <3>3. \E f \in ServerFrame : /\ f = [Blank EXCEPT !.type = "LMP_MSG", !.index = at, !.as = nick]
                                 /\ f.type = "LMP_MSG" /\ f.index = at /\ f.as = nick
      BY MessageFrameType
    <3> QED
      BY <3>1, <3>2, <3>3
  <2>5. wire' \in Seq(ServerFrame) /\ FramesFit'
    BY <1>1, <2>1, <2>4, OneFrameWritten
  <2>6. history' \in Seq(Uids)
    BY <1>4, <2>1, <2>3
  <2>7. MembershipFits'
    BY <1>6, <2>2 DEF Joining
  <2>8. RequestsFit'
    BY <2>2 DEF TypeInv, RequestsFit
  <2>9. changes' \in 0 .. MaxChanges
    BY <2>2 DEF TypeInv, ClientTypeOK
  <2> QED
    BY <1>2, <1>4, <2>2, <2>5, <2>6, <2>7, <2>8, <2>9
<1>9. CASE ServerReadsInit
  <2>1. ServerReads("LMP_GRP_INIT_MEMBER") /\ ServerSetsGroup(AddMember(current_group, Member(Me)))
    BY <1>9 DEF ServerReadsInit
  <2>2. /\ outbox' \in Seq(ClientFrame) /\ RequestsFit' /\ changes' \in 0 .. MaxChanges
        /\ ~Joining' /\ Joining
    BY <2>1, TakenRequest
  <2>3. /\ Me \in Uids /\ Me \notin UidsOf(current_group)
        /\ current_group.member_count < MAX_GROUP_MEMBERS
    BY <1>2, <2>2 DEF Uids
  <2>4. PICK group : group = AddMember(current_group, Member(Me))
    OBVIOUS
  <2>5. /\ Announced(group) /\ DistinctMembers(group)
        /\ UidsOf(group) = UidsOf(current_group) \cup {Me}
        /\ group.member_count = current_group.member_count + 1
    BY <1>2, <2>3, <2>4, MemberAdded
  <2>6. /\ wire' \in Seq(ServerFrame) /\ FramesFit' /\ MembershipFits'
        /\ current_group' = group
        /\ UNCHANGED <<connection, history, answer>>
    <3>1. group.member_count + (IF Joining' THEN 1 ELSE 0) <= MAX_GROUP_MEMBERS
      BY <1>2, <2>2, <2>3, <2>5
    <3> QED
      BY <1>5, <2>1, <2>2, <2>4, <2>5, <3>1
  <2> QED
    BY <1>4, <2>2, <2>5, <2>6
<1>10. CASE ServerReadsNick
  <2>1. /\ ServerReads("LMP_NICK")
        /\ ServerSetsGroup([current_group EXCEPT !.members[MyIndex].nickname
                                                   = Head(outbox).nickname])
    BY <1>10 DEF ServerReadsNick
  <2>2. /\ outbox' \in Seq(ClientFrame) /\ RequestsFit' /\ changes' \in 0 .. MaxChanges
        /\ ~Joining' /\ ~Joining
    BY <2>1, TakenRequest
  <2>3. Head(outbox).nickname \in Nicks
    BY <2>1, TakenRequest DEF TypeInv, RequestsFit
  <2>4. MyIndex \in Indices(current_group)
    BY <1>2, <2>2, MyIndexFound
  <2>5. PICK group : group = [current_group EXCEPT !.members[MyIndex].nickname
                                                     = Head(outbox).nickname]
    OBVIOUS
  <2>6. /\ Announced(group) /\ DistinctMembers(group)
        /\ UidsOf(group) = UidsOf(current_group)
        /\ group.member_count = current_group.member_count
    BY <1>2, <2>3, <2>4, <2>5, MemberRenamed
  <2>7. /\ wire' \in Seq(ServerFrame) /\ FramesFit' /\ MembershipFits'
        /\ current_group' = group
        /\ UNCHANGED <<connection, history, answer>>
    BY <1>2, <1>5, <2>1, <2>2, <2>5, <2>6
  <2> QED
    BY <1>4, <2>2, <2>6, <2>7
<1>11. CASE ServerReadsMsg
  <2>1. /\ ServerReads("LMP_MSG") /\ history' = Append(history, Me)
        /\ UNCHANGED <<wire, current_group, answer, connection>>
    BY <1>11 DEF ServerReadsMsg, ServerReads
  <2>2. /\ outbox' \in Seq(ClientFrame) /\ RequestsFit' /\ changes' \in 0 .. MaxChanges
        /\ ~Joining' /\ ~Joining
    BY <2>1, TakenRequest
  <2>3. history' \in Seq(Uids)
    BY <1>4, <2>1 DEF Uids
  <2>4. FramesFit'
    BY <1>1, <2>1 DEF TypeInv, FramesFit
  <2> QED
    BY <1>2, <1>4, <1>6, <2>1, <2>2, <2>3, <2>4
<1>12. CASE ServerReadsLoad
  <2>1. /\ ServerReads("LMP_GRP_LOAD_MSG") /\ answer' = history
        /\ ServerWrites(AnswerFrames)
        /\ UNCHANGED <<history, current_group, connection>>
    BY <1>12 DEF ServerReadsLoad, ServerReads, AnswerFrames
  <2>2. /\ outbox' \in Seq(ClientFrame) /\ RequestsFit' /\ changes' \in 0 .. MaxChanges
        /\ ~Joining' /\ ~Joining
    BY <2>1, TakenRequest
  <2>3. /\ AnswerFrames \in Seq(ServerFrame) /\ Len(AnswerFrames) = Len(history) + 1
        /\ \A k \in 1 .. Len(history) : AnswerFrames[k].uid = history[k]
        /\ AnswerFrames[Len(history) + 1].type = "LMP_GRP_LOAD_MSG"
    BY AnswerFramesAre DEF TypeInv
  <2>4. \A k \in 1 .. Len(AnswerFrames) :
          AnswerFrames[k].type = "LMP_GRP_LOADING_MSG" => AnswerFrames[k].uid \in Uids
    <3>1. \A k \in 1 .. Len(AnswerFrames) : k \in 1 .. Len(history) \/ k = Len(history) + 1
      BY <1>4, <2>3
    <3>2. \A k \in 1 .. Len(history) : history[k] \in Uids
      BY <1>4
    <3> QED
      BY <2>3, <3>1, <3>2
  <2>5. wire' \in Seq(ServerFrame) /\ FramesFit'
    BY <1>1, <2>1, <2>3, <2>4, WrittenFramesFit
  <2> QED
    BY <1>2, <1>4, <1>6, <2>1, <2>2, <2>5
<1>13. CASE ServerReadsEof
  <2>1. /\ connection' = "closed" /\ outbox = <<>>
        /\ current_group' = DropMember(current_group, MyIndex)
        /\ UNCHANGED <<outbox, wire, history, answer, changes>>
    BY <1>13 DEF ServerReadsEof
  <2>2. ~Joining
    BY <2>1 DEF Joining
  <2>3. MyIndex \in Indices(current_group)
    BY <1>2, <2>2, MyIndexFound
  <2>4. Announced(current_group')
    BY <1>2, <2>1, <2>3, MemberDropped
  <2>5. FramesFit' /\ RequestsFit' /\ MembershipFits'
    BY <1>1, <2>1 DEF TypeInv, FramesFit, RequestsFit, MembershipFits
  <2>6. changes' \in 0 .. MaxChanges
    BY <2>1 DEF TypeInv, ClientTypeOK
  <2> QED
    BY <1>4, <2>1, <2>4, <2>5, <2>6
<1>14. CASE ServerEnds
  <2>1. /\ connection' = "closed" /\ outbox' = <<>> /\ wire' \in {wire, <<>>}
        /\ UNCHANGED <<current_group, history, answer, changes>>
    BY <1>14 DEF ServerEnds, serverVars
  <2>2. /\ outbox' \in Seq(ClientFrame) /\ wire' \in Seq(ServerFrame)
        /\ Len(outbox') = 0 /\ (wire' = wire \/ Len(wire') = 0)
    <3>1. <<>> \in Seq(ClientFrame) /\ <<>> \in Seq(ServerFrame) /\ Len(<<>>) = 0
      OBVIOUS
    <3> QED
      BY <1>4, <2>1, <3>1
  <2>3. Count(outbox', "LMP_NICK") = 0
    BY <2>2, CountEmpty
  <2>4. RequestsFit'
    BY <1>2, <1>4, <2>1, <2>2, <2>3 DEF RequestsFit
  <2>5. FramesFit' /\ MembershipFits'
    BY <1>1, <2>1, <2>2 DEF TypeInv, FramesFit, MembershipFits
  <2>6. changes' \in 0 .. MaxChanges
    BY <2>1 DEF TypeInv, ClientTypeOK
  <2> QED
    BY <1>2, <1>4, <2>1, <2>2, <2>4, <2>5, <2>6
<1> QED
  BY <1>7, <1>8, <1>9, <1>10, <1>11, <1>12, <1>13, <1>14 DEF ServerRuns, OthersAct


\* The inductive invariant of the types.
LEMMA TypeInvariant == Spec => []TypeInv
<1>1. TypeInv /\ [Next]_vars => TypeInv'
  <2> SUFFICES ASSUME TypeInv, [Next]_vars PROVE TypeInv'
    OBVIOUS
  <2>1. CASE UserRuns \/ UserTypes
    BY <2>1, UserTyped
  <2>2. CASE ReceiverRuns
    BY <2>2, ReceiverTyped
  <2>3. CASE ServerRuns \/ OthersAct \/ ServerEnds
    BY <2>3, ServerTyped
  <2>4. CASE UNCHANGED vars
    <3>1. /\ UNCHANGED <<user, gi_copy, loading_message_state, shown, user_group,
                         user_group_is_initialized, receiver, frame, peer_nick, process>>
          /\ UNCHANGED <<outbox, wire, connection, current_group, history, answer, changes>>
      BY <2>4 DEF vars, userVars, load, view, receiverVars, net, serverVars
    <3>2. ClientTypeOK'
      BY <3>1 DEF TypeInv, ClientTypeOK, Indices
    <3>3. FramesFit'
      BY <3>1 DEF TypeInv, FramesFit
    <3>4. RequestsFit'
      BY <3>1 DEF TypeInv, RequestsFit
    <3>5. UidsOf(current_group)' = UidsOf(current_group) /\ Joining' = Joining
      BY <3>1 DEF UidsOf, Indices, Joining
    <3>6. DistinctMembers(current_group)' = DistinctMembers(current_group)
      BY <3>1 DEF DistinctMembers, Indices
    <3>7. MembershipFits'
      BY <3>1, <3>5, <3>6 DEF TypeInv, MembershipFits
    <3> QED
      BY <3>2, <3>3, <3>4, <3>7 DEF TypeInv
  <2> QED
    BY <2>1, <2>2, <2>3, <2>4 DEF Next
<1> QED
  BY <1>1, InitTyped, PTL DEF Spec

\* Every variable of the client keeps its type, and the server never announces
\* an entry that is no member: no join, departure, nickname or end of a
\* connection leaves one blank, in whatever order they come.
THEOREM ClientTypeCorrect == Spec => []ClientTypeOK
<1>1. TypeInv => ClientTypeOK
  BY DEF TypeInv
<1> QED
  BY <1>1, TypeInvariant, PTL

-----------------------------------------------------------------------------
(* Loads.  Besides the count of loads under way, the invariant says what   *)
(* each thread may rely on between the test of loading_message_state and   *)
(* its assignment, and what is left to read when the server is gone: at    *)
(* most one end, and none once the state is idle.                          *)

\* Requests not read by the server, and ends of answers not yet handled.
Requests == Count(outbox, "LMP_GRP_LOAD_MSG")
Ends == Count(wire, "LMP_GRP_LOAD_MSG") + (IF EndingLoad THEN 1 ELSE 0)

\* A line of the history has been read and is not shown yet.
LineInHand == receiver \in {"dispatch", "showing"} /\ frame.type = "LMP_GRP_LOADING_MSG"

\* Every line on its way is followed by an end.
LinesEnd ==
  \A n \in 1 .. Len(wire) :
    wire[n].type = "LMP_GRP_LOADING_MSG" =>
      \E e \in 1 .. Len(wire) : e > n /\ wire[e].type = "LMP_GRP_LOAD_MSG"

LoadInv ==
  /\ Ends <= 1
  /\ loading_message_state = "STATE_IDLE" => Ends = 0
  /\ LinesEnd
  /\ LineInHand => loading_message_state # "STATE_IDLE"
  /\ user = "load_test" => loading_message_state # "STATE_REQUESTING_LOAD"
  /\ user = "load_set" => loading_message_state = "STATE_IDLE"
  /\ LoadMatchesState

LEMMA LoadCounts ==
  ASSUME TypeInv
  PROVE  /\ Requests \in Nat /\ Count(wire, "LMP_GRP_LOAD_MSG") \in Nat /\ Ends \in Nat
         /\ LoadsUnderWay = Requests + Ends + (IF user = "load_send" THEN 1 ELSE 0)
<1>1. outbox \in Seq(ClientFrame) /\ wire \in Seq(ServerFrame)
  BY DEF TypeInv, ClientTypeOK
<1>2. Requests \in Nat /\ Count(wire, "LMP_GRP_LOAD_MSG") \in Nat
  BY <1>1, CountType DEF Requests
<1> QED
  BY <1>2 DEF Ends, LoadsUnderWay, Requests

LEMMA InitLoad == Init => LoadInv
<1> SUFFICES ASSUME Init PROVE LoadInv
  OBVIOUS
<1>1. TypeInv
  BY InitTyped
<1>2. /\ wire = <<>> /\ receiver = "reading" /\ user = "prompt"
      /\ loading_message_state = "STATE_IDLE"
      /\ outbox = <<Sending("LMP_GRP_INIT_MEMBER", NoNick)>>
  BY DEF Init
<1>3. wire \in Seq(ServerFrame) /\ Len(wire) = 0
  BY <1>1, <1>2 DEF TypeInv, ClientTypeOK
<1>4. Count(wire, "LMP_GRP_LOAD_MSG") = 0
  BY <1>3, CountEmpty
<1>5. Requests = 0
  BY <1>2, CountOne DEF Requests, Sending
<1>6. Ends = 0
  BY <1>2, <1>4 DEF Ends, EndingLoad
<1>7. LoadsUnderWay = 0
  BY <1>1, <1>2, <1>5, <1>6, LoadCounts
<1> QED
  BY <1>2, <1>3, <1>6, <1>7 DEF LoadInv, LinesEnd, LineInHand, LoadMatchesState

\* The user thread asks for a load only when none is under way.
LEMMA UserLoads ==
  ASSUME TypeInv, LoadInv, UserRuns \/ UserTypes
  PROVE  LoadInv'
<1>1. UserEffect /\ TypeInv'
  BY UserSteps, UserTyped
<1>2. /\ UNCHANGED <<wire, receiver, frame>>
      /\ connection' # "closed" <=> connection # "closed"
  BY <1>1 DEF UserEffect, receiverVars
<1>3. /\ Ends' = Ends /\ (LinesEnd' <=> LinesEnd) /\ (LineInHand' <=> LineInHand)
  BY <1>2 DEF Ends, EndingLoad, LinesEnd, LineInHand
<1>4. /\ Requests \in Nat /\ Ends \in Nat /\ Requests' \in Nat /\ Ends' \in Nat
      /\ LoadsUnderWay = Requests + Ends + (IF user = "load_send" THEN 1 ELSE 0)
      /\ LoadsUnderWay' = Requests' + Ends' + (IF user' = "load_send" THEN 1 ELSE 0)
  <2>1. outbox' \in Seq(ClientFrame) /\ wire' \in Seq(ServerFrame)
    BY <1>1 DEF TypeInv, ClientTypeOK
  <2>2. Requests' \in Nat /\ Count(wire', "LMP_GRP_LOAD_MSG") \in Nat
    BY <2>1, CountType DEF Requests
  <2>3. LoadsUnderWay' = Requests' + Ends' + (IF user' = "load_send" THEN 1 ELSE 0)
    BY <2>2 DEF Ends, LoadsUnderWay, Requests
  <2> QED
    BY <2>2, <2>3, LoadCounts DEF Ends
<1>5. Requests' = Requests \/ (user = "load_send" /\ Requests' = Requests + 1)
  <2>1. CASE UNCHANGED outbox
    BY <2>1 DEF Requests
  <2>2. ASSUME NEW f, Writes(f) PROVE <1>5
    <3>1. /\ f \in ClientFrame /\ outbox' = Append(outbox, f) /\ outbox \in Seq(ClientFrame)
          /\ f.type = "LMP_GRP_LOAD_MSG" <=> user = "load_send"
      BY <2>2 DEF Writes, TypeInv, ClientTypeOK
    <3>2. Requests' = Requests + IF f.type = "LMP_GRP_LOAD_MSG" THEN 1 ELSE 0
      BY <3>1, CountAppend DEF Requests
    <3> QED
      BY <1>4, <3>1, <3>2
  <2> QED
    BY <1>1, <2>1, <2>2 DEF UserEffect
\* Whatever else is typed, the state is left alone.
<1>6. CASE /\ MsgSend \/ NickSend \/ GroupInfoCopyMembers \/ GroupInfoCopyCount \/ GroupInfoPrint
              \/ Leave \/ Join
  <2>1. /\ UNCHANGED loading_message_state
        /\ user # "load_send"
        /\ user' \notin {"load_test", "load_set", "load_send"}
    BY <1>6 DEF MsgSend, NickSend, GroupInfoCopyMembers, GroupInfoCopyCount, GroupInfoPrint,
                Leave, Join, UserStep, load
  <2>2. LoadsUnderWay' = LoadsUnderWay
    BY <1>3, <1>4, <1>5, <2>1
  <2> QED
    BY <1>2, <1>3, <2>1, <2>2 DEF LoadInv, LoadMatchesState
<1>7. CASE LoadTestRequesting \/ LoadTestLoading
  <2>1. /\ UNCHANGED <<loading_message_state, outbox>>
        /\ user \in {"prompt", "load_test"}
        /\ \/ user' = "load_test" /\ loading_message_state # "STATE_REQUESTING_LOAD"
           \/ user' = "prompt"
           \/ user = "load_test" /\ user' = "load_set" /\ loading_message_state # "STATE_LOADING"
    BY <1>7 DEF LoadTestRequesting, LoadTestLoading, UserStep, load, net
  <2>2. LoadsUnderWay' = LoadsUnderWay
    BY <1>3, <1>4, <2>1 DEF Requests
  <2>3. user' = "load_set" => loading_message_state = "STATE_IDLE"
    BY <2>1 DEF LoadInv, TypeInv, ClientTypeOK, State_t
  <2> QED
    BY <1>2, <1>3, <2>1, <2>2, <2>3 DEF LoadInv, LoadMatchesState
<1>8. CASE SetRequesting("load_set", "load_send")
  <2>1. /\ user = "load_set" /\ user' = "load_send"
        /\ loading_message_state' = "STATE_REQUESTING_LOAD"
        /\ UNCHANGED outbox
    BY <1>8 DEF SetRequesting, UserStep, net
  <2>2. LoadsUnderWay' = LoadsUnderWay + 1
    BY <1>3, <1>4, <2>1 DEF Requests
  <2> QED
    BY <1>2, <1>3, <2>1, <2>2 DEF LoadInv, LoadMatchesState
<1>9. CASE SendRequest("load_send", "prompt")
  <2>1. /\ user = "load_send" /\ user' = "prompt"
        /\ UNCHANGED loading_message_state
        /\ \/ outbox' = Append(outbox, Sending("LMP_GRP_LOAD_MSG", NoNick))
           \/ connection = "closed"
    BY <1>9 DEF SendRequest, UserStep, load, Send
  <2>2. connection # "closed" => LoadsUnderWay' = LoadsUnderWay
    <3>1. SUFFICES ASSUME connection # "closed" PROVE LoadsUnderWay' = LoadsUnderWay
      OBVIOUS
    <3>2. PICK f : f = Sending("LMP_GRP_LOAD_MSG", NoNick)
      OBVIOUS
    <3>3. f \in ClientFrame /\ f.type = "LMP_GRP_LOAD_MSG" /\ outbox \in Seq(ClientFrame)
      BY <3>2 DEF Sending, ClientFrame, TypeInv, ClientTypeOK
    <3>4. Requests' = Requests + 1
      BY <2>1, <3>1, <3>2, <3>3, CountAppend DEF Requests
    <3> QED
      BY <1>3, <1>4, <2>1, <3>4
  <2> QED
    BY <1>2, <1>3, <2>1, <2>2 DEF LoadInv, LoadMatchesState
<1> QED
  BY <1>6, <1>7, <1>8, <1>9 DEF UserRuns, UserTypes, RequestLoad

\* Counts of the next state.
LEMMA LoadCountsNext ==
  ASSUME TypeInv'
  PROVE  /\ Requests' \in Nat /\ Count(wire', "LMP_GRP_LOAD_MSG") \in Nat /\ Ends' \in Nat
         /\ LoadsUnderWay' = Requests' + Ends' + (IF user' = "load_send" THEN 1 ELSE 0)
<1>1. outbox' \in Seq(ClientFrame) /\ wire' \in Seq(ServerFrame)
  BY DEF TypeInv, ClientTypeOK
<1>2. Requests' \in Nat /\ Count(wire', "LMP_GRP_LOAD_MSG") \in Nat
  BY <1>1, CountType DEF Requests
<1> QED
  BY <1>2 DEF Ends, LoadsUnderWay, Requests

\* The next frame goes from the wire into the receiver's hand.
LEMMA ReceivedFrame ==
  ASSUME TypeInv, Receive
  PROVE  /\ wire \in Seq(ServerFrame) /\ wire # <<>>
         /\ Len(wire) \in Nat \ {0} /\ Len(wire') = Len(wire) - 1
         /\ wire' \in Seq(ServerFrame)
         /\ receiver = "reading" /\ receiver' = "dispatch"
         /\ frame' = wire[1]
         /\ \A k \in 1 .. Len(wire') : k + 1 \in 1 .. Len(wire) /\ wire'[k] = wire[k + 1]
         /\ \A k \in 1 .. Len(wire) : k = 1 \/ (k - 1 \in 1 .. Len(wire') /\ wire'[k - 1] = wire[k])
         /\ Count(wire, "LMP_GRP_LOAD_MSG")
              = Count(wire', "LMP_GRP_LOAD_MSG")
                  + IF frame'.type = "LMP_GRP_LOAD_MSG" THEN 1 ELSE 0
<1>1. /\ wire \in Seq(ServerFrame) /\ wire # <<>> /\ frame' = Head(wire) /\ wire' = Tail(wire)
      /\ receiver = "reading" /\ receiver' = "dispatch"
  BY DEF TypeInv, ClientTypeOK, Receive, ReceiverStep
<1>2. /\ Len(wire) \in Nat \ {0}
      /\ Head(wire) = wire[1]
      /\ wire' \in Seq(ServerFrame)
      /\ Len(wire') = Len(wire) - 1
      /\ \A k \in 1 .. Len(wire) - 1 : wire'[k] = wire[k + 1]
  BY <1>1, TailShifts
<1>3. \A k \in 1 .. Len(wire') : k + 1 \in 1 .. Len(wire) /\ wire'[k] = wire[k + 1]
  BY <1>2
<1>4. ASSUME NEW k \in 1 .. Len(wire), k # 1
      PROVE  k - 1 \in 1 .. Len(wire') /\ wire'[k - 1] = wire[k]
  <2>1. k - 1 \in 1 .. Len(wire) - 1 /\ (k - 1) + 1 = k
    BY <1>2, <1>4
  <2> QED
    BY <1>2, <2>1
<1>5. Count(wire, "LMP_GRP_LOAD_MSG")
        = Count(wire', "LMP_GRP_LOAD_MSG") + IF frame'.type = "LMP_GRP_LOAD_MSG" THEN 1 ELSE 0
  BY <1>1, CountTail
<1> QED
  BY <1>1, <1>2, <1>3, <1>4, <1>5

\* The receiver takes the lines and the end of the load that is under way.
LEMMA ReceiverLoads ==
  ASSUME TypeInv, LoadInv, ReceiverRuns
  PROVE  LoadInv'
<1> USE DEF ReceiverStep, userVars, serverVars, load, view
<1>1. TypeInv' /\ UNCHANGED <<user, outbox, connection>>
  BY ReceiverTyped DEF ReceiverRuns, Receive, Disconnect, MsgRecv, GrpObjRecvMembers, GrpObjRecvCount,
         LoadingMsgRecvTest, LoadingMsgRecvShow, LoadMsgRecvTest, LoadMsgRecvEnd, Handle
<1>2. /\ Requests \in Nat /\ Ends \in Nat /\ Requests' = Requests /\ Ends' \in Nat
      /\ Count(wire, "LMP_GRP_LOAD_MSG") \in Nat /\ Count(wire', "LMP_GRP_LOAD_MSG") \in Nat
      /\ LoadsUnderWay = Requests + Ends + (IF user = "load_send" THEN 1 ELSE 0)
      /\ LoadsUnderWay' = Requests + Ends' + (IF user = "load_send" THEN 1 ELSE 0)
  <2>1. Requests' = Requests
    BY <1>1 DEF Requests
  <2> QED
    BY <1>1, <2>1, LoadCounts, LoadCountsNext
\* The ends, and the state, stay as they are.
<1>3. ASSUME UNCHANGED <<wire, loading_message_state>>, EndingLoad' <=> EndingLoad,
             LineInHand' => LineInHand
      PROVE  LoadInv'
  <2>1. Ends' = Ends /\ (LinesEnd' <=> LinesEnd)
    BY <1>3 DEF Ends, LinesEnd
  <2> QED
    BY <1>1, <1>2, <1>3, <2>1 DEF LoadInv, LoadMatchesState
<1>4. CASE Receive
  <2>1. /\ Len(wire) \in Nat \ {0} /\ Len(wire') = Len(wire) - 1
        /\ receiver = "reading" /\ receiver' = "dispatch"
        /\ frame' = wire[1]
        /\ \A k \in 1 .. Len(wire') : k + 1 \in 1 .. Len(wire) /\ wire'[k] = wire[k + 1]
        /\ \A k \in 1 .. Len(wire) : k = 1 \/ (k - 1 \in 1 .. Len(wire') /\ wire'[k - 1] = wire[k])
        /\ Count(wire, "LMP_GRP_LOAD_MSG")
             = Count(wire', "LMP_GRP_LOAD_MSG")
                 + IF frame'.type = "LMP_GRP_LOAD_MSG" THEN 1 ELSE 0
    BY <1>4, ReceivedFrame
  <2>2. UNCHANGED loading_message_state
    BY <1>4 DEF Receive
  <2>3. Ends' = Ends
    BY <1>2, <2>1 DEF Ends, EndingLoad
  <2>4. LinesEnd'
    <3> SUFFICES ASSUME NEW n \in 1 .. Len(wire'), wire'[n].type = "LMP_GRP_LOADING_MSG"
                 PROVE  \E e \in 1 .. Len(wire') : e > n /\ wire'[e].type = "LMP_GRP_LOAD_MSG"
      BY DEF LinesEnd
    <3>1. n + 1 \in 1 .. Len(wire) /\ wire[n + 1].type = "LMP_GRP_LOADING_MSG"
      BY <2>1
    <3>2. PICK e \in 1 .. Len(wire) : e > n + 1 /\ wire[e].type = "LMP_GRP_LOAD_MSG"
      BY <3>1 DEF LoadInv, LinesEnd
    <3>3. e # 1 /\ e - 1 > n
      BY <2>1, <3>2
    <3> QED
      BY <2>1, <3>2, <3>3
  <2>5. LineInHand' => loading_message_state # "STATE_IDLE"
    <3> SUFFICES ASSUME LineInHand' PROVE loading_message_state # "STATE_IDLE"
      OBVIOUS
    <3>1. 1 \in 1 .. Len(wire) /\ wire[1].type = "LMP_GRP_LOADING_MSG"
      BY <2>1 DEF LineInHand
    <3>2. PICK e \in 1 .. Len(wire) : wire[e].type = "LMP_GRP_LOAD_MSG"
      BY <3>1 DEF LoadInv, LinesEnd
    <3>3. Count(wire, "LMP_GRP_LOAD_MSG") # 0
      BY <1>4, <3>2, ReceivedFrame, CountType
    <3> QED
      BY <1>2, <3>3 DEF LoadInv, Ends
  <2> QED
    BY <1>1, <1>2, <2>2, <2>3, <2>4, <2>5 DEF LoadInv, LoadMatchesState
<1>5. CASE Disconnect
  BY <1>3, <1>5 DEF Disconnect, EndingLoad, LineInHand
<1>6. CASE MsgRecv
  BY <1>3, <1>6 DEF MsgRecv, Handle, EndingLoad, LineInHand
<1>7. CASE GrpObjRecvMembers
  BY <1>3, <1>7 DEF GrpObjRecvMembers, Handle, EndingLoad, LineInHand
<1>8. CASE GrpObjRecvCount
  BY <1>3, <1>8 DEF GrpObjRecvCount, EndingLoad, LineInHand
<1>9. CASE LoadingMsgRecvTest
  BY <1>3, <1>9 DEF LoadingMsgRecvTest, Handle, EndingLoad, LineInHand
<1>10. CASE LoadingMsgRecvShow
  <2>1. /\ receiver = "showing" /\ receiver' = "reading"
        /\ loading_message_state' = "STATE_LOADING"
        /\ UNCHANGED <<wire, frame>>
    BY <1>10 DEF LoadingMsgRecvShow
  <2>2. loading_message_state # "STATE_IDLE"
    BY <2>1 DEF LoadInv, LineInHand, TypeInv, FramesFit
  <2>3. Ends' = Ends /\ (LinesEnd' <=> LinesEnd) /\ ~LineInHand'
    BY <2>1 DEF Ends, EndingLoad, LinesEnd, LineInHand
  <2> QED
    BY <1>1, <1>2, <2>1, <2>2, <2>3 DEF LoadInv, LoadMatchesState
<1>11. CASE LoadMsgRecvTest
  <2>1. EndingLoad
    BY <1>11 DEF LoadMsgRecvTest, Handle, EndingLoad
  <2>2. loading_message_state # "STATE_IDLE"
    BY <1>2, <2>1 DEF LoadInv, Ends
  <2>3. receiver' = "ending"
    BY <1>11, <2>2 DEF LoadMsgRecvTest, Handle, TypeInv, ClientTypeOK, State_t
  <2> QED
    BY <1>3, <1>11, <2>1, <2>3 DEF LoadMsgRecvTest, Handle, EndingLoad, LineInHand
<1>12. CASE LoadMsgRecvEnd
  <2>1. /\ receiver = "ending" /\ receiver' = "reading"
        /\ loading_message_state' = "STATE_IDLE"
        /\ UNCHANGED <<wire, frame>>
    BY <1>12 DEF LoadMsgRecvEnd
  <2>2. EndingLoad /\ ~EndingLoad' /\ ~LineInHand' /\ (LinesEnd' <=> LinesEnd)
    BY <2>1 DEF EndingLoad, LineInHand, LinesEnd
  <2>3. Ends = 1 /\ Ends' = 0
    BY <1>2, <2>1, <2>2 DEF LoadInv, Ends
  <2>4. loading_message_state # "STATE_IDLE"
    BY <2>3 DEF LoadInv
  <2> QED
    BY <1>1, <1>2, <2>1, <2>2, <2>3, <2>4 DEF LoadInv, LoadMatchesState
<1> QED
  BY <1>4, <1>5, <1>6, <1>7, <1>8, <1>9, <1>10, <1>11, <1>12 DEF ReceiverRuns

\* What a step of the server is for the client: a group or a message is
\* written, or nothing; a load is answered; or the connection is closed.
Wrote(f) ==
  /\ f \in ServerFrame
  /\ ServerWrites(<<f>>)
  /\ \/ f.type = "LMP_GRP_OBJ" /\ f.group = current_group'
     \/ /\ f.type = "LMP_MSG" /\ UNCHANGED current_group
        /\ current_group.members[f.index].nickname = f.as

Announces ==
  /\ UNCHANGED <<connection, answer>>
  /\ Requests' = Requests
  /\ UNCHANGED <<wire, current_group>> \/ \E f : Wrote(f)

Closes ==
  /\ connection' = "closed"
  /\ outbox' = <<>>
  /\ wire' \in {wire, <<>>}
  /\ UNCHANGED answer

LEMMA ServerSteps ==
  ASSUME TypeInv, ServerRuns \/ OthersAct \/ ServerEnds
  PROVE  /\ UNCHANGED <<user, loading_message_state, shown, user_group,
                        user_group_is_initialized, receiver, frame, peer_nick>>
         /\ connection # "closed"
         /\ Announces \/ ServerReadsLoad \/ Closes
<1>1. /\ UNCHANGED <<user, loading_message_state, shown, user_group,
                     user_group_is_initialized, receiver, frame, peer_nick>>
      /\ connection # "closed"
  BY DEF ServerRuns, OthersAct, ServerReadsInit, ServerReadsNick, ServerReadsMsg, ServerReadsLoad,
         ServerReadsEof, ServerReads, OtherChangesGroup, OtherSays, ServerEnds, ClientWaits,
         userVars, load, view, receiverVars
<1>2. outbox \in Seq(ClientFrame) /\ Announced(current_group) /\ TypeInv'
  BY ServerTyped DEF TypeInv, ClientTypeOK, Announced
<1>3. ASSUME NEW type, ServerReads(type), type # "LMP_GRP_LOAD_MSG"
      PROVE  Requests' = Requests
  <2>1. outbox # <<>> /\ Head(outbox).type = type /\ outbox' = Tail(outbox)
    BY <1>3 DEF ServerReads
  <2>2. Count(outbox, "LMP_GRP_LOAD_MSG") = Count(outbox', "LMP_GRP_LOAD_MSG") + 0
    BY <1>2, <1>3, <2>1, CountTail
  <2>3. outbox' \in Seq(ClientFrame)
    BY <1>2 DEF TypeInv, ClientTypeOK
  <2>4. Count(outbox', "LMP_GRP_LOAD_MSG") \in Nat
    BY <2>3, CountType
  <2> QED
    BY <2>2, <2>4 DEF Requests
<1>4. ASSUME NEW group, ServerSetsGroup(group)
      PROVE  \E f : Wrote(f)
  <2>1. current_group' = group
        /\ ServerWrites(<<[Blank EXCEPT !.type = "LMP_GRP_OBJ", !.group = group]>>)
    BY <1>4 DEF ServerSetsGroup
  <2>2. group \in Group
    BY <1>2, <2>1 DEF TypeInv, ClientTypeOK
  <2>3. PICK f \in ServerFrame : /\ f = [Blank EXCEPT !.type = "LMP_GRP_OBJ", !.group = group]
                                 /\ f.type = "LMP_GRP_OBJ" /\ f.group = group
    BY <2>2, GroupFrameType
  <2>4. Wrote(f)
    BY <2>1, <2>3 DEF Wrote
  <2> QED
    BY <2>4
<1>5. CASE OtherChangesGroup
  <2>1. PICK group \in OtherGroups : ServerSetsGroup(group)
    BY <1>5 DEF OtherChangesGroup
  <2>2. UNCHANGED <<connection, answer, outbox>>
    BY <1>5, <2>1 DEF OtherChangesGroup, ServerSetsGroup
  <2> QED
    BY <1>1, <1>4, <2>1, <2>2 DEF Announces, Requests
<1>6. CASE OtherSays
  <2>1. PICK k \in OthersAt :
          ServerWrites(<<[Blank EXCEPT !.type = "LMP_MSG", !.index = k,
                                       !.as = current_group.members[k].nickname]>>)
    BY <1>6 DEF OtherSays
  <2>2. UNCHANGED <<outbox, connection, current_group, answer>>
    BY <1>6 DEF OtherSays
  <2>3. PICK at \in 0 .. MAX_GROUP_MEMBERS - 1, nick \in Nicks :
          at = k /\ nick = current_group.members[k].nickname
    BY <1>2, AnnouncedEntries DEF OthersAt
  <2>4. PICK f \in ServerFrame : /\ f = [Blank EXCEPT !.type = "LMP_MSG", !.index = at, !.as = nick]
                                 /\ f.type = "LMP_MSG" /\ f.index = at /\ f.as = nick
    BY MessageFrameType
  <2>5. Wrote(f)
    BY <2>1, <2>2, <2>3, <2>4 DEF Wrote
  <2> QED
    BY <1>1, <2>2, <2>5 DEF Announces, Requests
<1>7. CASE ServerReadsInit
  <2>1. ServerReads("LMP_GRP_INIT_MEMBER") /\ ServerSetsGroup(AddMember(current_group, Member(Me)))
    BY <1>7 DEF ServerReadsInit
  <2>2. Requests' = Requests
    BY <1>3, <2>1
  <2>3. \E f : Wrote(f)
    BY <1>4, <2>1
  <2> QED
    BY <1>1, <2>1, <2>2, <2>3 DEF Announces, ServerSetsGroup
<1>8. CASE ServerReadsNick
  <2>1. PICK group : ServerReads("LMP_NICK") /\ ServerSetsGroup(group)
    BY <1>8 DEF ServerReadsNick
  <2>2. Requests' = Requests
    BY <1>3, <2>1
  <2>3. \E f : Wrote(f)
    BY <1>4, <2>1
  <2> QED
    BY <1>1, <2>1, <2>2, <2>3 DEF Announces, ServerSetsGroup
<1>9. CASE ServerReadsMsg
  <2>1. ServerReads("LMP_MSG") /\ UNCHANGED <<wire, current_group, answer, connection>>
    BY <1>9 DEF ServerReadsMsg, ServerReads
  <2>2. Requests' = Requests
    BY <1>3, <2>1
  <2> QED
    BY <1>1, <2>1, <2>2 DEF Announces
<1>10. CASE ServerReadsEof
  BY <1>1, <1>10 DEF ServerReadsEof, Closes
<1>11. CASE ServerEnds
  BY <1>1, <1>11 DEF ServerEnds, Closes, serverVars
<1> QED
  BY <1>1, <1>5, <1>6, <1>7, <1>8, <1>9, <1>10, <1>11 DEF ServerRuns, OthersAct

\* The answer to a load: its frames follow what is on the wire, its end last.
LEMMA AnswerWritten ==
  ASSUME TypeInv, ServerReadsLoad
  PROVE  /\ wire \in Seq(ServerFrame) /\ Len(wire) \in Nat
         /\ history \in Seq(Uids) /\ Len(history) \in Nat
         /\ wire' \in Seq(ServerFrame)
         /\ Len(wire') = Len(wire) + Len(history) + 1
         /\ \A n \in 1 .. Len(wire) : wire'[n] = wire[n]
         /\ \A k \in 1 .. Len(history) :
              /\ wire'[Len(wire) + k].type = "LMP_GRP_LOADING_MSG"
              /\ wire'[Len(wire) + k].uid = history[k]
              /\ wire'[Len(wire) + k].as = LineName(current_group, history[k])
         /\ wire'[Len(wire')].type = "LMP_GRP_LOAD_MSG"
         /\ Count(wire', "LMP_GRP_LOAD_MSG") = Count(wire, "LMP_GRP_LOAD_MSG") + 1
         /\ Requests = Requests' + 1
         /\ answer' = history
         /\ UNCHANGED <<connection, current_group>>
<1>1. /\ wire \in Seq(ServerFrame) /\ Len(wire) \in Nat
      /\ history \in Seq(Uids) /\ Len(history) \in Nat
      /\ outbox \in Seq(ClientFrame)
  BY DEF TypeInv, ClientTypeOK
<1>2. /\ ServerReads("LMP_GRP_LOAD_MSG") /\ answer' = history
      /\ wire' = wire \o AnswerFrames
      /\ UNCHANGED <<connection, current_group>>
  BY DEF ServerReadsLoad, ServerReads, ServerWrites, AnswerFrames
<1>3. PICK frames : frames = AnswerFrames
  OBVIOUS
<1>4. /\ frames \in Seq(ServerFrame) /\ Len(frames) = Len(history) + 1
      /\ \A k \in 1 .. Len(history) :
           /\ frames[k].type = "LMP_GRP_LOADING_MSG"
           /\ frames[k].uid = history[k]
           /\ frames[k].as = LineName(current_group, history[k])
      /\ frames[Len(history) + 1].type = "LMP_GRP_LOAD_MSG"
  BY <1>3, AnswerFramesAre DEF TypeInv
<1>5. /\ wire' \in Seq(ServerFrame)
      /\ Len(wire') = Len(wire) + Len(frames)
      /\ \A n \in 1 .. Len(wire) : wire'[n] = wire[n]
      /\ \A n \in 1 .. Len(frames) : wire'[Len(wire) + n] = frames[n]
  <2>1. wire' = wire \o frames
    BY <1>2, <1>3
  <2>2. wire \in Seq(ServerFrame) /\ frames \in Seq(ServerFrame)
    BY <1>1, <1>4
  <2> QED
    BY <2>1, <2>2, ConcatElements
<1>6. Count(frames, "LMP_GRP_LOAD_MSG") = 1
  <2>1. Count(frames, "LMP_GRP_LOAD_MSG") = Cardinality(PlacesOf(frames, "LMP_GRP_LOAD_MSG"))
    BY <1>4, CountType
  <2>2. PlacesOf(frames, "LMP_GRP_LOAD_MSG") = {Len(history) + 1}
    <3>1. DOMAIN frames = 1 .. Len(history) + 1
      BY <1>4
    <3>2. \A k \in 1 .. Len(history) + 1 : k \in 1 .. Len(history) \/ k = Len(history) + 1
      BY <1>1
    <3>3. Len(history) + 1 \in 1 .. Len(history) + 1
      BY <1>1
    <3> QED
      BY <1>4, <3>1, <3>2, <3>3 DEF PlacesOf
  <2> QED
    BY <2>1, <2>2, FS_Singleton
<1>7. Count(wire', "LMP_GRP_LOAD_MSG") = Count(wire, "LMP_GRP_LOAD_MSG") + 1
  BY <1>1, <1>2, <1>3, <1>4, <1>6, CountConcat
<1>8. Requests = Requests' + 1
  <2>1. outbox # <<>> /\ Head(outbox).type = "LMP_GRP_LOAD_MSG" /\ outbox' = Tail(outbox)
    BY <1>2 DEF ServerReads
  <2> QED
    BY <1>1, <2>1, CountTail DEF Requests
<1>9. /\ \A k \in 1 .. Len(history) : k \in 1 .. Len(frames)
      /\ Len(history) + 1 \in 1 .. Len(frames)
      /\ Len(wire') = Len(wire) + (Len(history) + 1)
  BY <1>1, <1>4, <1>5
<1>10. wire'[Len(wire')].type = "LMP_GRP_LOAD_MSG"
  BY <1>4, <1>5, <1>9
<1>11. \A k \in 1 .. Len(history) : wire'[Len(wire) + k] = frames[k]
  BY <1>5, <1>9
<1>12. Len(wire') = Len(wire) + Len(history) + 1
  BY <1>1, <1>9
<1> QED
  BY <1>1, <1>2, <1>4, <1>5, <1>7, <1>8, <1>10, <1>11, <1>12

\* The server answers requests, one end each.
LEMMA ServerLoads ==
  ASSUME TypeInv, LoadInv, ServerRuns \/ OthersAct \/ ServerEnds
  PROVE  LoadInv'
<1>1. /\ UNCHANGED <<user, loading_message_state, receiver, frame>>
      /\ connection # "closed"
      /\ Announces \/ ServerReadsLoad \/ Closes
      /\ TypeInv'
  BY ServerSteps, ServerTyped
<1>2. /\ Requests \in Nat /\ Requests' \in Nat /\ Ends \in Nat /\ Ends' \in Nat
      /\ Count(wire, "LMP_GRP_LOAD_MSG") \in Nat /\ Count(wire', "LMP_GRP_LOAD_MSG") \in Nat
      /\ LoadsUnderWay = Requests + Ends + (IF user = "load_send" THEN 1 ELSE 0)
      /\ LoadsUnderWay' = Requests' + Ends' + (IF user = "load_send" THEN 1 ELSE 0)
      /\ wire \in Seq(ServerFrame) /\ Len(wire) \in Nat
  BY <1>1, LoadCounts, LoadCountsNext DEF TypeInv, ClientTypeOK
<1>3. (EndingLoad' <=> EndingLoad) /\ (LineInHand' <=> LineInHand)
  BY <1>1 DEF EndingLoad, LineInHand
<1>4. CASE Announces
  <2>1. Ends' = Ends /\ LinesEnd'
    <3>1. CASE UNCHANGED wire
      BY <1>1, <1>3, <3>1 DEF Ends, LinesEnd, LoadInv
    <3>2. ASSUME NEW f, Wrote(f) PROVE Ends' = Ends /\ LinesEnd'
      <4>1. /\ f \in ServerFrame /\ f.type \in {"LMP_GRP_OBJ", "LMP_MSG"}
            /\ ServerWrites(<<f>>)
        BY <3>2 DEF Wrote
      <4>2. /\ Len(wire') = Len(wire) + 1
            /\ \A n \in 1 .. Len(wire) : wire'[n] = wire[n]
            /\ wire'[Len(wire) + 1] = f
        BY <1>1, <4>1, OneFrameWritten
      <4>3. wire' = Append(wire, f)
        BY <1>2, <4>1 DEF ServerWrites
      <4>4. Count(wire', "LMP_GRP_LOAD_MSG") = Count(wire, "LMP_GRP_LOAD_MSG") + 0
        BY <1>2, <4>1, <4>3, CountAppend
      <4>5. Ends' = Ends
        BY <1>2, <1>3, <4>4 DEF Ends
      <4>6. \A n \in 1 .. Len(wire') : n \in 1 .. Len(wire) \/ n = Len(wire) + 1
        BY <1>2, <4>2
      <4>7. \A n \in 1 .. Len(wire) : n \in 1 .. Len(wire')
        BY <1>2, <4>2
      <4>8. LinesEnd'
        BY <4>1, <4>2, <4>6, <4>7 DEF LoadInv, LinesEnd
      <4> QED
        BY <4>5, <4>8
    <3> QED
      BY <1>4, <3>1, <3>2 DEF Announces
  <2>2. LoadsUnderWay' = LoadsUnderWay /\ UNCHANGED connection
    BY <1>2, <1>4, <2>1 DEF Announces
  <2> QED
    BY <1>1, <1>3, <2>1, <2>2 DEF LoadInv, LoadMatchesState
<1>5. CASE ServerReadsLoad
  <2>1. /\ Len(wire') = Len(wire) + Len(history) + 1 /\ Len(history) \in Nat
        /\ wire'[Len(wire')].type = "LMP_GRP_LOAD_MSG"
        /\ Count(wire', "LMP_GRP_LOAD_MSG") = Count(wire, "LMP_GRP_LOAD_MSG") + 1
        /\ Requests = Requests' + 1
        /\ UNCHANGED connection
    BY <1>5, AnswerWritten
  <2> DEFINE u == IF user = "load_send" THEN 1 ELSE 0
             e == IF EndingLoad THEN 1 ELSE 0
  <2>2. u \in {0, 1} /\ e \in {0, 1} /\ Ends = Count(wire, "LMP_GRP_LOAD_MSG") + e
        /\ Ends' = Count(wire', "LMP_GRP_LOAD_MSG") + e
    BY <1>3 DEF Ends
  <2>3. LoadsUnderWay = Requests + Ends + u /\ LoadsUnderWay' = Requests' + Ends' + u
    BY <1>2
  <2>4. LoadsUnderWay = IF loading_message_state = "STATE_IDLE" THEN 0 ELSE 1
    BY <1>1 DEF LoadInv, LoadMatchesState
  <2> HIDE DEF u, e
  <2>5. /\ Requests' \in Nat /\ Ends \in Nat /\ Count(wire, "LMP_GRP_LOAD_MSG") \in Nat
        /\ Requests = Requests' + 1
        /\ Count(wire', "LMP_GRP_LOAD_MSG") = Count(wire, "LMP_GRP_LOAD_MSG") + 1
    BY <1>2, <2>1
  <2>6. Ends' = Ends + 1
    BY <2>2, <2>5
  <2>7. LoadsUnderWay' = LoadsUnderWay
    <3>1. LoadsUnderWay' = Requests' + (Ends + 1) + u
      BY <2>3, <2>6
    <3>2. LoadsUnderWay = (Requests' + 1) + Ends + u
      BY <2>3, <2>5
    <3>3. u \in Nat /\ Ends \in Nat /\ Requests' \in Nat
      BY <2>2, <2>5
    <3> QED
      BY <3>1, <3>2, <3>3
  <2>8. LoadsUnderWay >= 1 + Ends
    BY <2>2, <2>3, <2>5
  <2>9. loading_message_state # "STATE_IDLE" /\ Ends = 0
    BY <2>4, <2>5, <2>8
  <2>10. LinesEnd'
    <3> SUFFICES ASSUME NEW n \in 1 .. Len(wire'), wire'[n].type = "LMP_GRP_LOADING_MSG"
                 PROVE  \E last \in 1 .. Len(wire') :
                          last > n /\ wire'[last].type = "LMP_GRP_LOAD_MSG"
      BY DEF LinesEnd
    <3>1. n # Len(wire')
      BY <2>1
    <3>2. Len(wire') \in Nat
      BY <1>2, <2>1
    <3>3. Len(wire') \in 1 .. Len(wire') /\ Len(wire') > n
      BY <3>1, <3>2
    <3> QED
      BY <2>1, <3>3
  <2> QED
    BY <1>1, <1>3, <2>1, <2>6, <2>7, <2>9, <2>10 DEF LoadInv, LoadMatchesState
<1>6. CASE Closes
  <2>1. Ends' <= Ends /\ LinesEnd'
    <3>1. CASE wire' = wire
      BY <1>2, <1>3, <3>1 DEF Ends, LinesEnd, LoadInv
    <3>2. CASE wire' = <<>>
      <4>1. wire' \in Seq(ServerFrame) /\ Len(wire') = 0
        BY <1>1, <3>2 DEF TypeInv, ClientTypeOK
      <4>2. Count(wire', "LMP_GRP_LOAD_MSG") = 0
        BY <4>1, CountEmpty
      <4> QED
        BY <1>2, <1>3, <4>1, <4>2 DEF Ends, LinesEnd
    <3> QED
      BY <1>6, <3>1, <3>2 DEF Closes
  <2> QED
    BY <1>1, <1>2, <1>3, <1>6, <2>1 DEF Closes, LoadInv, LoadMatchesState
<1> QED
  BY <1>1, <1>4, <1>5, <1>6

LEMMA LoadInvariant == Spec => [](TypeInv /\ LoadInv)
<1>1. TypeInv /\ LoadInv /\ [Next]_vars => LoadInv'
  <2> SUFFICES ASSUME TypeInv, LoadInv, [Next]_vars PROVE LoadInv'
    OBVIOUS
  <2>1. CASE UserRuns \/ UserTypes
    BY <2>1, UserLoads
  <2>2. CASE ReceiverRuns
    BY <2>2, ReceiverLoads
  <2>3. CASE ServerRuns \/ OthersAct \/ ServerEnds
    BY <2>3, ServerLoads
  <2>4. CASE UNCHANGED vars
    BY <2>4 DEF vars, userVars, load, view, receiverVars, net, serverVars, LoadInv, Ends, LinesEnd,
               LineInHand, LoadMatchesState, LoadsUnderWay, EndingLoad
  <2> QED
    BY <2>1, <2>2, <2>3, <2>4 DEF Next
<1> QED
  BY <1>1, InitLoad, TypeInvariant, PTL DEF Spec

\* The state that two threads share without a lock says whether a load is
\* under way, as long as the server serves the client, and there is never a
\* second one: between the two tests of /load and its assignment, and between
\* the receiver's tests and its assignments, the other thread cannot come in
\* with a step that spoils what was tested.
THEOREM StateMatchesLoad == Spec => []LoadMatchesState
<1>1. LoadInv => LoadMatchesState
  BY DEF LoadInv
<1> QED
  BY <1>1, LoadInvariant, PTL

\* No line of the history the user asked for is refused as unexpected, not even
\* when the server has gone in the middle of the answer.
THEOREM LinesAreExpected == Spec => []NoLineIgnored
<1>1. LoadInv => NoLineIgnored
  BY DEF LoadInv, NoLineIgnored, LineInHand
<1> QED
  BY <1>1, LoadInvariant, PTL

-----------------------------------------------------------------------------
(* What a load shows.  The answer of the server is in three pieces: the    *)
(* lines that were shown, the line in hand, and those on the wire before   *)
(* the end, which make up the answer in this order as long as the end is   *)
(* there to come.                                                          *)

\* How many lines are still on the wire: those of the answer a that are
\* neither among the lines s shown nor the h in hand.
LinesLeft(a, s, h) == Len(a) - Len(s) - h

\* On the wire w the lines before the end at e, and no others, are the last
\* ones of the answer a, those shown its first ones, and uid, if a line is in
\* hand, is the one between.
AnswerAt(w, e, a, s, h, uid) ==
  /\ LinesLeft(a, s, h) \in 0 .. e - 1
  /\ \A n \in 1 .. Len(w) :
       w[n].type = "LMP_GRP_LOADING_MSG" <=> e - LinesLeft(a, s, h) <= n /\ n < e
  /\ \A n \in 1 .. Len(w) :
       w[n].type = "LMP_GRP_LOADING_MSG" => w[n].uid = a[Len(a) - (e - n) + 1]
  /\ \A i \in 1 .. Len(s) : s[i] = a[i]
  /\ h = 1 => uid = a[Len(s) + 1]

InHand == IF LineInHand THEN 1 ELSE 0

AnswerInv ==
  /\ EndingLoad => shown = answer
  /\ \A e \in 1 .. Len(wire) :
       wire[e].type = "LMP_GRP_LOAD_MSG" => AnswerAt(wire, e, answer, shown, InHand, frame.uid)
  /\ connection # "closed" /\ (user = "load_send" \/ Requests > 0)
       => shown = <<>> /\ ~LineInHand

\* Nothing is left before an end that comes first: all lines were shown.
LEMMA AllShown ==
  ASSUME NEW w, NEW a \in Seq(Uids), NEW s \in Seq(Uids), NEW uid, AnswerAt(w, 1, a, s, 0, uid)
  PROVE  s = a
<1>1. Len(a) \in Nat /\ Len(s) \in Nat /\ LinesLeft(a, s, 0) \in 0 .. 0
  BY DEF AnswerAt
<1>2. Len(a) = Len(s)
  BY <1>1 DEF LinesLeft
<1>3. \A i \in 1 .. Len(s) : s[i] = a[i]
  BY DEF AnswerAt
<1> QED
  BY <1>2, <1>3

\* A line is taken from the wire.
LEMMA LineTaken ==
  ASSUME NEW w \in Seq(ServerFrame), NEW v \in Seq(ServerFrame), Len(v) = Len(w) - 1,
         \A k \in 1 .. Len(v) : k + 1 \in 1 .. Len(w) /\ v[k] = w[k + 1],
         NEW e \in 1 .. Len(v), NEW a \in Seq(Uids), NEW s \in Seq(Uids), NEW uid,
         AnswerAt(w, e + 1, a, s, 0, uid), w[1].type = "LMP_GRP_LOADING_MSG"
  PROVE  AnswerAt(v, e, a, s, 1, w[1].uid)
<1>1. /\ Len(w) \in Nat /\ Len(v) \in Nat /\ Len(a) \in Nat /\ Len(s) \in Nat /\ e \in Nat
      /\ 1 \in 1 .. Len(w)
  OBVIOUS
<1>2. PICK left \in Nat : left = LinesLeft(a, s, 0) /\ left \in 0 .. e
  BY <1>1 DEF AnswerAt
<1>3. /\ \A n \in 1 .. Len(w) : w[n].type = "LMP_GRP_LOADING_MSG" <=> (e + 1) - left <= n /\ n < e + 1
      /\ \A n \in 1 .. Len(w) :
           w[n].type = "LMP_GRP_LOADING_MSG" => w[n].uid = a[Len(a) - ((e + 1) - n) + 1]
      /\ \A i \in 1 .. Len(s) : s[i] = a[i]
  BY <1>2 DEF AnswerAt
<1>4. left = e /\ LinesLeft(a, s, 1) = e - 1 /\ Len(a) = Len(s) + e
  <2>1. (e + 1) - left <= 1
    BY <1>1, <1>3
  <2>2. left = e
    BY <1>1, <1>2, <2>1
  <2> QED
    BY <1>1, <1>2, <2>2 DEF LinesLeft
<1>5. LinesLeft(a, s, 1) \in 0 .. e - 1
  BY <1>1, <1>4
<1>6. ASSUME NEW n \in 1 .. Len(v)
      PROVE  v[n].type = "LMP_GRP_LOADING_MSG" <=> e - (e - 1) <= n /\ n < e
  <2>1. v[n].type = "LMP_GRP_LOADING_MSG" <=> (e + 1) - e <= n + 1 /\ n + 1 < e + 1
    BY <1>3, <1>4
  <2>2. (e + 1) - e <= n + 1 /\ e - (e - 1) <= n
    BY <1>1
  <2>3. n + 1 < e + 1 <=> n < e
    BY <1>1
  <2> QED
    BY <2>1, <2>2, <2>3
<1>7. ASSUME NEW n \in 1 .. Len(v), v[n].type = "LMP_GRP_LOADING_MSG"
      PROVE  v[n].uid = a[Len(a) - (e - n) + 1]
  <2>1. v[n].uid = a[Len(a) - ((e + 1) - (n + 1)) + 1]
    BY <1>3, <1>7
  <2>2. (e + 1) - (n + 1) = e - n
    BY <1>1
  <2> QED
    BY <2>1, <2>2
<1>8. w[1].uid = a[Len(s) + 1]
  <2>1. w[1].uid = a[Len(a) - ((e + 1) - 1) + 1]
    BY <1>1, <1>3
  <2>2. Len(a) - ((e + 1) - 1) + 1 = Len(s) + 1
    BY <1>1, <1>4, SMTT(30)
  <2> QED
    BY <2>1, <2>2
<1> QED
  BY <1>3, <1>4, <1>5, <1>6, <1>7, <1>8 DEF AnswerAt

\* Something else is taken from the wire.
LEMMA OtherTaken ==
  ASSUME NEW w \in Seq(ServerFrame), NEW v \in Seq(ServerFrame), Len(v) = Len(w) - 1,
         \A k \in 1 .. Len(v) : k + 1 \in 1 .. Len(w) /\ v[k] = w[k + 1],
         NEW e \in 1 .. Len(v), NEW a \in Seq(Uids), NEW s \in Seq(Uids), NEW uid, NEW other,
         AnswerAt(w, e + 1, a, s, 0, uid), w[1].type # "LMP_GRP_LOADING_MSG"
  PROVE  AnswerAt(v, e, a, s, 0, other)
<1>1. /\ Len(w) \in Nat /\ Len(v) \in Nat /\ Len(a) \in Nat /\ Len(s) \in Nat /\ e \in Nat
      /\ 1 \in 1 .. Len(w)
  OBVIOUS
<1>2. PICK left \in Nat : left = LinesLeft(a, s, 0) /\ left \in 0 .. e
  BY <1>1 DEF AnswerAt
<1>3. /\ \A n \in 1 .. Len(w) : w[n].type = "LMP_GRP_LOADING_MSG" <=> (e + 1) - left <= n /\ n < e + 1
      /\ \A n \in 1 .. Len(w) :
           w[n].type = "LMP_GRP_LOADING_MSG" => w[n].uid = a[Len(a) - ((e + 1) - n) + 1]
      /\ \A i \in 1 .. Len(s) : s[i] = a[i]
  BY <1>2 DEF AnswerAt
<1>4. left \in 0 .. e - 1
  <2>1. ~((e + 1) - left <= 1)
    BY <1>1, <1>3
  <2> QED
    BY <1>1, <1>2, <2>1
<1>5. ASSUME NEW n \in 1 .. Len(v)
      PROVE  v[n].type = "LMP_GRP_LOADING_MSG" <=> e - left <= n /\ n < e
  <2>1. v[n].type = "LMP_GRP_LOADING_MSG" <=> (e + 1) - left <= n + 1 /\ n + 1 < e + 1
    <3>1. PICK m \in 1 .. Len(w) : m = n + 1 /\ v[n] = w[m]
      OBVIOUS
    <3>2. w[m].type = "LMP_GRP_LOADING_MSG" <=> (e + 1) - left <= m /\ m < e + 1
      BY <1>3
    <3> QED
      BY <3>1, <3>2
  <2>2. (e + 1) - left <= n + 1 <=> e - left <= n
    BY <1>1, <1>2
  <2>3. n + 1 < e + 1 <=> n < e
    BY <1>1
  <2> QED
    BY <2>1, <2>2, <2>3
<1>6. ASSUME NEW n \in 1 .. Len(v), v[n].type = "LMP_GRP_LOADING_MSG"
      PROVE  v[n].uid = a[Len(a) - (e - n) + 1]
  <2>1. v[n].uid = a[Len(a) - ((e + 1) - (n + 1)) + 1]
    BY <1>3, <1>6
  <2>2. (e + 1) - (n + 1) = e - n
    BY <1>1
  <2> QED
    BY <2>1, <2>2
<1> QED
  BY <1>2, <1>3, <1>4, <1>5, <1>6 DEF AnswerAt

\* The line in hand is shown.
LEMMA LineShown ==
  ASSUME NEW w \in Seq(ServerFrame), NEW e \in 1 .. Len(w),
         NEW a \in Seq(Uids), NEW s \in Seq(Uids), NEW uid \in Uids,
         AnswerAt(w, e, a, s, 1, uid)
  PROVE  AnswerAt(w, e, a, Append(s, uid), 0, uid)
<1>1. Len(a) \in Nat /\ Len(s) \in Nat /\ Len(Append(s, uid)) = Len(s) + 1
  OBVIOUS
<1>2. LinesLeft(a, Append(s, uid), 0) = LinesLeft(a, s, 1)
  BY <1>1 DEF LinesLeft
<1>3. \A i \in 1 .. Len(s) + 1 : Append(s, uid)[i] = a[i]
  <2>1. \A i \in 1 .. Len(s) : Append(s, uid)[i] = s[i] /\ s[i] = a[i]
    BY DEF AnswerAt
  <2>2. Append(s, uid)[Len(s) + 1] = uid /\ uid = a[Len(s) + 1]
    BY DEF AnswerAt
  <2>3. \A i \in 1 .. Len(s) + 1 : i \in 1 .. Len(s) \/ i = Len(s) + 1
    BY <1>1
  <2> QED
    BY <2>1, <2>2, <2>3
<1> QED
  BY <1>1, <1>2, <1>3 DEF AnswerAt

\* A frame that is no line is written behind the end.
LEMMA OtherWritten ==
  ASSUME NEW w \in Seq(ServerFrame), NEW v \in Seq(ServerFrame), Len(v) = Len(w) + 1,
         \A n \in 1 .. Len(w) : v[n] = w[n], v[Len(v)].type # "LMP_GRP_LOADING_MSG",
         NEW e \in 1 .. Len(w), NEW a, NEW s, NEW h, NEW uid, AnswerAt(w, e, a, s, h, uid)
  PROVE  AnswerAt(v, e, a, s, h, uid)
<1>1. Len(w) \in Nat /\ \A n \in 1 .. Len(v) : n \in 1 .. Len(w) \/ n = Len(v)
  OBVIOUS
<1>2. ~(Len(v) < e)
  BY <1>1
<1> QED
  BY <1>1, <1>2 DEF AnswerAt

\* The whole answer is written, and nothing of it is shown.
LEMMA AnswerBegins ==
  ASSUME NEW w \in Seq(ServerFrame), NEW v \in Seq(ServerFrame), NEW a \in Seq(Uids),
         Len(v) = Len(w) + Len(a) + 1,
         \A n \in 1 .. Len(w) : v[n] = w[n] /\ w[n].type # "LMP_GRP_LOADING_MSG",
         \A k \in 1 .. Len(a) : /\ v[Len(w) + k].type = "LMP_GRP_LOADING_MSG"
                                /\ v[Len(w) + k].uid = a[k],
         v[Len(v)].type = "LMP_GRP_LOAD_MSG",
         NEW s \in Seq(Uids), Len(s) = 0, NEW uid
  PROVE  AnswerAt(v, Len(v), a, s, 0, uid)
<1>1. Len(w) \in Nat /\ Len(a) \in Nat /\ LinesLeft(a, s, 0) = Len(a)
  BY DEF LinesLeft
<1>2. Len(a) \in 0 .. Len(v) - 1 /\ Len(v) - Len(a) = Len(w) + 1
  BY <1>1
<1>3. \A n \in 1 .. Len(v) : \/ n \in 1 .. Len(w)
                             \/ n - Len(w) \in 1 .. Len(a) /\ Len(w) + (n - Len(w)) = n
                             \/ n = Len(v)
  <2> SUFFICES ASSUME NEW n \in 1 .. Len(v), n \notin 1 .. Len(w), n # Len(v)
               PROVE  n - Len(w) \in 1 .. Len(a) /\ Len(w) + (n - Len(w)) = n
    OBVIOUS
  <2>1. n > Len(w) /\ n < Len(w) + Len(a) + 1
    BY <1>1
  <2> QED
    BY <1>1, <2>1
<1>4. ASSUME NEW n \in 1 .. Len(v)
      PROVE  v[n].type = "LMP_GRP_LOADING_MSG" <=> Len(v) - Len(a) <= n /\ n < Len(v)
  <2>1. CASE n \in 1 .. Len(w)
    BY <1>1, <1>2, <2>1
  <2>2. CASE n - Len(w) \in 1 .. Len(a) /\ Len(w) + (n - Len(w)) = n
    <3>1. v[Len(w) + (n - Len(w))].type = "LMP_GRP_LOADING_MSG"
      BY <2>2
    <3>2. Len(w) + 1 <= n /\ n < Len(v)
      BY <1>1, <2>2
    <3> QED
      BY <1>2, <2>2, <3>1, <3>2
  <2>3. CASE n = Len(v)
    BY <1>1, <2>3
  <2> QED
    BY <1>3, <2>1, <2>2, <2>3
<1>5. ASSUME NEW n \in 1 .. Len(v), v[n].type = "LMP_GRP_LOADING_MSG"
      PROVE  v[n].uid = a[Len(a) - (Len(v) - n) + 1]
  <2>1. n - Len(w) \in 1 .. Len(a) /\ Len(w) + (n - Len(w)) = n
    BY <1>1, <1>2, <1>3, <1>4, <1>5
  <2>2. v[n].uid = a[n - Len(w)]
    BY <2>1
  <2>3. Len(a) - (Len(v) - n) + 1 = n - Len(w)
    BY <1>1
  <2> QED
    BY <2>2, <2>3
<1> QED
  BY <1>1, <1>2, <1>4, <1>5 DEF AnswerAt

\* No end on its way, and then no line either.
LEMMA NothingOnItsWay ==
  ASSUME TypeInv, LoadInv, Ends = 0
  PROVE  /\ ~EndingLoad
         /\ \A n \in 1 .. Len(wire) : wire[n].type \notin {"LMP_GRP_LOAD_MSG", "LMP_GRP_LOADING_MSG"}
<1>1. wire \in Seq(ServerFrame) /\ Count(wire, "LMP_GRP_LOAD_MSG") \in Nat
  BY LoadCounts DEF TypeInv, ClientTypeOK
<1>2. ~EndingLoad /\ Count(wire, "LMP_GRP_LOAD_MSG") = 0
  BY <1>1 DEF Ends
<1>3. \A n \in 1 .. Len(wire) : wire[n].type # "LMP_GRP_LOAD_MSG"
  BY <1>1, <1>2, CountType
<1> QED
  BY <1>2, <1>3 DEF LoadInv, LinesEnd

\* While a request is about to be sent or unread, no answer is on its way.
LEMMA RequestAlone ==
  ASSUME TypeInv, LoadInv, connection # "closed", user = "load_send" \/ Requests > 0
  PROVE  Ends = 0 /\ Requests + (IF user = "load_send" THEN 1 ELSE 0) = 1
<1> DEFINE u == IF user = "load_send" THEN 1 ELSE 0
<1>1. /\ Requests \in Nat /\ Ends \in Nat /\ u \in {0, 1}
      /\ LoadsUnderWay = Requests + Ends + u
  BY LoadCounts
<1>2. LoadsUnderWay \in {0, 1}
  BY DEF LoadInv, LoadMatchesState
<1>3. Requests + u >= 1
  BY <1>1
<1> HIDE DEF u
<1>4. Ends = 0 /\ Requests + u = 1
  BY <1>1, <1>2, <1>3
<1> QED
  BY <1>4 DEF u

LEMMA InitAnswer == Init => AnswerInv
<1> SUFFICES ASSUME Init PROVE AnswerInv
  OBVIOUS
<1>1. TypeInv /\ LoadInv
  BY InitTyped, InitLoad
<1>2. /\ wire = <<>> /\ receiver = "reading" /\ user = "prompt" /\ shown = <<>>
      /\ loading_message_state = "STATE_IDLE"
  BY DEF Init
<1>3. Len(wire) = 0
  BY <1>1, <1>2 DEF TypeInv, ClientTypeOK
<1> QED
  BY <1>2, <1>3 DEF AnswerInv, EndingLoad, LineInHand

LEMMA UserAnswer ==
  ASSUME TypeInv, LoadInv, AnswerInv, UserRuns \/ UserTypes
  PROVE  AnswerInv'
<1>1. /\ UserEffect
      /\ shown' \in {shown, <<>>}
  BY UserSteps
<1>2. /\ UNCHANGED <<wire, receiver, frame, answer>>
      /\ connection' # "closed" <=> connection # "closed"
  BY <1>1 DEF UserEffect, receiverVars, serverVars
<1>3. (EndingLoad' <=> EndingLoad) /\ (LineInHand' <=> LineInHand) /\ InHand' = InHand
  BY <1>2 DEF EndingLoad, LineInHand, InHand
<1>4. CASE SetRequesting("load_set", "load_send")
  <2>1. user = "load_set" /\ shown' = <<>>
    BY <1>4 DEF SetRequesting, UserStep
  <2>2. loading_message_state = "STATE_IDLE" /\ Ends = 0 /\ ~LineInHand
    BY <2>1 DEF LoadInv
  <2>3. /\ ~EndingLoad
        /\ \A n \in 1 .. Len(wire) : wire[n].type # "LMP_GRP_LOAD_MSG"
    BY <2>2, NothingOnItsWay
  <2> QED
    BY <1>2, <1>3, <2>1, <2>2, <2>3 DEF AnswerInv
<1>5. CASE ~SetRequesting("load_set", "load_send")
  <2>1. UNCHANGED shown /\ user' # "load_send"
    BY <1>5 DEF UserRuns, UserTypes, MsgSend, NickSend, GroupInfoCopyMembers, GroupInfoCopyCount,
                GroupInfoPrint, LoadTestRequesting, LoadTestLoading, RequestLoad, SendRequest,
                Leave, Join, UserStep, load
  <2>2. Requests' = Requests \/ user = "load_send"
    <3>1. CASE UNCHANGED outbox
      BY <3>1 DEF Requests
    <3>2. ASSUME NEW f, Writes(f), user # "load_send" PROVE Requests' = Requests
      <4>1. /\ f \in ClientFrame /\ outbox' = Append(outbox, f) /\ outbox \in Seq(ClientFrame)
            /\ f.type # "LMP_GRP_LOAD_MSG"
        BY <3>2 DEF Writes, TypeInv, ClientTypeOK
      <4>2. Requests' = Requests + 0
        BY <4>1, CountAppend DEF Requests
      <4>3. Requests \in Nat
        BY LoadCounts
      <4> QED
        BY <4>2, <4>3
    <3> QED
      BY <1>1, <3>1, <3>2 DEF UserEffect
  <2>3. connection' # "closed" /\ (user' = "load_send" \/ Requests' > 0)
          => shown' = <<>> /\ ~LineInHand'
    BY <1>2, <1>3, <2>1, <2>2 DEF AnswerInv
  <2>4. EndingLoad' => shown' = answer'
    BY <1>2, <1>3, <2>1 DEF AnswerInv
  <2>5. \A e \in 1 .. Len(wire') :
          wire'[e].type = "LMP_GRP_LOAD_MSG"
            => AnswerAt(wire', e, answer', shown', InHand', frame'.uid)
    BY <1>2, <1>3, <2>1 DEF AnswerInv
  <2> QED
    BY <2>3, <2>4, <2>5 DEF AnswerInv
<1> QED
  BY <1>4, <1>5

LEMMA ReceiverAnswer ==
  ASSUME TypeInv, LoadInv, AnswerInv, ReceiverRuns
  PROVE  AnswerInv'
<1> USE DEF ReceiverStep, userVars, serverVars, load, view
<1>1. UNCHANGED <<user, outbox, connection, answer>> /\ Requests' = Requests /\ LoadInv' /\ TypeInv'
  <2>1. UNCHANGED <<user, outbox, connection, answer>>
    BY DEF ReceiverRuns, Receive, Disconnect, MsgRecv, GrpObjRecvMembers, GrpObjRecvCount,
           LoadingMsgRecvTest, LoadingMsgRecvShow, LoadMsgRecvTest, LoadMsgRecvEnd, Handle
  <2> QED
    BY <2>1, ReceiverLoads, ReceiverTyped DEF Requests
<1>2. ASSUME UNCHANGED <<wire, shown, frame>>, LineInHand' <=> LineInHand, EndingLoad' => EndingLoad
      PROVE  AnswerInv'
  <2>1. InHand' = InHand
    BY <1>2 DEF InHand
  <2>2. /\ EndingLoad' => shown' = answer'
        /\ connection' # "closed" /\ (user' = "load_send" \/ Requests' > 0)
             => shown' = <<>> /\ ~LineInHand'
    BY <1>1, <1>2 DEF AnswerInv
  <2>3. \A e \in 1 .. Len(wire') :
          wire'[e].type = "LMP_GRP_LOAD_MSG"
            => AnswerAt(wire', e, answer', shown', InHand', frame'.uid)
    BY <1>1, <1>2, <2>1 DEF AnswerInv
  <2> QED
    BY <2>2, <2>3 DEF AnswerInv
<1>3. CASE Receive
  <2>1. /\ wire \in Seq(ServerFrame) /\ Len(wire) \in Nat \ {0} /\ Len(wire') = Len(wire) - 1
        /\ wire' \in Seq(ServerFrame)
        /\ receiver = "reading" /\ receiver' = "dispatch"
        /\ frame' = wire[1]
        /\ \A k \in 1 .. Len(wire') : k + 1 \in 1 .. Len(wire) /\ wire'[k] = wire[k + 1]
    BY <1>3, ReceivedFrame
  <2>2. UNCHANGED <<shown, answer>> /\ shown \in Seq(Uids) /\ answer \in Seq(Uids)
    BY <1>1, <1>3 DEF Receive, TypeInv, ClientTypeOK
  <2>3. /\ ~LineInHand /\ InHand = 0
        /\ LineInHand' <=> wire[1].type = "LMP_GRP_LOADING_MSG"
        /\ InHand' = IF wire[1].type = "LMP_GRP_LOADING_MSG" THEN 1 ELSE 0
        /\ EndingLoad' <=> wire[1].type = "LMP_GRP_LOAD_MSG"
    BY <2>1 DEF LineInHand, InHand, EndingLoad
  <2>4. EndingLoad' => shown' = answer'
    <3> SUFFICES ASSUME wire[1].type = "LMP_GRP_LOAD_MSG" PROVE shown = answer
      BY <2>2, <2>3
    <3>1. 1 \in 1 .. Len(wire)
      BY <2>1
    <3>2. AnswerAt(wire, 1, answer, shown, 0, frame.uid)
      BY <2>3, <3>1 DEF AnswerInv
    <3> QED
      BY <2>2, <3>2, AllShown
  <2>5. ASSUME NEW e \in 1 .. Len(wire'), wire'[e].type = "LMP_GRP_LOAD_MSG"
        PROVE  AnswerAt(wire', e, answer', shown', InHand', frame'.uid)
    <3>1. AnswerAt(wire, e + 1, answer, shown, 0, frame.uid)
      BY <2>1, <2>3, <2>5 DEF AnswerInv
    <3>2. CASE wire[1].type = "LMP_GRP_LOADING_MSG"
      <4>1. AnswerAt(wire', e, answer, shown, 1, wire[1].uid)
        BY <2>1, <2>2, <3>1, <3>2, LineTaken
      <4> QED
        BY <2>1, <2>2, <2>3, <3>2, <4>1
    <3>3. CASE wire[1].type # "LMP_GRP_LOADING_MSG"
      <4>1. AnswerAt(wire', e, answer, shown, 0, wire[1].uid)
        BY <2>1, <2>2, <3>1, <3>3, OtherTaken
      <4> QED
        BY <2>1, <2>2, <2>3, <3>3, <4>1
    <3> QED
      BY <3>2, <3>3
  <2>6. connection' # "closed" /\ (user' = "load_send" \/ Requests' > 0)
          => shown' = <<>> /\ ~LineInHand'
    <3> SUFFICES ASSUME connection # "closed", user = "load_send" \/ Requests > 0
                 PROVE  shown = <<>> /\ ~LineInHand'
      BY <1>1, <2>2
    <3>1. Ends = 0
      BY RequestAlone
    <3>2. wire[1].type # "LMP_GRP_LOADING_MSG"
      BY <2>1, <3>1, NothingOnItsWay
    <3> QED
      BY <2>3, <3>2 DEF AnswerInv
  <2> QED
    BY <2>4, <2>5, <2>6 DEF AnswerInv
<1>4. CASE Disconnect
  BY <1>2, <1>4 DEF Disconnect, EndingLoad, LineInHand
<1>5. CASE MsgRecv
  BY <1>2, <1>5 DEF MsgRecv, Handle, EndingLoad, LineInHand
<1>6. CASE GrpObjRecvMembers
  BY <1>2, <1>6 DEF GrpObjRecvMembers, Handle, EndingLoad, LineInHand
<1>7. CASE GrpObjRecvCount
  BY <1>2, <1>7 DEF GrpObjRecvCount, EndingLoad, LineInHand, TypeInv, FramesFit
<1>8. CASE LoadingMsgRecvTest
  <2>1. loading_message_state # "STATE_IDLE"
    BY <1>8 DEF LoadingMsgRecvTest, Handle, LoadInv, LineInHand
  <2> QED
    BY <1>2, <1>8, <2>1 DEF LoadingMsgRecvTest, Handle, EndingLoad, LineInHand
<1>9. CASE LoadingMsgRecvShow
  <2>1. /\ receiver = "showing" /\ receiver' = "reading"
        /\ shown' = Append(shown, frame.uid)
        /\ UNCHANGED <<wire, frame, answer>>
    BY <1>1, <1>9 DEF LoadingMsgRecvShow
  <2>2. /\ LineInHand /\ InHand = 1 /\ ~LineInHand' /\ InHand' = 0 /\ ~EndingLoad'
        /\ frame.uid \in Uids
    BY <2>1 DEF LineInHand, InHand, EndingLoad, TypeInv, FramesFit
  <2>3. ASSUME NEW e \in 1 .. Len(wire'), wire'[e].type = "LMP_GRP_LOAD_MSG"
        PROVE  AnswerAt(wire', e, answer', shown', InHand', frame'.uid)
    <3>1. AnswerAt(wire, e, answer, shown, 1, frame.uid) /\ e \in 1 .. Len(wire)
      BY <2>1, <2>2, <2>3 DEF AnswerInv
    <3>2. /\ wire \in Seq(ServerFrame) /\ answer \in Seq(Uids) /\ shown \in Seq(Uids)
      BY DEF TypeInv, ClientTypeOK
    <3>3. PICK uid \in Uids : uid = frame.uid
      BY <2>2
    <3>4. AnswerAt(wire, e, answer, Append(shown, uid), 0, uid)
      BY <3>1, <3>2, <3>3, LineShown
    <3> QED
      BY <2>1, <2>2, <3>3, <3>4
  <2>4. ~(connection' # "closed" /\ (user' = "load_send" \/ Requests' > 0))
    BY <1>1, <2>2 DEF AnswerInv
  <2> QED
    BY <2>2, <2>3, <2>4 DEF AnswerInv
<1>10. CASE LoadMsgRecvTest
  BY <1>2, <1>10 DEF LoadMsgRecvTest, Handle, EndingLoad, LineInHand
<1>11. CASE LoadMsgRecvEnd
  BY <1>2, <1>11 DEF LoadMsgRecvEnd, EndingLoad, LineInHand
<1> QED
  BY <1>3, <1>4, <1>5, <1>6, <1>7, <1>8, <1>9, <1>10, <1>11 DEF ReceiverRuns

LEMMA ServerAnswer ==
  ASSUME TypeInv, LoadInv, AnswerInv, ServerRuns \/ OthersAct \/ ServerEnds
  PROVE  AnswerInv'
<1>1. /\ UNCHANGED <<user, shown, receiver, frame>>
      /\ connection # "closed"
      /\ Announces \/ ServerReadsLoad \/ Closes
      /\ TypeInv'
  BY ServerSteps, ServerTyped
<1>2. /\ (EndingLoad' <=> EndingLoad) /\ (LineInHand' <=> LineInHand) /\ InHand' = InHand
      /\ wire \in Seq(ServerFrame) /\ wire' \in Seq(ServerFrame) /\ Len(wire) \in Nat
      /\ shown \in Seq(Uids)
  BY <1>1 DEF EndingLoad, LineInHand, InHand, TypeInv, ClientTypeOK
<1>3. CASE Announces
  <2>1. UNCHANGED <<connection, answer>> /\ Requests' = Requests
    BY <1>3 DEF Announces
  <2>2. ASSUME NEW e \in 1 .. Len(wire'), wire'[e].type = "LMP_GRP_LOAD_MSG"
        PROVE  AnswerAt(wire', e, answer, shown, InHand, frame.uid)
    <3>1. CASE UNCHANGED wire
      BY <2>2, <3>1 DEF AnswerInv
    <3>2. ASSUME NEW f, Wrote(f)
          PROVE  AnswerAt(wire', e, answer, shown, InHand, frame.uid)
      <4>1. /\ f \in ServerFrame /\ f.type \in {"LMP_GRP_OBJ", "LMP_MSG"}
            /\ ServerWrites(<<f>>)
        BY <3>2 DEF Wrote
      <4>2. /\ Len(wire') = Len(wire) + 1
            /\ \A n \in 1 .. Len(wire) : wire'[n] = wire[n]
            /\ wire'[Len(wire')] = f
        BY <1>1, <4>1, OneFrameWritten
      <4>3. e \in 1 .. Len(wire)
        <5>1. e # Len(wire')
          BY <2>2, <4>1, <4>2
        <5> QED
          BY <1>2, <4>2, <5>1
      <4>4. AnswerAt(wire, e, answer, shown, InHand, frame.uid)
        BY <2>2, <4>2, <4>3 DEF AnswerInv
      <4>5. wire'[Len(wire')].type # "LMP_GRP_LOADING_MSG"
        BY <4>1, <4>2
      <4> QED
        BY <1>2, <4>2, <4>3, <4>4, <4>5, OtherWritten
    <3> QED
      BY <1>3, <3>1, <3>2 DEF Announces
  <2> QED
    BY <1>1, <1>2, <2>1, <2>2 DEF AnswerInv
<1>4. CASE ServerReadsLoad
  <2>1. /\ history \in Seq(Uids) /\ Len(history) \in Nat
        /\ Len(wire') = Len(wire) + Len(history) + 1
        /\ \A n \in 1 .. Len(wire) : wire'[n] = wire[n]
        /\ \A k \in 1 .. Len(history) :
             /\ wire'[Len(wire) + k].type = "LMP_GRP_LOADING_MSG"
             /\ wire'[Len(wire) + k].uid = history[k]
        /\ wire'[Len(wire')].type = "LMP_GRP_LOAD_MSG"
        /\ answer' = history
    BY <1>4, AnswerWritten
  <2>2. /\ Count(wire', "LMP_GRP_LOAD_MSG") = Count(wire, "LMP_GRP_LOAD_MSG") + 1
        /\ Requests = Requests' + 1
    BY <1>4, AnswerWritten
  <2>3. Requests' \in Nat /\ Requests > 0 /\ Count(wire, "LMP_GRP_LOAD_MSG") \in Nat
    <3>1. Requests' \in Nat
      BY <1>1, LoadCountsNext
    <3>2. Requests \in Nat /\ Count(wire, "LMP_GRP_LOAD_MSG") \in Nat
      BY LoadCounts
    <3>3. Requests = Requests' + 1
      BY <2>2
    <3>4. Requests > 0
      <4>1. PICK r \in Nat : r = Requests'
        BY <3>1
      <4>2. PICK now \in Nat : now = Requests
        BY <3>2
      <4>3. now = r + 1
        BY <3>3, <4>1, <4>2
      <4>4. now > 0
        BY <4>3
      <4> QED
        BY <4>2, <4>4
    <3> QED
      BY <3>1, <3>2, <3>4
  <2>4. Ends = 0 /\ Requests + (IF user = "load_send" THEN 1 ELSE 0) = 1
    BY <1>1, <2>3, RequestAlone
  <2>5. /\ ~EndingLoad
        /\ \A n \in 1 .. Len(wire) : wire[n].type # "LMP_GRP_LOADING_MSG"
    BY <2>4, NothingOnItsWay
  <2>6. shown = <<>> /\ ~LineInHand /\ InHand = 0 /\ Len(shown) = 0
    BY <1>1, <1>2, <2>3 DEF AnswerInv, InHand
  <2>7. user # "load_send" /\ ~(Requests' > 0)
    <3>1. PICK r \in Nat : r = Requests'
      BY <2>3
    <3>2. Requests = r + 1
      BY <2>2, <3>1
    <3>3. CASE user = "load_send"
      BY <2>4, <3>2, <3>3
    <3>4. CASE user # "load_send"
      <4>1. Requests = 1
        BY <2>4, <3>2, <3>4
      <4>2. r = 0
        BY <3>2, <4>1
      <4> QED
        BY <3>1, <3>4, <4>2
    <3> QED
      BY <3>3, <3>4
  <2>8. Count(wire', "LMP_GRP_LOAD_MSG") <= 1
    BY <2>2, <2>3, <2>4 DEF Ends
  <2>9. AnswerAt(wire', Len(wire'), history, shown, 0, frame.uid)
    <3>1. PICK w \in Seq(ServerFrame), v \in Seq(ServerFrame), a \in Seq(Uids), s \in Seq(Uids) :
            w = wire /\ v = wire' /\ a = history /\ s = shown
      BY <1>2, <2>1
    <3>2. /\ Len(v) = Len(w) + Len(a) + 1
          /\ \A n \in 1 .. Len(w) : v[n] = w[n] /\ w[n].type # "LMP_GRP_LOADING_MSG"
          /\ \A k \in 1 .. Len(a) : /\ v[Len(w) + k].type = "LMP_GRP_LOADING_MSG"
                                    /\ v[Len(w) + k].uid = a[k]
          /\ v[Len(v)].type = "LMP_GRP_LOAD_MSG"
          /\ Len(s) = 0
      BY <2>1, <2>5, <2>6, <3>1
    <3>3. AnswerAt(v, Len(v), a, s, 0, frame.uid)
      BY <3>2, AnswerBegins
    <3> QED
      BY <3>1, <3>3
  <2>10. ASSUME NEW e \in 1 .. Len(wire'), wire'[e].type = "LMP_GRP_LOAD_MSG"
         PROVE  AnswerAt(wire', e, answer', shown', InHand', frame'.uid)
    <3>1. Len(wire') \in 1 .. Len(wire')
      BY <1>2, <2>1
    <3>2. e = Len(wire')
      <4>0. PICK v \in Seq(ServerFrame) : v = wire'
        BY <1>2
      <4>1. PICK last \in 1 .. Len(v) : last = Len(wire')
        BY <3>1, <4>0
      <4>2. /\ e \in 1 .. Len(v) /\ v[e].type = "LMP_GRP_LOAD_MSG"
            /\ v[last].type = "LMP_GRP_LOAD_MSG"
            /\ Count(v, "LMP_GRP_LOAD_MSG") <= 1
        BY <2>1, <2>8, <2>10, <4>0, <4>1
      <4>3. e = last
        BY <4>2, CountOneIsUnique
      <4> QED
        BY <4>1, <4>3
    <3> QED
      BY <1>1, <1>2, <2>1, <2>6, <2>9, <3>2
  <2> QED
    BY <1>1, <1>2, <2>5, <2>7, <2>10 DEF AnswerInv
<1>5. CASE Closes
  <2>1. CASE wire' = wire
    BY <1>1, <1>2, <1>5, <2>1 DEF Closes, AnswerInv
  <2>2. CASE wire' = <<>>
    <3>1. Len(wire') = 0
      BY <1>2, <2>2
    <3> QED
      BY <1>1, <1>2, <1>5, <3>1 DEF Closes, AnswerInv
  <2> QED
    BY <1>5, <2>1, <2>2 DEF Closes
<1> QED
  BY <1>1, <1>3, <1>4, <1>5

LEMMA AnswerInvariant == Spec => [](TypeInv /\ LoadInv /\ AnswerInv)
<1>1. TypeInv /\ LoadInv /\ AnswerInv /\ [Next]_vars => AnswerInv'
  <2> SUFFICES ASSUME TypeInv, LoadInv, AnswerInv, [Next]_vars PROVE AnswerInv'
    OBVIOUS
  <2>1. CASE UserRuns \/ UserTypes
    BY <2>1, UserAnswer
  <2>2. CASE ReceiverRuns
    BY <2>2, ReceiverAnswer
  <2>3. CASE ServerRuns \/ OthersAct \/ ServerEnds
    BY <2>3, ServerAnswer
  <2>4. CASE UNCHANGED vars
    BY <2>4 DEF vars, userVars, load, view, receiverVars, net, serverVars, AnswerInv, EndingLoad,
               LineInHand, InHand, Requests
  <2> QED
    BY <2>1, <2>2, <2>3, <2>4 DEF Next
<1> QED
  BY <1>1, InitAnswer, LoadInvariant, PTL DEF Spec

\* A load that ends has shown the whole history as it was when the server
\* answered, in its order, each line once: no line is lost between the two
\* threads, shown twice, or left over from an earlier load.
THEOREM LoadsShowEverything == Spec => LoadShowsAll
<1>1. TypeInv /\ LoadInv /\ AnswerInv /\ [Next]_vars
        => [loading_message_state # "STATE_IDLE" /\ loading_message_state' = "STATE_IDLE"
              => shown' = answer]_vars
  <2> SUFFICES ASSUME AnswerInv, TypeInv, Next,
                      loading_message_state # "STATE_IDLE", loading_message_state' = "STATE_IDLE"
               PROVE  shown' = answer
    OBVIOUS
  <2>1. CASE UserRuns \/ UserTypes
    BY <2>1, UserSteps
  <2>2. CASE ReceiverRuns
    <3>1. LoadMsgRecvEnd
      BY <2>2 DEF ReceiverRuns, Receive, Disconnect, MsgRecv, GrpObjRecvMembers, GrpObjRecvCount,
                  LoadingMsgRecvTest, LoadingMsgRecvShow, LoadMsgRecvTest, Handle, load
    <3>2. receiver = "ending" /\ shown' = shown
      BY <3>1 DEF LoadMsgRecvEnd, ReceiverStep
    <3> QED
      BY <3>2 DEF AnswerInv, EndingLoad
  <2>3. CASE ServerRuns \/ OthersAct \/ ServerEnds
    BY <2>3, ServerSteps
  <2> QED
    BY <2>1, <2>2, <2>3 DEF Next
<1> QED
  BY <1>1, AnswerInvariant, PTL DEF Spec, LoadShowsAll

-----------------------------------------------------------------------------
(* What the user is shown.  The server writes an index or a UID together   *)
(* with the name its author has then; the client reads it after every      *)
(* group the server wrote before it.  The invariant says so of each frame  *)
(* on its way: it fits the group the receiver will hold by then.           *)

\* The group the receiver holds, or is about to; none before the first one.
ObjInHand == receiver = "storing" \/ (receiver = "dispatch" /\ frame.type = "LMP_GRP_OBJ")

Hand == IF ObjInHand THEN {frame.group}
        ELSE IF user_group_is_initialized = 1 THEN {user_group} ELSE {}

\* The receiver, with one of the groups in hand, holds g when it comes to
\* frame n of seq: the last group before it, or that in hand.
InView(seq, hand, n, g) ==
  \/ \E m \in 1 .. n - 1 : /\ seq[m].type = "LMP_GRP_OBJ"
                           /\ \A k \in m + 1 .. n - 1 : seq[k].type # "LMP_GRP_OBJ"
                           /\ g = seq[m].group
  \/ (\A k \in 1 .. n - 1 : seq[k].type # "LMP_GRP_OBJ") /\ g \in hand

\* What a frame names, g names the same.
Matches(f, g) ==
  /\ f.type = "LMP_MSG" => g.members[f.index].nickname = f.as
  /\ f.type = "LMP_GRP_LOADING_MSG" => LineName(g, f.uid) = f.as

ViewInv ==
  /\ \A n \in 1 .. Len(wire) : \A g : InView(wire, Hand, n, g) => Matches(wire[n], g)
  /\ connection # "closed" =>
       \A g : InView(wire, Hand, Len(wire) + 1, g) => g = current_group
  /\ receiver = "storing" => user_group.members = frame.group.members
  /\ user_group_is_initialized = 1 =>
       /\ receiver = "dispatch" /\ frame.type = "LMP_MSG" => peer_nick = frame.as
       /\ LineInHand => LineName(user_group, frame.uid) = frame.as

\* What is written behind a frame does not change what is held there.
LEMMA ViewBefore ==
  ASSUME NEW v, NEW w, NEW l \in Nat, \A k \in 1 .. l : v[k] = w[k],
         NEW hand, NEW n \in 1 .. l + 1, NEW g, InView(v, hand, n, g)
  PROVE  InView(w, hand, n, g)
<1>1. \A k \in 1 .. n - 1 : v[k] = w[k]
  OBVIOUS
<1>2. CASE \E m \in 1 .. n - 1 : /\ v[m].type = "LMP_GRP_OBJ"
                                 /\ \A k \in m + 1 .. n - 1 : v[k].type # "LMP_GRP_OBJ"
                                 /\ g = v[m].group
  <2>1. PICK m \in 1 .. n - 1 : /\ v[m].type = "LMP_GRP_OBJ"
                                /\ \A k \in m + 1 .. n - 1 : v[k].type # "LMP_GRP_OBJ"
                                /\ g = v[m].group
    BY <1>2
  <2>2. \A k \in m + 1 .. n - 1 : k \in 1 .. n - 1
    OBVIOUS
  <2>3. w[m] = v[m] /\ \A k \in m + 1 .. n - 1 : w[k] = v[k]
    BY <1>1, <2>2
  <2> QED
    BY <2>1, <2>3 DEF InView
<1>3. CASE (\A k \in 1 .. n - 1 : v[k].type # "LMP_GRP_OBJ") /\ g \in hand
  BY <1>1, <1>3 DEF InView
<1> QED
  BY <1>2, <1>3 DEF InView

\* Frames that are no groups change nothing.
LEMMA ViewKept ==
  ASSUME NEW v, NEW hand, NEW n \in Nat, NEW l \in 1 .. n,
         \A k \in l .. n - 1 : v[k].type # "LMP_GRP_OBJ",
         NEW g, InView(v, hand, n, g)
  PROVE  InView(v, hand, l, g)
<1>1. \A k \in 1 .. l - 1 : k \in 1 .. n - 1
  OBVIOUS
<1>2. CASE \E m \in 1 .. n - 1 : /\ v[m].type = "LMP_GRP_OBJ"
                                 /\ \A k \in m + 1 .. n - 1 : v[k].type # "LMP_GRP_OBJ"
                                 /\ g = v[m].group
  <2>1. PICK m \in 1 .. n - 1 : /\ v[m].type = "LMP_GRP_OBJ"
                                /\ \A k \in m + 1 .. n - 1 : v[k].type # "LMP_GRP_OBJ"
                                /\ g = v[m].group
    BY <1>2
  <2>2. m \in 1 .. l - 1
    <3>1. ~(m \in l .. n - 1)
      BY <2>1
    <3> QED
      BY <3>1
  <2>3. \A k \in m + 1 .. l - 1 : k \in m + 1 .. n - 1
    BY <2>2
  <2> QED
    BY <2>1, <2>2, <2>3 DEF InView
<1>3. CASE (\A k \in 1 .. n - 1 : v[k].type # "LMP_GRP_OBJ") /\ g \in hand
  BY <1>1, <1>3 DEF InView
<1> QED
  BY <1>2, <1>3 DEF InView

\* Behind a group that group is held.
LEMMA ViewRenewed ==
  ASSUME NEW v, NEW hand, NEW n \in Nat \ {0}, v[n].type = "LMP_GRP_OBJ",
         NEW g, InView(v, hand, n + 1, g)
  PROVE  g = v[n].group
<1>1. n \in 1 .. (n + 1) - 1 /\ (n + 1) - 1 = n
  OBVIOUS
<1>2. ~(\A k \in 1 .. (n + 1) - 1 : v[k].type # "LMP_GRP_OBJ")
  BY <1>1
<1>3. PICK m \in 1 .. (n + 1) - 1 : /\ \A k \in m + 1 .. (n + 1) - 1 : v[k].type # "LMP_GRP_OBJ"
                                    /\ g = v[m].group
  BY <1>2 DEF InView
<1>4. m = n
  <2>1. ~(n \in m + 1 .. (n + 1) - 1)
    BY <1>3
  <2> QED
    BY <1>1, <2>1
<1> QED
  BY <1>3, <1>4

\* With the first frame read, and in hand if it was a group, the others find
\* what they found before.
LEMMA ViewMoves ==
  ASSUME NEW w, NEW t, NEW l \in Nat, \A k \in 1 .. l : t[k] = w[k + 1],
         NEW hand, NEW next, next = IF w[1].type = "LMP_GRP_OBJ" THEN {w[1].group} ELSE hand,
         NEW n \in 1 .. l + 1, NEW g, InView(t, next, n, g)
  PROVE  InView(w, hand, n + 1, g)
<1>1. /\ \A k \in 1 .. n - 1 : t[k] = w[k + 1]
      /\ n - 1 \in Nat /\ (n + 1) - 1 = n
  OBVIOUS
<1>2. CASE \E m \in 1 .. n - 1 : /\ t[m].type = "LMP_GRP_OBJ"
                                 /\ \A k \in m + 1 .. n - 1 : t[k].type # "LMP_GRP_OBJ"
                                 /\ g = t[m].group
  <2>1. PICK m \in 1 .. n - 1 : /\ t[m].type = "LMP_GRP_OBJ"
                                /\ \A k \in m + 1 .. n - 1 : t[k].type # "LMP_GRP_OBJ"
                                /\ g = t[m].group
    BY <1>2
  <2>2. PICK j \in 1 .. n : j = m + 1
    OBVIOUS
  <2>3. w[j].type = "LMP_GRP_OBJ" /\ g = w[j].group
    BY <1>1, <2>1, <2>2
  <2>4. ASSUME NEW k \in j + 1 .. n PROVE w[k].type # "LMP_GRP_OBJ"
    <3>1. PICK i \in m + 1 .. n - 1 : i = k - 1
      BY <2>2, <2>4
    <3>2. t[i].type # "LMP_GRP_OBJ" /\ i \in 1 .. n - 1 /\ i + 1 = k
      BY <2>1, <3>1
    <3> QED
      BY <1>1, <3>2
  <2> QED
    BY <1>1, <2>3, <2>4 DEF InView
<1>3. CASE (\A k \in 1 .. n - 1 : t[k].type # "LMP_GRP_OBJ") /\ g \in next
  <2>1. ASSUME NEW k \in 2 .. n PROVE w[k].type # "LMP_GRP_OBJ"
    <3>1. PICK i \in 1 .. n - 1 : i = k - 1 /\ i + 1 = k
      OBVIOUS
    <3> QED
      BY <1>1, <1>3, <3>1
  <2>2. CASE w[1].type = "LMP_GRP_OBJ"
    <3>1. 1 \in 1 .. n /\ g = w[1].group /\ \A k \in 1 + 1 .. n : w[k].type # "LMP_GRP_OBJ"
      BY <1>3, <2>1, <2>2
    <3> QED
      BY <1>1, <2>2, <3>1 DEF InView
  <2>3. CASE w[1].type # "LMP_GRP_OBJ"
    <3>1. g \in hand /\ \A k \in 1 .. n : w[k].type # "LMP_GRP_OBJ"
      BY <1>3, <2>1, <2>3
    <3> QED
      BY <1>1, <3>1 DEF InView
  <2> QED
    BY <2>2, <2>3
<1> QED
  BY <1>2, <1>3 DEF InView

\* At the first frame it is the group in hand.
LEMMA ViewFirst ==
  ASSUME NEW v, NEW hand, NEW g
  PROVE  InView(v, hand, 1, g) <=> g \in hand
  BY DEF InView

LEMMA InitView == Init => ViewInv
<1> SUFFICES ASSUME Init PROVE ViewInv
  OBVIOUS
<1>1. /\ wire = <<>> /\ receiver = "reading" /\ user_group_is_initialized = 0
      /\ wire \in Seq(ServerFrame) /\ Len(wire) = 0
  BY InitTyped DEF Init, TypeInv, ClientTypeOK
<1>2. Hand = {}
  BY <1>1 DEF Hand, ObjInHand
<1>3. \A g : ~InView(wire, Hand, Len(wire) + 1, g)
  BY <1>1, <1>2, ViewFirst
<1> QED
  BY <1>1, <1>3 DEF ViewInv

LEMMA UserViews ==
  ASSUME TypeInv, ViewInv, UserRuns \/ UserTypes
  PROVE  ViewInv'
<1>1. /\ UNCHANGED <<wire, user_group, user_group_is_initialized, receiver, frame, peer_nick,
                     current_group>>
      /\ connection' # "closed" <=> connection # "closed"
  BY UserSteps DEF UserEffect, view, receiverVars, serverVars
<1>2. Hand' = Hand /\ (LineInHand' <=> LineInHand)
  BY <1>1 DEF Hand, ObjInHand, LineInHand
<1> QED
  BY <1>1, <1>2 DEF ViewInv

LEMMA ReceiverViews ==
  ASSUME TypeInv, ViewInv, ReceiverRuns
  PROVE  ViewInv'
<1>1. /\ UNCHANGED <<connection, current_group>>
      /\ wire \in Seq(ServerFrame) /\ Len(wire) \in Nat
      /\ user_group \in Group /\ frame.group \in Group
  <2>1. UNCHANGED <<connection, current_group>>
    BY DEF ReceiverStep, serverVars,
           ReceiverRuns, Receive, Disconnect, MsgRecv, GrpObjRecvMembers, GrpObjRecvCount,
           LoadingMsgRecvTest, LoadingMsgRecvShow, LoadMsgRecvTest, LoadMsgRecvEnd, Handle
  <2>2. frame \in ServerFrame /\ user_group \in Group /\ wire \in Seq(ServerFrame)
    BY DEF TypeInv, ClientTypeOK
  <2>3. frame.group \in Group
    BY <2>2 DEF ServerFrame
  <2> QED
    BY <2>1, <2>2, <2>3
<1>2. ASSUME UNCHANGED <<wire, frame, user_group, user_group_is_initialized>>,
             ~ObjInHand, ~ObjInHand', receiver' # "storing",
             LineInHand' => LineInHand, receiver' # "dispatch"
      PROVE  ViewInv'
  <2>1. Hand' = Hand
    BY <1>2 DEF Hand
  <2> QED
    BY <1>1, <1>2, <2>1 DEF ViewInv
<1>3. CASE Receive
  <2>1. /\ receiver = "reading" /\ receiver' = "dispatch" /\ frame' = wire[1]
        /\ Len(wire') = Len(wire) - 1 /\ Len(wire') \in Nat /\ 1 \in 1 .. Len(wire)
        /\ \A k \in 1 .. Len(wire') : k + 1 \in 1 .. Len(wire) /\ wire'[k] = wire[k + 1]
        /\ UNCHANGED <<user_group, user_group_is_initialized>>
        /\ peer_nick' = user_group.members[frame'.index].nickname
    BY <1>1, <1>3, ReceivedFrame DEF Receive, view
  <2>2. Hand' = IF wire[1].type = "LMP_GRP_OBJ" THEN {wire[1].group} ELSE Hand
    BY <2>1 DEF Hand, ObjInHand
  <2>3. \A n \in 1 .. Len(wire') + 1 : \A g :
          InView(wire', Hand', n, g) => InView(wire, Hand, n + 1, g)
    BY <2>1, <2>2, ViewMoves
  <2>4. ASSUME NEW n \in 1 .. Len(wire'), NEW g, InView(wire', Hand', n, g)
        PROVE  Matches(wire'[n], g)
    <3>1. PICK m \in 1 .. Len(wire) : m = n + 1
      BY <2>1
    <3>2. InView(wire, Hand, m, g) /\ wire'[n] = wire[m]
      BY <2>1, <2>3, <2>4, <3>1
    <3> QED
      BY <3>2 DEF ViewInv
  <2>5. ASSUME connection' # "closed", NEW g, InView(wire', Hand', Len(wire') + 1, g)
        PROVE  g = current_group'
    <3>1. InView(wire, Hand, (Len(wire') + 1) + 1, g)
      BY <2>1, <2>3, <2>5
    <3>2. (Len(wire') + 1) + 1 = Len(wire) + 1
      BY <1>1, <2>1
    <3> QED
      BY <1>1, <2>5, <3>1, <3>2 DEF ViewInv
  <2>6. ASSUME user_group_is_initialized' = 1
        PROVE  /\ frame'.type = "LMP_MSG" => peer_nick' = frame'.as
               /\ LineInHand' => LineName(user_group', frame'.uid) = frame'.as
    <3>1. user_group \in Hand
      BY <2>1, <2>6 DEF Hand, ObjInHand
    <3>2. InView(wire, Hand, 1, user_group)
      BY <3>1, ViewFirst
    <3>3. Matches(wire[1], user_group)
      BY <2>1, <3>2 DEF ViewInv
    <3> QED
      BY <2>1, <3>3 DEF Matches, LineInHand
  <2> QED
    BY <2>1, <2>4, <2>5, <2>6 DEF ViewInv
<1>4. CASE Disconnect
  BY <1>2, <1>4 DEF Disconnect, ReceiverStep, ObjInHand, LineInHand, view
<1>5. CASE MsgRecv
  BY <1>2, <1>5 DEF MsgRecv, Handle, ReceiverStep, ObjInHand, LineInHand, view
<1>6. CASE GrpObjRecvMembers
  <2>1. /\ ObjInHand /\ ObjInHand' /\ receiver' = "storing" /\ ~LineInHand'
        /\ UNCHANGED <<wire, frame>>
        /\ user_group'.members = frame.group.members
    BY <1>1, <1>6 DEF GrpObjRecvMembers, Handle, ReceiverStep, ObjInHand, LineInHand, Group
  <2>2. Hand' = Hand
    BY <2>1 DEF Hand
  <2> QED
    BY <1>1, <2>1, <2>2 DEF ViewInv
<1>7. CASE GrpObjRecvCount
  <2>1. /\ receiver = "storing" /\ receiver' = "reading"
        /\ UNCHANGED <<wire, frame>>
        /\ user_group_is_initialized' = 1
        /\ user_group' = [user_group EXCEPT !.member_count = frame.group.member_count]
    BY <1>7 DEF GrpObjRecvCount, ReceiverStep
  <2>2. user_group' = frame.group
    <3>1. user_group.members = frame.group.members
      BY <2>1 DEF ViewInv
    <3> QED
      BY <1>1, <2>1, <3>1 DEF Group
  <2>3. Hand' = Hand /\ ~LineInHand'
    BY <2>1, <2>2 DEF Hand, ObjInHand, LineInHand
  <2> QED
    BY <1>1, <2>1, <2>3 DEF ViewInv
<1>8. CASE LoadingMsgRecvTest
  BY <1>2, <1>8 DEF LoadingMsgRecvTest, Handle, ReceiverStep, ObjInHand, LineInHand, view
<1>9. CASE LoadingMsgRecvShow
  BY <1>2, <1>9 DEF LoadingMsgRecvShow, ReceiverStep, ObjInHand, LineInHand, view
<1>10. CASE LoadMsgRecvTest
  BY <1>2, <1>10 DEF LoadMsgRecvTest, Handle, ReceiverStep, ObjInHand, LineInHand, view
<1>11. CASE LoadMsgRecvEnd
  BY <1>2, <1>11 DEF LoadMsgRecvEnd, ReceiverStep, ObjInHand, LineInHand, view
<1> QED
  BY <1>3, <1>4, <1>5, <1>6, <1>7, <1>8, <1>9, <1>10, <1>11 DEF ReceiverRuns

LEMMA ServerViews ==
  ASSUME TypeInv, ViewInv, ServerRuns \/ OthersAct \/ ServerEnds
  PROVE  ViewInv'
<1>1. /\ UNCHANGED <<user_group, user_group_is_initialized, receiver, frame, peer_nick>>
      /\ connection # "closed"
      /\ Announces \/ ServerReadsLoad \/ Closes
  BY ServerSteps
<1>2. /\ Hand' = Hand /\ (LineInHand' <=> LineInHand)
      /\ wire \in Seq(ServerFrame) /\ Len(wire) \in Nat
  BY <1>1 DEF Hand, ObjInHand, LineInHand, TypeInv, ClientTypeOK
<1>3. \A g : InView(wire, Hand, Len(wire) + 1, g) => g = current_group
  BY <1>1 DEF ViewInv
<1>4. ASSUME Len(wire') \in Nat, Len(wire') >= Len(wire),
             \A n \in 1 .. Len(wire) : wire'[n] = wire[n],
             \A n \in 1 .. Len(wire') : n > Len(wire) =>
               \A g : InView(wire', Hand, n, g) => Matches(wire'[n], g),
             \A g : InView(wire', Hand, Len(wire') + 1, g) => g = current_group'
      PROVE  ViewInv'
  <2>1. ASSUME NEW n \in 1 .. Len(wire'), NEW g, InView(wire', Hand, n, g)
        PROVE  Matches(wire'[n], g)
    <3>1. CASE n > Len(wire)
      BY <1>4, <2>1, <3>1
    <3>2. CASE ~(n > Len(wire))
      <4>1. n \in 1 .. Len(wire) /\ n \in 1 .. Len(wire) + 1
        BY <1>2, <3>2
      <4>2. InView(wire, Hand, n, g)
        BY <1>2, <1>4, <2>1, <4>1, ViewBefore
      <4> QED
        BY <1>4, <4>1, <4>2 DEF ViewInv
    <3> QED
      BY <3>1, <3>2
  <2> QED
    BY <1>1, <1>2, <1>4, <2>1 DEF ViewInv
<1>5. CASE UNCHANGED <<wire, current_group>>
  <2>1. \A n \in 1 .. Len(wire) : ~(n > Len(wire))
    BY <1>2
  <2> QED
    BY <1>2, <1>3, <1>4, <1>5, <2>1
<1>6. ASSUME NEW f, Wrote(f) PROVE ViewInv'
  <2>1. /\ f \in ServerFrame /\ f.type \in {"LMP_GRP_OBJ", "LMP_MSG"}
        /\ ServerWrites(<<f>>)
    BY <1>6 DEF Wrote
  <2>2. PICK n \in Nat \ {0} : n = Len(wire) + 1
    BY <1>2
  <2>3. /\ Len(wire') = n
        /\ \A k \in 1 .. Len(wire) : wire'[k] = wire[k]
        /\ wire'[n] = f
    BY <1>1, <2>1, <2>2, OneFrameWritten
  <2>4. \A g : InView(wire', Hand, n, g) => g = current_group
    <3>1. n \in 1 .. Len(wire) + 1
      BY <1>2, <2>2
    <3>2. \A g : InView(wire', Hand, n, g) => InView(wire, Hand, n, g)
      BY <1>2, <2>3, <3>1, ViewBefore
    <3> QED
      BY <1>3, <2>2, <3>2
  <2>5. \A g : InView(wire', Hand, n, g) => Matches(wire'[n], g)
    BY <1>6, <2>1, <2>3, <2>4 DEF Wrote, Matches
  <2>6. \A g : InView(wire', Hand, n + 1, g) => g = current_group'
    <3>1. CASE f.type = "LMP_GRP_OBJ"
      <4>1. f.group = current_group'
        BY <1>6, <3>1 DEF Wrote
      <4> QED
        BY <2>3, <3>1, <4>1, ViewRenewed
    <3>2. CASE f.type = "LMP_MSG"
      <4>1. UNCHANGED current_group
        BY <1>6, <3>2 DEF Wrote
      <4>2. PICK m \in Nat : m = n + 1 /\ n \in 1 .. m
        OBVIOUS
      <4>3. \A k \in n .. m - 1 : wire'[k].type # "LMP_GRP_OBJ"
        <5>1. \A k \in n .. m - 1 : k = n
          BY <4>2
        <5> QED
          BY <2>3, <3>2, <5>1
      <4>4. \A g : InView(wire', Hand, m, g) => InView(wire', Hand, n, g)
        BY <4>2, <4>3, ViewKept
      <4> QED
        BY <2>4, <4>1, <4>2, <4>4
    <3> QED
      BY <2>1, <3>1, <3>2
  <2>7. \A k \in 1 .. Len(wire') : k > Len(wire) => k = n
    BY <1>2, <2>2, <2>3
  <2>8. Len(wire') \in Nat /\ Len(wire') >= Len(wire)
    BY <1>2, <2>2, <2>3
  <2> QED
    BY <1>4, <2>3, <2>5, <2>6, <2>7, <2>8
<1>7. CASE ServerReadsLoad
  <2>1. /\ history \in Seq(Uids) /\ Len(history) \in Nat
        /\ Len(wire') = Len(wire) + Len(history) + 1
        /\ \A n \in 1 .. Len(wire) : wire'[n] = wire[n]
        /\ \A k \in 1 .. Len(history) :
             /\ wire'[Len(wire) + k].type = "LMP_GRP_LOADING_MSG"
             /\ wire'[Len(wire) + k].uid = history[k]
             /\ wire'[Len(wire) + k].as = LineName(current_group, history[k])
        /\ wire'[Len(wire')].type = "LMP_GRP_LOAD_MSG"
        /\ UNCHANGED current_group
    BY <1>7, AnswerWritten
  <2>2. PICK l \in Nat, end \in Nat : /\ l = Len(wire) + 1 /\ end = Len(wire')
                                      /\ l \in 1 .. Len(wire) + 1 /\ l \in 1 .. end
    BY <1>2, <2>1
  <2>3. ASSUME NEW n \in l .. end
        PROVE  /\ n = end => wire'[n].type = "LMP_GRP_LOAD_MSG"
               /\ n # end => /\ wire'[n].type = "LMP_GRP_LOADING_MSG"
                             /\ wire'[n].as = LineName(current_group, wire'[n].uid)
    <3>1. CASE n = end
      BY <2>1, <2>2, <3>1
    <3>2. CASE n # end
      <4>1. PICK k \in 1 .. Len(history) : n = Len(wire) + k
        <5>1. n - Len(wire) \in 1 .. Len(history) /\ n = Len(wire) + (n - Len(wire))
          BY <1>2, <2>1, <2>2, <2>3, <3>2
        <5> QED
          BY <5>1
      <4> QED
        BY <2>1, <3>2, <4>1
    <3> QED
      BY <3>1, <3>2
  <2>4. ASSUME NEW n \in l .. end + 1, NEW g, InView(wire', Hand, n, g)
        PROVE  g = current_group
    <3>1. n \in Nat /\ l \in 1 .. n /\ \A k \in l .. n - 1 : k \in l .. end
      BY <2>2
    <3>2. \A k \in l .. n - 1 : wire'[k].type # "LMP_GRP_OBJ"
      BY <2>3, <3>1
    <3>3. InView(wire', Hand, l, g)
      BY <2>4, <3>1, <3>2, ViewKept
    <3>4. InView(wire, Hand, l, g)
      BY <1>2, <2>1, <2>2, <3>3, ViewBefore
    <3> QED
      BY <1>3, <2>2, <3>4
  <2>5. ASSUME NEW n \in 1 .. Len(wire'), n > Len(wire), NEW g, InView(wire', Hand, n, g)
        PROVE  Matches(wire'[n], g)
    <3>1. n \in l .. end /\ n \in l .. end + 1
      BY <1>2, <2>2, <2>5
    <3>2. g = current_group
      BY <2>4, <2>5, <3>1
    <3> QED
      BY <2>3, <3>1, <3>2 DEF Matches
  <2>6. ASSUME NEW g, InView(wire', Hand, Len(wire') + 1, g)
        PROVE  g = current_group'
    <3>1. PICK n \in l .. end + 1 : n = Len(wire') + 1
      BY <2>2
    <3> QED
      BY <2>1, <2>4, <2>6, <3>1
  <2>7. Len(wire') \in Nat /\ Len(wire') >= Len(wire)
    BY <1>2, <2>1
  <2> QED
    BY <1>4, <2>1, <2>5, <2>6, <2>7
<1>8. CASE Closes
  <2>1. connection' = "closed"
    BY <1>8 DEF Closes
  <2>2. CASE wire' = wire
    BY <1>1, <1>2, <2>1, <2>2 DEF ViewInv
  <2>3. CASE wire' = <<>>
    <3>1. \A n \in 1 .. Len(wire') : FALSE
      BY <2>3
    <3> QED
      BY <1>1, <1>2, <2>1, <3>1 DEF ViewInv
  <2> QED
    BY <1>8, <2>2, <2>3 DEF Closes
<1> QED
  BY <1>1, <1>5, <1>6, <1>7, <1>8 DEF Announces

\* The receiver holds a group, or is about to.
HasGroup == ObjInHand \/ user_group_is_initialized = 1

\* It holds one by the time it comes to frame n.
GroupBefore(n) ==
  HasGroup \/ \E m \in 1 .. n - 1 : wire[m].type = "LMP_GRP_OBJ"

\* A client that asked to be a member was sent the group before anything the
\* server wrote later, the lines of a history among it; until it has read it,
\* its copy is zeroed and names nobody.
FirstGroupInv ==
  /\ \A n \in 1 .. Len(wire) : wire[n].type = "LMP_GRP_LOADING_MSG" => GroupBefore(n)
  /\ connection # "closed" /\ ~Joining => GroupBefore(Len(wire) + 1)
  /\ LineInHand => user_group_is_initialized = 1
  /\ user_group_is_initialized # 1 =>
       /\ receiver # "storing" => user_group = ZeroGroup
       /\ receiver = "dispatch" => peer_nick = NoNick

LEMMA InitFirstGroup == Init => FirstGroupInv
<1> SUFFICES ASSUME Init PROVE FirstGroupInv
  OBVIOUS
<1>1. wire \in Seq(ServerFrame) /\ wire = <<>> /\ Len(wire) = 0 /\ receiver = "reading"
  BY InitTyped DEF Init, TypeInv, ClientTypeOK
<1>2. PICK first : first = Sending("LMP_GRP_INIT_MEMBER", NoNick) /\ outbox = <<first>>
  BY DEF Init
<1>3. Joining
  <2>1. first.type = "LMP_GRP_INIT_MEMBER"
    BY <1>2 DEF Sending
  <2>2. 1 \in 1 .. Len(outbox) /\ outbox[1] = first
    BY <1>2
  <2> QED
    BY <2>1, <2>2 DEF Joining
<1> QED
  BY <1>1, <1>3 DEF Init, FirstGroupInv, LineInHand

LEMMA UserFirstGroup ==
  ASSUME TypeInv, FirstGroupInv, UserRuns \/ UserTypes
  PROVE  FirstGroupInv'
<1>1. UserEffect
  BY UserSteps
<1>2. /\ UNCHANGED <<wire, user_group, user_group_is_initialized, receiver, frame, peer_nick>>
      /\ connection' # "closed" <=> connection # "closed"
  BY <1>1 DEF UserEffect, view, receiverVars
<1>3. Joining' <=> Joining
  <2>1. CASE UNCHANGED outbox
    BY <2>1 DEF Joining
  <2>2. ASSUME NEW f, Writes(f) PROVE Joining' <=> Joining
    BY <2>2, WrittenRequests
  <2> QED
    BY <1>1, <2>1, <2>2 DEF UserEffect
<1>4. /\ HasGroup' <=> HasGroup
      /\ LineInHand' <=> LineInHand
      /\ \A n : GroupBefore(n)' <=> GroupBefore(n)
  BY <1>2 DEF HasGroup, GroupBefore, ObjInHand, LineInHand
<1> QED
  BY <1>2, <1>3, <1>4 DEF FirstGroupInv

LEMMA ReceiverFirstGroup ==
  ASSUME TypeInv, FirstGroupInv, ReceiverRuns
  PROVE  FirstGroupInv'
<1>1. UNCHANGED <<connection, outbox>> /\ (Joining' <=> Joining)
  <2>1. UNCHANGED <<connection, outbox>>
    BY DEF ReceiverStep,
           ReceiverRuns, Receive, Disconnect, MsgRecv, GrpObjRecvMembers, GrpObjRecvCount,
           LoadingMsgRecvTest, LoadingMsgRecvShow, LoadMsgRecvTest, LoadMsgRecvEnd, Handle
  <2> QED
    BY <2>1 DEF Joining
<1>2. ASSUME UNCHANGED wire, HasGroup => HasGroup', LineInHand' => user_group_is_initialized' = 1,
             user_group_is_initialized' # 1 =>
               /\ receiver' # "storing" => user_group' = ZeroGroup
               /\ receiver' = "dispatch" => peer_nick' = NoNick
      PROVE  FirstGroupInv'
  <2>1. \A n : GroupBefore(n) => GroupBefore(n)'
    BY <1>2 DEF GroupBefore
  <2> QED
    BY <1>1, <1>2, <2>1 DEF FirstGroupInv
<1>3. ASSUME UNCHANGED <<wire, frame, user_group, user_group_is_initialized>>,
             ~ObjInHand, receiver # "storing", LineInHand' => LineInHand,
             receiver' # "dispatch"
      PROVE  FirstGroupInv'
  BY <1>2, <1>3 DEF HasGroup, FirstGroupInv
<1>4. CASE Receive
  <2>1. /\ receiver = "reading" /\ receiver' = "dispatch" /\ frame' = wire[1]
        /\ Len(wire') = Len(wire) - 1 /\ Len(wire) \in Nat \ {0}
        /\ \A k \in 1 .. Len(wire') : k + 1 \in 1 .. Len(wire) /\ wire'[k] = wire[k + 1]
        /\ \A k \in 1 .. Len(wire) : k = 1 \/ (k - 1 \in 1 .. Len(wire') /\ wire'[k - 1] = wire[k])
        /\ wire \in Seq(ServerFrame)
        /\ UNCHANGED <<user_group, user_group_is_initialized>>
        /\ peer_nick' = user_group.members[frame'.index].nickname
    BY <1>4, ReceivedFrame DEF Receive, view
  <2>2. HasGroup' <=> wire[1].type = "LMP_GRP_OBJ" \/ user_group_is_initialized = 1
    BY <2>1 DEF HasGroup, ObjInHand
  <2>3. HasGroup <=> user_group_is_initialized = 1
    BY <2>1 DEF HasGroup, ObjInHand
  <2>4. ASSUME NEW n \in 1 .. Len(wire') + 1, GroupBefore(n + 1)
        PROVE  GroupBefore(n)'
    <3>1. CASE HasGroup
      BY <2>2, <2>3, <3>1 DEF GroupBefore
    <3>2. CASE ~HasGroup
      <4>1. PICK m \in 1 .. (n + 1) - 1 : wire[m].type = "LMP_GRP_OBJ"
        BY <2>4, <3>2 DEF GroupBefore
      <4>2. m \in 1 .. Len(wire)
        BY <2>1, <4>1
      <4>3. CASE m = 1
        BY <2>2, <4>1, <4>3 DEF GroupBefore
      <4>4. CASE m # 1
        <5>1. wire'[m - 1] = wire[m] /\ m - 1 \in 1 .. n - 1
          BY <2>1, <4>1, <4>2, <4>4
        <5> QED
          BY <4>1, <5>1 DEF GroupBefore
      <4> QED
        BY <4>3, <4>4
    <3> QED
      BY <3>1, <3>2
  <2>5. \A n \in 1 .. Len(wire') : wire'[n].type = "LMP_GRP_LOADING_MSG" => GroupBefore(n)'
    <3> SUFFICES ASSUME NEW n \in 1 .. Len(wire'), wire'[n].type = "LMP_GRP_LOADING_MSG"
                 PROVE  GroupBefore(n)'
      OBVIOUS
    <3>1. GroupBefore(n + 1)
      BY <2>1 DEF FirstGroupInv
    <3> QED
      BY <2>1, <2>4, <3>1
  <2>6. connection' # "closed" /\ ~Joining' => GroupBefore(Len(wire) + 1)'
    <3> SUFFICES ASSUME connection' # "closed", ~Joining'
                 PROVE  GroupBefore(Len(wire) + 1)'
      OBVIOUS
    <3>1. PICK n \in 1 .. Len(wire') + 1 : n = Len(wire') + 1 /\ n + 1 = Len(wire) + 1
      BY <2>1
    <3>2. GroupBefore(n + 1)
      BY <1>1, <3>1 DEF FirstGroupInv
    <3>3. GroupBefore(n)'
      BY <2>4, <3>2
    <3> QED
      BY <3>1, <3>3 DEF GroupBefore
  <2>7. LineInHand' => user_group_is_initialized' = 1
    <3> SUFFICES ASSUME wire[1].type = "LMP_GRP_LOADING_MSG"
                 PROVE  user_group_is_initialized = 1
      BY <2>1 DEF LineInHand
    <3>1. GroupBefore(1)
      BY <2>1 DEF FirstGroupInv
    <3> QED
      BY <2>3, <3>1 DEF GroupBefore
  <2>8. user_group_is_initialized' # 1 => user_group' = ZeroGroup /\ peer_nick' = NoNick
    <3> SUFFICES ASSUME user_group_is_initialized # 1
                 PROVE  user_group = ZeroGroup /\ peer_nick' = NoNick
      BY <2>1
    <3>1. user_group = ZeroGroup
      BY <2>1 DEF FirstGroupInv
    <3>2. frame'.index \in 0 .. MAX_GROUP_MEMBERS - 1
      <4>1. frame' \in ServerFrame
        BY <2>1
      <4> QED
        BY <4>1 DEF ServerFrame
    <3> QED
      BY <2>1, <3>1, <3>2 DEF ZeroGroup, NoMember
  <2> QED
    BY <2>5, <2>6, <2>7, <2>8 DEF FirstGroupInv
<1>5. CASE Disconnect
  BY <1>3, <1>5 DEF Disconnect, ReceiverStep, ObjInHand, LineInHand, view
<1>6. CASE MsgRecv
  BY <1>3, <1>6 DEF MsgRecv, Handle, ReceiverStep, ObjInHand, LineInHand, view
<1>7. CASE GrpObjRecvMembers
  BY <1>2, <1>7 DEF GrpObjRecvMembers, Handle, ReceiverStep, ObjInHand, LineInHand, HasGroup
<1>8. CASE GrpObjRecvCount
  BY <1>2, <1>8 DEF GrpObjRecvCount, ReceiverStep, HasGroup
<1>9. CASE LoadingMsgRecvTest
  BY <1>3, <1>9 DEF LoadingMsgRecvTest, Handle, ReceiverStep, ObjInHand, LineInHand, view
<1>10. CASE LoadingMsgRecvShow
  BY <1>3, <1>10 DEF LoadingMsgRecvShow, ReceiverStep, ObjInHand, LineInHand, view
<1>11. CASE LoadMsgRecvTest
  BY <1>3, <1>11 DEF LoadMsgRecvTest, Handle, ReceiverStep, ObjInHand, LineInHand, view
<1>12. CASE LoadMsgRecvEnd
  BY <1>3, <1>12 DEF LoadMsgRecvEnd, ReceiverStep, ObjInHand, LineInHand, view
<1> QED
  BY <1>4, <1>5, <1>6, <1>7, <1>8, <1>9, <1>10, <1>11, <1>12 DEF ReceiverRuns

LEMMA ServerFirstGroup ==
  ASSUME TypeInv, FirstGroupInv, ServerRuns \/ OthersAct \/ ServerEnds
  PROVE  FirstGroupInv'
<1>1. /\ UNCHANGED <<user_group, user_group_is_initialized, receiver, frame, peer_nick>>
      /\ connection # "closed"
      /\ Announces \/ ServerReadsLoad \/ Closes
  BY ServerSteps
<1>2. /\ HasGroup' <=> HasGroup
      /\ LineInHand' <=> LineInHand
      /\ Len(wire) \in Nat /\ wire \in Seq(ServerFrame)
  BY <1>1 DEF HasGroup, ObjInHand, LineInHand, TypeInv, ClientTypeOK
<1>3. CASE Closes
  <2>1. connection' = "closed" /\ wire' \in {wire, <<>>}
    BY <1>3 DEF Closes
  <2>2. CASE wire' = wire
    <3>1. \A n : GroupBefore(n)' <=> GroupBefore(n)
      BY <1>2, <2>2 DEF GroupBefore
    <3> QED
      BY <1>1, <1>2, <2>1, <2>2, <3>1 DEF FirstGroupInv
  <2>3. CASE wire' = <<>>
    <3>1. \A n \in 1 .. Len(wire') : FALSE
      BY <2>3
    <3> QED
      BY <1>1, <1>2, <2>1, <3>1 DEF FirstGroupInv
  <2> QED
    BY <2>1, <2>2, <2>3
<1>4. ASSUME Len(wire') \in Nat, Len(wire') >= Len(wire),
             \A n \in 1 .. Len(wire) : wire'[n] = wire[n]
      PROVE  /\ \A n \in 1 .. Len(wire) :
                  wire'[n].type = "LMP_GRP_LOADING_MSG" => GroupBefore(n)'
             /\ GroupBefore(Len(wire) + 1) =>
                  \A n \in Len(wire) + 1 .. Len(wire') + 1 : GroupBefore(n)'
  <2>1. ASSUME NEW n \in 1 .. Len(wire) + 1, GroupBefore(n),
               NEW k \in Nat, k >= n
        PROVE  GroupBefore(k)'
    <3>1. CASE HasGroup
      BY <1>2, <3>1 DEF GroupBefore
    <3>2. CASE ~HasGroup
      <4>1. PICK m \in 1 .. n - 1 : wire[m].type = "LMP_GRP_OBJ"
        BY <2>1, <3>2 DEF GroupBefore
      <4>2. m \in 1 .. Len(wire) /\ m \in 1 .. k - 1
        BY <1>2, <2>1
      <4> QED
        BY <1>4, <4>1, <4>2 DEF GroupBefore
    <3> QED
      BY <3>1, <3>2
  <2>2. ASSUME NEW n \in 1 .. Len(wire), wire'[n].type = "LMP_GRP_LOADING_MSG"
        PROVE  GroupBefore(n)'
    <3>1. GroupBefore(n) /\ n \in 1 .. Len(wire) + 1 /\ n \in Nat /\ n >= n
      BY <1>2, <1>4, <2>2 DEF FirstGroupInv
    <3> QED
      BY <2>1, <3>1
  <2>3. ASSUME GroupBefore(Len(wire) + 1), NEW n \in Len(wire) + 1 .. Len(wire') + 1
        PROVE  GroupBefore(n)'
    <3>1. PICK l \in 1 .. Len(wire) + 1 : l = Len(wire) + 1 /\ n \in Nat /\ n >= l
      BY <1>2
    <3>2. GroupBefore(l)
      BY <2>3, <3>1
    <3> QED
      BY <2>1, <3>1, <3>2
  <2> QED
    BY <2>2, <2>3
<1>5. CASE ServerReadsLoad
  <2>1. /\ Len(wire') \in Nat /\ Len(wire') >= Len(wire)
        /\ \A n \in 1 .. Len(wire) : wire'[n] = wire[n]
    BY <1>5, AnswerWritten
  <2>2. ~Joining
    <3>1. ServerReads("LMP_GRP_LOAD_MSG")
      BY <1>5 DEF ServerReadsLoad
    <3> QED
      BY <3>1, TakenRequest
  <2>3. GroupBefore(Len(wire) + 1)
    BY <1>1, <2>2 DEF FirstGroupInv
  <2>4. \A n \in Len(wire) + 1 .. Len(wire') + 1 : GroupBefore(n)'
    BY <1>4, <2>1, <2>3
  <2>5. \A n \in 1 .. Len(wire') : n \in 1 .. Len(wire) \/ n \in Len(wire) + 1 .. Len(wire') + 1
    BY <1>2, <2>1
  <2>6. \A n \in 1 .. Len(wire') : wire'[n].type = "LMP_GRP_LOADING_MSG" => GroupBefore(n)'
    BY <1>4, <2>1, <2>4, <2>5
  <2>7. GroupBefore(Len(wire) + 1)'
    <3>1. PICK n \in Len(wire) + 1 .. Len(wire') + 1 : n = Len(wire') + 1
      BY <1>2, <2>1
    <3>2. GroupBefore(n)'
      BY <2>4
    <3> QED
      BY <3>1, <3>2 DEF GroupBefore
  <2> QED
    BY <1>1, <1>2, <2>6, <2>7 DEF FirstGroupInv
<1>6. ASSUME NEW f, Wrote(f),
             f.type = "LMP_GRP_OBJ" \/ (~Joining' => ~Joining)
      PROVE  FirstGroupInv'
  <2>1. /\ f \in ServerFrame /\ f.type \in {"LMP_GRP_OBJ", "LMP_MSG"}
        /\ ServerWrites(<<f>>)
    BY <1>6 DEF Wrote
  <2>2. /\ Len(wire') = Len(wire) + 1 /\ Len(wire') \in Nat
        /\ \A k \in 1 .. Len(wire) : wire'[k] = wire[k]
        /\ wire'[Len(wire) + 1] = f
    BY <1>1, <1>2, <2>1, OneFrameWritten
  <2>3. \A n \in 1 .. Len(wire') : n \in 1 .. Len(wire) \/ n = Len(wire) + 1
    BY <1>2, <2>2
  <2>4. \A n \in 1 .. Len(wire') : wire'[n].type = "LMP_GRP_LOADING_MSG" => GroupBefore(n)'
    BY <1>2, <1>4, <2>1, <2>2, <2>3
  <2>5. connection' # "closed" /\ ~Joining' => GroupBefore(Len(wire) + 1)'
    <3> SUFFICES ASSUME ~Joining' PROVE GroupBefore(Len(wire) + 1)'
      OBVIOUS
    <3>1. CASE f.type = "LMP_GRP_OBJ"
      <4>1. PICK m \in 1 .. (Len(wire') + 1) - 1 : m = Len(wire) + 1
        BY <1>2, <2>2
      <4> QED
        BY <2>2, <3>1, <4>1 DEF GroupBefore
    <3>2. CASE ~Joining
      <4>1. GroupBefore(Len(wire) + 1)
        BY <1>1, <3>2 DEF FirstGroupInv
      <4>2. PICK n \in Len(wire) + 1 .. Len(wire') + 1 : n = Len(wire') + 1
        BY <1>2, <2>2
      <4>3. GroupBefore(n)'
        BY <1>2, <1>4, <2>2, <4>1
      <4> QED
        BY <4>2, <4>3 DEF GroupBefore
    <3> QED
      BY <1>6, <3>1, <3>2
  <2> QED
    BY <1>1, <1>2, <2>4, <2>5 DEF FirstGroupInv
<1>7. ASSUME UNCHANGED wire, ~Joining' => ~Joining
      PROVE  FirstGroupInv'
  <2>1. \A n : GroupBefore(n)' <=> GroupBefore(n)
    BY <1>2, <1>7 DEF GroupBefore
  <2> QED
    BY <1>1, <1>2, <1>7, <2>1 DEF FirstGroupInv
<1>8. CASE ServerReadsInit
  <2>1. PICK f : Wrote(f) /\ f.type = "LMP_GRP_OBJ"
    <3>1. PICK group : ServerSetsGroup(group)
      BY <1>8 DEF ServerReadsInit
    <3>2. group \in Group
      BY <3>1, ServerTyped DEF ServerSetsGroup, TypeInv, ClientTypeOK
    <3>3. PICK f \in ServerFrame : /\ f = [Blank EXCEPT !.type = "LMP_GRP_OBJ", !.group = group]
                                   /\ f.type = "LMP_GRP_OBJ" /\ f.group = group
      BY <3>2, GroupFrameType
    <3>4. Wrote(f)
      BY <3>1, <3>3 DEF Wrote, ServerSetsGroup
    <3> QED
      BY <3>3, <3>4
  <2> QED
    BY <1>6, <2>1
<1>9. CASE Announces /\ ~ServerReadsInit /\ ~ServerReadsLoad /\ ~Closes
  <2>1. ~Joining' => ~Joining
    <3>1. CASE OthersAct
      <4>1. UNCHANGED outbox
        BY <3>1 DEF OthersAct, OtherChangesGroup, OtherSays
      <4> QED
        BY <4>1 DEF Joining
    <3>2. CASE ServerReadsNick \/ ServerReadsMsg
      BY <3>2, TakenRequest DEF ServerReadsNick, ServerReadsMsg
    <3> QED
      BY <1>9, <3>1, <3>2 DEF ServerRuns, ServerReadsEof, ServerEnds, Closes, serverVars
  <2> QED
    BY <1>6, <1>7, <1>9, <2>1 DEF Announces
<1> QED
  BY <1>1, <1>3, <1>5, <1>8, <1>9

\* Messages and lines of the history are shown under the name their author
\* had when the server wrote them, however the group changes while they are
\* on their way, and although the client knows authors only by an index into
\* its own copy of the group, which two assignments replace.  Messages read
\* before the first copy are shown under no name, lines of the history never.
THEOREM NamesAreAsWritten == Spec => []ShownAsWritten
<1>1. TypeInv /\ ViewInv /\ [Next]_vars => ViewInv'
  <2> SUFFICES ASSUME TypeInv, ViewInv, [Next]_vars PROVE ViewInv'
    OBVIOUS
  <2>1. CASE UserRuns \/ UserTypes
    BY <2>1, UserViews
  <2>2. CASE ReceiverRuns
    BY <2>2, ReceiverViews
  <2>3. CASE ServerRuns \/ OthersAct \/ ServerEnds
    BY <2>3, ServerViews
  <2>4. CASE UNCHANGED vars
    BY <2>4 DEF vars, view, receiverVars, net, serverVars, ViewInv, Hand, ObjInHand, LineInHand
  <2> QED
    BY <2>1, <2>2, <2>3, <2>4 DEF Next
<1>2. TypeInv /\ FirstGroupInv /\ [Next]_vars => FirstGroupInv'
  <2> SUFFICES ASSUME TypeInv, FirstGroupInv, [Next]_vars PROVE FirstGroupInv'
    OBVIOUS
  <2>1. CASE UserRuns \/ UserTypes
    BY <2>1, UserFirstGroup
  <2>2. CASE ReceiverRuns
    BY <2>2, ReceiverFirstGroup
  <2>3. CASE ServerRuns \/ OthersAct \/ ServerEnds
    BY <2>3, ServerFirstGroup
  <2>4. CASE UNCHANGED vars
    <3>1. /\ UNCHANGED <<wire, connection, outbox, user_group, user_group_is_initialized,
                         receiver, frame, peer_nick>>
      BY <2>4 DEF vars, view, receiverVars, net
    <3> QED
      BY <3>1 DEF FirstGroupInv, GroupBefore, HasGroup, ObjInHand, LineInHand, Joining
  <2> QED
    BY <2>1, <2>2, <2>3, <2>4 DEF Next
<1>3. TypeInv /\ ViewInv /\ FirstGroupInv => ShownAsWritten
  BY DEF TypeInv, FramesFit, ViewInv, FirstGroupInv, ShownAsWritten, LineInHand
<1> QED
  BY <1>1, <1>2, <1>3, InitView, InitFirstGroup, TypeInvariant, PTL DEF Spec

=============================================================================
