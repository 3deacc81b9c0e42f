---------------------------- MODULE GroupClient ----------------------------
(***************************************************************************)
(* A client of the group: the user thread of chat_loop_user, the receiver  *)
(* thread, and what they share without a lock, the copy of the group and   *)
(* the state of a history load (group_user_comms.c, group_commands.c).     *)
(* The server of GroupServer is the environment, as this client sees it.   *)
(*                                                                         *)
(* Conventions.                                                            *)
(*  - A step of a thread ends where the other thread may interfere: each   *)
(*    test and each assignment of loading_message_state is a step of its   *)
(*    own, a copy of a Group is two, its members and its count.            *)
(*  - The model begins when the server has accepted the connection.  The   *)
(*    group already has members by then.                                   *)
(*  - An array element beyond those that were assigned is NoMember; a      *)
(*    group is as the server keeps it, stale entries behind its count      *)
(*    included.                                                            *)
(*  - A frame carries, besides what is on the wire, "as": the nickname     *)
(*    its author had in the group when the server wrote it, which the      *)
(*    properties compare with what the user is shown.                      *)
(***************************************************************************)
EXTENDS Integers, FiniteSets, SequencesExt

CONSTANTS
  Me, Others,          \* the UIDs of this client and of the others
  Nicks,               \* nicknames
  FirstNick,           \* the nickname each one joins with
  MAX_GROUP_MEMBERS,
  Typed,               \* what the user types: commands by their names
  ServerMayEnd,        \* environment: the server process may end at any time
  MaxWire,             \* bound: frames written to the client and not read
  MaxUnread,           \* bound: frames of the client the server has not read
  MaxHistory,          \* bound: lines of the history
  MaxChanges           \* bound: changes of the group, joins, departures, nicknames

VARIABLES
  user,                       \* where the user thread is
  gi_copy,                    \* the argument of print_group_info
  loading_message_state,
  user_group,                 \* this client's copy of the group
  user_group_is_initialized,
  receiver,                   \* where the receiver thread is
  frame,                      \* its type, buf and sender_i
  peer_nick,                  \* ctx->peer_nick
  process,                    \* "running", or how it ended
  shown,                      \* history lines shown since the load was requested
  outbox,                     \* frames written to the server, not read
  wire,                       \* frames written to the client, not read
  connection,                 \* "open", "eof" once the user left, "closed" by the server
  current_group,              \* the server's group
  history,                    \* the server's lines, UIDs of their authors
  answer,                     \* the lines the server answered the last load with
  changes                     \* how often the group changed

userVars == <<user, gi_copy>>
view == <<user_group, user_group_is_initialized>>
receiverVars == <<receiver, frame, peer_nick>>
load == <<loading_message_state, shown>>
net == <<outbox, wire, connection>>
serverVars == <<current_group, history, answer, changes>>
vars == <<userVars, load, view, receiverVars, process, net, serverVars>>

-----------------------------------------------------------------------------
(* Types. *)

NoNick   == ""
NoUid    == "nobody"
NoMember == [uid |-> NoUid, nickname |-> NoNick]
Uids     == {Me} \cup Others

GroupMember == [uid : Uids, nickname : Nicks] \cup {NoMember}
Group == [members      : [0 .. MAX_GROUP_MEMBERS - 1 -> GroupMember],
          member_count : 0 .. MAX_GROUP_MEMBERS]

ZeroGroup == [members      |-> [k \in 0 .. MAX_GROUP_MEMBERS - 1 |-> NoMember],
              member_count |-> 0]

State_t == {"STATE_IDLE", "STATE_REQUESTING_LOAD", "STATE_LOADING"}

\* A frame from the server; only the fields its type uses differ from Blank.
Blank == [type |-> "", group |-> ZeroGroup, index |-> 0, uid |-> NoUid, as |-> NoNick]

ServerFrame == [type  : {"", "LMP_GRP_OBJ", "LMP_MSG", "LMP_GRP_LOADING_MSG",
                         "LMP_GRP_LOAD_MSG"},
                group : Group,
                index : 0 .. MAX_GROUP_MEMBERS - 1,
                uid   : Uids \cup {NoUid},
                as    : Nicks \cup {NoNick, "Unknown", "You"}]

\* What the client sends, with the nickname of /nick.
ClientFrame == [type : {"LMP_GRP_INIT_MEMBER", "LMP_MSG", "LMP_NICK", "LMP_GRP_LOAD_MSG"},
                nickname : Nicks \cup {NoNick}]

Sending(type, nickname) == [type |-> type, nickname |-> nickname]

ASSUME ClientAssumption ==
  /\ IsFiniteSet(Others)
  /\ Me \notin Others /\ NoUid \notin Uids
  /\ Nicks \cap {NoNick, "Unknown", "You"} = {}
  /\ FirstNick \in [Uids -> Nicks]
  /\ MAX_GROUP_MEMBERS \in Nat /\ MAX_GROUP_MEMBERS >= 2
  /\ Typed \subseteq {"msg", "nick", "gi", "load"}
  /\ ServerMayEnd \in BOOLEAN
  /\ {MaxWire, MaxUnread, MaxHistory, MaxChanges} \subseteq Nat

Member(uid) == [uid |-> uid, nickname |-> FirstNick[uid]]

\* The members announced, and where a UID is among them.
Indices(group) == 0 .. group.member_count - 1
UidsOf(group) == {group.members[k].uid : k \in Indices(group)}

\* Mutant: the count is raised and nothing stored.
AddMember_NotStored(group, member) ==
  [group EXCEPT !.member_count = @ + 1]

AddMember(group, member) ==
  [members      |-> [group.members EXCEPT ![group.member_count] = member],
   member_count |-> group.member_count + 1]

\* The group consists of some of the others, the member information of this
\* client has been written, and nothing else has happened.
Init ==
  /\ user = "prompt"
  /\ gi_copy = ZeroGroup
  /\ loading_message_state = "STATE_IDLE"
  /\ user_group = ZeroGroup
  /\ user_group_is_initialized = 0
  /\ receiver = "reading"
  /\ frame = Blank
  /\ peer_nick = NoNick
  /\ process = "running"
  /\ shown = <<>>
  /\ outbox = <<Sending("LMP_GRP_INIT_MEMBER", NoNick)>>
  /\ wire = <<>>
  /\ connection = "open"
  /\ current_group \in {ZeroGroup} \cup {AddMember(ZeroGroup, Member(uid)) : uid \in Others}
  /\ history = <<>>
  /\ answer = <<>>
  /\ changes = 0

-----------------------------------------------------------------------------
(* The user thread. *)

\* The thread goes from one place to the next.
UserStep(place, next) ==
  /\ process = "running"
  /\ user = place
  /\ user' = next
  /\ UNCHANGED <<view, receiverVars, serverVars>>

\* lmp_send: on a connection the server closed, the frame is lost, the call
\* fails, or SIGPIPE ends the process.
Send(type, nickname) ==
  /\ \/ /\ connection = "open"
        /\ outbox' = Append(outbox, Sending(type, nickname))
        /\ UNCHANGED process
     \/ /\ connection = "closed"
        /\ process' \in {"running", "killed"}
        /\ UNCHANGED outbox
  /\ UNCHANGED <<wire, connection>>

\* A line is typed; the bound is on what is written ahead of the server.
Types(command) == command \in Typed /\ Len(outbox) < MaxUnread

\* The frames of a type in a sequence of frames.
Count(seq, type) == Cardinality({n \in DOMAIN seq : seq[n].type = type})

\* The lines of the history and the changes of the group there have been, and
\* those there will be once the server has read the outbox.
LinesToCome == Len(history) + Count(outbox, "LMP_MSG")
ChangesToCome == changes + Count(outbox, "LMP_NICK")

\* A line without command, or /msg.
MsgSend ==
  /\ UserStep("prompt", "prompt")
  /\ Types("msg") /\ LinesToCome < MaxHistory
  /\ Send("LMP_MSG", NoNick)
  /\ UNCHANGED <<gi_copy, load>>

NickSend ==
  /\ UserStep("prompt", "prompt")
  /\ Types("nick") /\ ChangesToCome < MaxChanges
  /\ \E nickname \in Nicks : Send("LMP_NICK", nickname)
  /\ UNCHANGED <<gi_copy, load>>

\* /gi: the group is copied into the argument of print_group_info,
GroupInfoCopyMembers ==
  /\ UserStep("prompt", "gi")
  /\ Types("gi")
  /\ gi_copy' = [ZeroGroup EXCEPT !.members = user_group.members]
  /\ UNCHANGED <<load, process, net>>

GroupInfoCopyCount ==
  /\ UserStep("gi", "gi_print")
  /\ gi_copy' = [gi_copy EXCEPT !.member_count = user_group.member_count]
  /\ UNCHANGED <<load, process, net>>

\* and printed.
GroupInfoPrint ==
  /\ UserStep("gi_print", "prompt")
  /\ gi_copy' = ZeroGroup
  /\ UNCHANGED <<load, process, net>>

\* /load: the two tests,
LoadTestRequesting ==
  /\ UserStep("prompt", "load_test")
  /\ Types("load")
  /\ loading_message_state # "STATE_REQUESTING_LOAD"
  /\ UNCHANGED <<gi_copy, load, process, net>>

\* Mutant: the second test is missing.
LoadTestLoading_Dropped ==
  /\ UserStep("load_test", "load_set")
  /\ UNCHANGED <<gi_copy, load, process, net>>

LoadTestLoading ==
  /\ UserStep("load_test",
              IF loading_message_state = "STATE_LOADING" THEN "prompt" ELSE "load_set")
  /\ UNCHANGED <<gi_copy, load, process, net>>

SetRequesting(place, next) ==
  /\ UserStep(place, next)
  /\ loading_message_state' = "STATE_REQUESTING_LOAD"
  /\ shown' = <<>>
  /\ UNCHANGED <<gi_copy, process, net>>

SendRequest(place, next) ==
  /\ UserStep(place, next)
  /\ Send("LMP_GRP_LOAD_MSG", NoNick)
  /\ UNCHANGED <<gi_copy, load>>

\* Mutant: the request is sent before the state is set.
RequestLoad_SendFirst ==
  SendRequest("load_set", "load_send") \/ SetRequesting("load_send", "prompt")

\* the state, and the request.
RequestLoad ==
  SetRequesting("load_set", "load_send") \/ SendRequest("load_send", "prompt")

\* Mutant: the end of input is not passed on to the server.
Leave_NoShutdown ==
  /\ UserStep("prompt", "joining")
  /\ UNCHANGED <<gi_copy, load, process, net>>

\* End of input: shutdown(SHUT_WR), then the receiver is joined.
Leave ==
  /\ UserStep("prompt", "joining")
  /\ connection' = IF connection = "open" THEN "eof" ELSE connection
  /\ UNCHANGED <<gi_copy, load, process, outbox, wire>>

Join ==
  /\ UserStep("joining", "done")
  /\ receiver = "done"
  /\ UNCHANGED <<gi_copy, load, process, net>>

\* What the thread does next once a command was typed.
UserRuns == GroupInfoCopyCount \/ GroupInfoPrint \/ LoadTestLoading \/ RequestLoad \/ Join

\* What a user may type or not.
UserTypes == MsgSend \/ NickSend \/ GroupInfoCopyMembers \/ LoadTestRequesting \/ Leave

-----------------------------------------------------------------------------
(* The receiver thread. *)

ReceiverStep(place, next) ==
  /\ process = "running"
  /\ receiver = place
  /\ receiver' = next
  /\ UNCHANGED <<userVars, outbox, connection, serverVars>>

\* Mutant: the nickname is looked up before the frame is read.
Receive_StaleSender ==
  /\ ReceiverStep("reading", "dispatch")
  /\ wire # <<>>
  /\ frame' = Head(wire)
  /\ wire' = Tail(wire)
  /\ peer_nick' = user_group.members[frame.index].nickname
  /\ UNCHANGED <<load, view, process>>

\* group_lmp_recv, and the sender's nickname from this client's copy.
Receive ==
  /\ ReceiverStep("reading", "dispatch")
  /\ wire # <<>>
  /\ frame' = Head(wire)
  /\ wire' = Tail(wire)
  /\ peer_nick' = user_group.members[frame'.index].nickname
  /\ UNCHANGED <<load, view, process>>

\* The connection ended.  The sender's nickname is looked up all the same; if
\* there was no frame at all, at an index that was never set.
Disconnect ==
  /\ ReceiverStep("reading", "done")
  /\ wire = <<>> /\ connection = "closed"
  /\ process' \in {"running"} \cup (IF frame.type = "" THEN {"undefined"} ELSE {})
  /\ UNCHANGED <<load, view, frame, peer_nick, wire>>

\* dispatch_recv runs the handler of the type.
Handle(type, next) ==
  /\ ReceiverStep("dispatch", next)
  /\ frame.type = type
  /\ UNCHANGED <<load, frame, peer_nick, process, wire>>

\* msg_recv: the message is printed under peer_nick.
MsgRecv == Handle("LMP_MSG", "reading") /\ UNCHANGED view

\* grp_obj_recv: the members,
GrpObjRecvMembers ==
  /\ Handle("LMP_GRP_OBJ", "storing")
  /\ user_group' = [user_group EXCEPT !.members = frame.group.members]
  /\ UNCHANGED user_group_is_initialized

\* their number, and the flag.
GrpObjRecvCount ==
  /\ ReceiverStep("storing", "reading")
  /\ user_group' = [user_group EXCEPT !.member_count = frame.group.member_count]
  /\ user_group_is_initialized' = 1
  /\ UNCHANGED <<load, frame, peer_nick, process, wire>>

\* user_grp_loading_msg_recv: the test; an unexpected line is ignored.
LoadingMsgRecvTest ==
  /\ Handle("LMP_GRP_LOADING_MSG",
            IF loading_message_state = "STATE_IDLE" THEN "reading" ELSE "showing")
  /\ UNCHANGED view

\* The name a line of the history is shown under.
LineName(group, uid) ==
  LET found == {k \in Indices(group) : group.members[k].uid = uid}
  IN  CASE uid = Me -> "You"
        [] uid # Me /\ found = {} -> "Unknown"
        [] uid # Me /\ found # {} -> group.members[Min(found)].nickname

\* The new state, and the line is shown.
LoadingMsgRecvShow ==
  /\ ReceiverStep("showing", "reading")
  /\ loading_message_state' = "STATE_LOADING"
  /\ shown' = Append(shown, frame.uid)
  /\ UNCHANGED <<view, frame, peer_nick, process, wire>>

\* Mutant: the end of the load counts only if lines came before it.
LoadMsgRecvTest_LoadingOnly ==
  /\ Handle("LMP_GRP_LOAD_MSG",
            IF loading_message_state = "STATE_LOADING" THEN "ending" ELSE "reading")
  /\ UNCHANGED view

\* user_grp_load_msg_recv: the test,
LoadMsgRecvTest ==
  /\ Handle("LMP_GRP_LOAD_MSG",
            IF loading_message_state \in {"STATE_REQUESTING_LOAD", "STATE_LOADING"}
            THEN "ending"
            ELSE "reading")
  /\ UNCHANGED view

\* and the state.
LoadMsgRecvEnd ==
  /\ ReceiverStep("ending", "reading")
  /\ loading_message_state' = "STATE_IDLE"
  /\ UNCHANGED <<shown, view, frame, peer_nick, process, wire>>

ReceiverRuns ==
  \/ Receive \/ Disconnect \/ MsgRecv
  \/ GrpObjRecvMembers \/ GrpObjRecvCount
  \/ LoadingMsgRecvTest \/ LoadingMsgRecvShow
  \/ LoadMsgRecvTest \/ LoadMsgRecvEnd

-----------------------------------------------------------------------------
(* The server, as GroupServer has it, with one join or departure at a time  *)
(* and a history file that can always be opened.                            *)

\* Nothing of the client moves.
ClientWaits ==
  /\ connection # "closed"
  /\ UNCHANGED <<userVars, load, view, receiverVars, process>>

\* A handler writes frames to the client.
ServerWrites(frames) ==
  /\ Len(wire) + Len(frames) <= MaxWire
  /\ wire' = wire \o frames

\* send_new_group_to_users, after each change of the group.
ServerSetsGroup(group) ==
  /\ current_group' = group
  /\ ServerWrites(<<[Blank EXCEPT !.type = "LMP_GRP_OBJ", !.group = group]>>)
  /\ UNCHANGED <<connection, history, answer>>

\* The last member takes the place of the one who left.
DropMember(group, k) ==
  [group EXCEPT !.members[k] = group.members[group.member_count - 1],
                !.member_count = @ - 1]

OthersAt == {k \in Indices(current_group) : current_group.members[k].uid # Me}

\* Someone joins, though not a group without room left for this client;
\* leaves; or takes another nickname.
OtherGroups ==
  {AddMember(current_group, Member(uid)) :
     uid \in {o \in Others \ UidsOf(current_group) :
                Cardinality(UidsOf(current_group) \cup {Me, o}) <= MAX_GROUP_MEMBERS}}
  \cup {DropMember(current_group, k) : k \in OthersAt}
  \cup {[current_group EXCEPT !.members[k].nickname = nickname] :
          k \in OthersAt, nickname \in Nicks}

OtherChangesGroup ==
  /\ ClientWaits
  /\ ChangesToCome < MaxChanges
  /\ changes' = changes + 1
  /\ \E group \in OtherGroups : ServerSetsGroup(group)
  /\ UNCHANGED outbox

\* A message of another member is saved and relayed with its index.
OtherSays ==
  /\ ClientWaits
  /\ LinesToCome < MaxHistory
  /\ \E k \in OthersAt :
       /\ history' = Append(history, current_group.members[k].uid)
       /\ ServerWrites(<<[Blank EXCEPT !.type = "LMP_MSG", !.index = k,
                                       !.as = current_group.members[k].nickname]>>)
  /\ UNCHANGED <<outbox, connection, current_group, answer, changes>>

\* The server reads the next frame of the client.
ServerReads(type) ==
  /\ ClientWaits
  /\ outbox # <<>> /\ Head(outbox).type = type
  /\ outbox' = Tail(outbox)
  /\ changes' = IF type = "LMP_NICK" THEN changes + 1 ELSE changes
  /\ UNCHANGED connection

MyIndex == CHOOSE k \in Indices(current_group) : current_group.members[k].uid = Me

ServerReadsInit ==
  /\ ServerReads("LMP_GRP_INIT_MEMBER")
  /\ ServerSetsGroup(AddMember(current_group, Member(Me)))

ServerReadsNick ==
  /\ ServerReads("LMP_NICK")
  /\ ServerSetsGroup([current_group EXCEPT !.members[MyIndex].nickname = Head(outbox).nickname])

ServerReadsMsg ==
  /\ ServerReads("LMP_MSG")
  /\ history' = Append(history, Me)
  /\ UNCHANGED <<wire, current_group, answer>>

\* The lines of the history, and the frame that ends the load.
ServerReadsLoad ==
  /\ ServerReads("LMP_GRP_LOAD_MSG")
  /\ answer' = history
  /\ ServerWrites([n \in 1 .. Len(history) |->
                     [Blank EXCEPT !.type = "LMP_GRP_LOADING_MSG", !.uid = history[n],
                                   !.as = LineName(current_group, history[n])]]
                  \o <<[Blank EXCEPT !.type = "LMP_GRP_LOAD_MSG"]>>)
  /\ UNCHANGED <<current_group, history>>

\* The end of the client's input, once everything before it was read.
ServerReadsEof ==
  /\ ClientWaits
  /\ connection = "eof" /\ outbox = <<>>
  /\ connection' = "closed"
  /\ current_group' = DropMember(current_group, MyIndex)
  /\ UNCHANGED <<outbox, wire, history, answer, changes>>

\* The server process ends; a reset may discard what it wrote and the client has
\* not read yet.
ServerEnds ==
  /\ ServerMayEnd
  /\ ClientWaits
  /\ connection' = "closed"
  /\ outbox' = <<>>
  /\ wire' \in {wire, <<>>}
  /\ UNCHANGED serverVars

ServerRuns ==
  ServerReadsInit \/ ServerReadsNick \/ ServerReadsMsg \/ ServerReadsLoad \/ ServerReadsEof

OthersAct == OtherChangesGroup \/ OtherSays

Next == UserRuns \/ UserTypes \/ ReceiverRuns \/ ServerRuns \/ OthersAct \/ ServerEnds

Spec == Init /\ [][Next]_vars

\* Both threads run, and so does the server.  Nothing is assumed of what the
\* users type.
FairSpec ==
  Spec /\ WF_vars(UserRuns) /\ WF_vars(ReceiverRuns) /\ WF_vars(ServerRuns)

-----------------------------------------------------------------------------
(* Properties. *)

\* Every variable has its type, and the entries the server announces are
\* members: none was left blank by a join or a departure.
ClientTypeOK ==
  /\ user \in {"prompt", "gi", "gi_print", "load_test", "load_set", "load_send",
               "joining", "done"}
  /\ gi_copy \in Group
  /\ loading_message_state \in State_t
  /\ user_group \in Group
  /\ user_group_is_initialized \in {0, 1}
  /\ receiver \in {"reading", "dispatch", "storing", "showing", "ending", "done"}
  /\ frame \in ServerFrame
  /\ peer_nick \in Nicks \cup {NoNick}
  /\ process \in {"running", "killed", "undefined"}
  /\ shown \in Seq(Uids)
  /\ outbox \in Seq(ClientFrame)
  /\ wire \in Seq(ServerFrame)
  /\ connection \in {"open", "eof", "closed"}
  /\ current_group \in Group
  /\ \A k \in Indices(current_group) : current_group.members[k] # NoMember
  /\ history \in Seq(Uids)
  /\ answer \in Seq(Uids)
  /\ changes \in 0 .. MaxChanges

\* The receiver is in the handler of the frame that ends a load.
EndingLoad ==
  receiver = "ending" \/ (receiver = "dispatch" /\ frame.type = "LMP_GRP_LOAD_MSG")

\* Loads that were announced by the state and have not ended: a request about
\* to be sent, one on its way, the end of an answer on its way or being handled.
LoadsUnderWay ==
  Count(outbox, "LMP_GRP_LOAD_MSG") + Count(wire, "LMP_GRP_LOAD_MSG")
    + (IF user = "load_send" THEN 1 ELSE 0) + (IF EndingLoad THEN 1 ELSE 0)

\* The state that two threads share without a lock says whether a load is
\* under way, and there is never a second one: the client cannot be left
\* waiting for an end that does not come, nor take the end of one load for
\* that of another.
LoadMatchesState ==
  connection # "closed" =>
    LoadsUnderWay = IF loading_message_state = "STATE_IDLE" THEN 0 ELSE 1

\* "Received unexpected loading message, ignoring" (group_commands.c:97) is
\* never said of a line of the history the user asked for.
NoLineIgnored ==
  receiver = "dispatch" /\ frame.type = "LMP_GRP_LOADING_MSG"
    => loading_message_state # "STATE_IDLE"

\* When a load ends, the user has been shown the whole history as it was when
\* the server answered, in order, each line once.
LoadShowsAll ==
  [][loading_message_state # "STATE_IDLE" /\ loading_message_state' = "STATE_IDLE"
       => shown' = answer]_vars

\* Every message, by the index it carries, and every line of the history, by
\* its UID, is shown under the name its author had when the server wrote it,
\* whatever the group has become by then; "Unknown" is said only of authors who
\* had left.  There is one exception: the server relays to a client before it
\* has announced the group to it, and the receiver looks the sender up in the
\* zeroed group without testing the flag (group_user_comms.c:188), so that
\* what arrives before the first group object is shown under no name.  A line
\* of the history never does.
ShownAsWritten ==
  /\ receiver = "dispatch" /\ frame.type = "LMP_MSG" =>
       peer_nick = IF user_group_is_initialized = 1 THEN frame.as ELSE NoNick
  /\ receiver = "showing" => LineName(user_group, frame.uid) = frame.as

\* A load ends, unless the server or the client does.
LoadEnds ==
  loading_message_state # "STATE_IDLE"
    ~> (loading_message_state = "STATE_IDLE" \/ connection = "closed" \/ process # "running")

\* Whoever ends his input gets his shell back: the receiver that is joined
\* ends too.
LeavingEnds == user = "joining" ~> (user = "done" \/ process # "running")
=============================================================================
