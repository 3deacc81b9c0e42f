---------------------------- MODULE GroupServer ----------------------------
(***************************************************************************)
(* The TCP side of the group server: the poll loop of                      *)
(* group_server_TCP_listen, its connection table pfds, the group object    *)
(* current_group, the players of the Hangman game and the history file     *)
(* (group_server_comms.c, group_server.c, grp_obj_send of                  *)
(* group_commands.c), with the clients as its environment.                 *)
(*                                                                         *)
(* Conventions.                                                            *)
(*  - pfds is the array without entry 0, the listener: pfds[i] is the      *)
(*    code's pfds[i] and fd_count is Len(pfds) + 1.  members keeps the     *)
(*    code's indices, so that entry i of pfds goes with members[i - 1].    *)
(*  - A descriptor is the connection it stands for, a member of Conns.     *)
(*  - One handler is one step: the server is one thread, its handlers read *)
(*    one frame and everything else they touch is its own.  The clients    *)
(*    act between the handlers of one scan of pfds.                        *)
(*  - pfd_i is the loop variable of process_connections, moved at once to  *)
(*    the next entry whose revents are set; past the table, the scan is    *)
(*    over and the thread is in poll().                                    *)
(*  - What a client's receiver knows of the group when it handles a frame  *)
(*    is the last group object written to its socket before that frame:    *)
(*    told.  What the last handler wrote besides is "sent".                *)
(***************************************************************************)
EXTENDS Hangman, FiniteSets

CONSTANTS
  Conns,                  \* the connections that are ever made
  Uids, Nicks,            \* UIDs and nicknames, "" among them
  MemberOf,               \* the GroupMember each one's client introduces itself with
  Commands,               \* the frames users type
  MAX_GROUP_MEMBERS,
  MAX_GROUP_CONNECTIONS,  \* the initial capacity of pfds
  OrderlyMembership,      \* environment: one join or departure at a time
  ClientsMayDie,          \* environment: clients may be killed, not only leave
  HistoryFileMayFail,     \* environment: fopen() of the history file may fail
  MaxUnread,              \* bound: frames of a client the server has not read
  MaxPlayers              \* bound: entries of the list of players

VARIABLES
  peer,                \* the client end of each connection
  backlog,             \* connections the kernel completed, in order, not accepted yet
  inbox,               \* frames written by each client, not read by the server
  pfds,                \* the connection table: [fd, revents] of each client entry
  fd_size,             \* its capacity
  pfd_i,               \* the entry the scan has reached; 0 is the listener
  current_group,       \* the group object: [info, members, member_count]
  hangman_users_list,  \* UIDs of the players, latest first
  history,             \* the lines of the history file, as [uid, text]
  told,                \* the last group object written to each connection
  registered,          \* connections whose member information was handled
  sent,                \* the frames the last handler wrote, group objects aside
  server               \* "up", or how the server process ended

environment == <<peer, backlog, inbox>>
table == <<pfds, fd_size>>
game == <<hangman_fsm, hangman_users_list>>
vars == <<environment, table, pfd_i, current_group, game, history, told,
          registered, sent, server>>

-----------------------------------------------------------------------------
(* Types. *)

NoMember  == [uid |-> "", nickname |-> ""]
\* GroupInfo and GroupMember have the same size and layout (group.h).
ThisGroup == [uid |-> "group", nickname |-> "group"]
InitFrame == [type |-> "LMP_GRP_INIT_MEMBER", text |-> ""]

FrameTypes == {"LMP_NICK", "LMP_GRP_LOAD_MSG", "LMP_GRP_HANGMAN", "LMP_MSG",
               "LMP_STICKERS", "LMP_GRP_OBJ"}

Texts == {f.text : f \in Commands}
GroupMember == [uid : Uids, nickname : Nicks]

Group == [info         : GroupMember \cup {ThisGroup},
          members      : [0 .. MAX_GROUP_MEMBERS - 1 -> GroupMember],
          member_count : Int]

\* A Group of zeroes: current_group in a client, which never fills it.
ZeroGroup == [info         |-> NoMember,
              members      |-> [k \in 0 .. MAX_GROUP_MEMBERS - 1 |-> NoMember],
              member_count |-> 0]

Line == [uid : Uids, text : Texts]

ASSUME GroupAssumption ==
  /\ IsFiniteSet(Conns)
  /\ "" \in Uids /\ "" \in Nicks
  /\ MemberOf \in [Conns -> [uid : Uids \ {""}, nickname : Nicks]]
  /\ \A f \in Commands : f.type \in FrameTypes
  /\ \A f \in Commands : f.type = "LMP_NICK" => f.text \in Nicks
  /\ MAX_GROUP_MEMBERS \in Nat \ {0}
  /\ MAX_GROUP_CONNECTIONS \in Nat \ {0}
  /\ MaxUnread \in Nat \ {0}
  /\ MaxPlayers \in Nat
  /\ OrderlyMembership \in BOOLEAN
  /\ ClientsMayDie \in BOOLEAN
  /\ HistoryFileMayFail \in BOOLEAN

Init ==
  /\ peer = [c \in Conns |-> "idle"]
  /\ backlog = <<>>
  /\ inbox = [c \in Conns |-> <<>>]
  /\ pfds = <<>>
  /\ fd_size = MAX_GROUP_CONNECTIONS
  /\ pfd_i = 1
  /\ current_group = [ZeroGroup EXCEPT !.info = ThisGroup]
  /\ HangmanInit
  /\ hangman_users_list = <<>>
  /\ history = {}
  /\ told = [c \in Conns |-> ZeroGroup]
  /\ registered = {}
  /\ sent = {}
  /\ server = "up"

-----------------------------------------------------------------------------
(* The clients. *)

Fds(entries) == {entries[i].fd : i \in DOMAIN entries}

\* A join or a departure the server has not finished with.
MembershipInFlight ==
  \E c \in Conns :
    \/ peer[c] \in {"connected", "joined"} /\ c \notin registered
    \/ peer[c] \in {"eof", "reset"} /\ c \in ToSet(backlog) \cup Fds(pfds)

\* create_group_user_TCP: the connection is complete before it is accepted.
Connect(c) ==
  /\ server = "up"
  /\ peer[c] = "idle"
  /\ OrderlyMembership => ~MembershipInFlight
  /\ peer' = [peer EXCEPT ![c] = "connected"]
  /\ backlog' = Append(backlog, c)
  /\ UNCHANGED <<inbox, table, pfd_i, current_group, game, history, told,
                 registered, sent, server>>

\* chat_loop_user sends the member information before anything else.
Introduce(c) ==
  /\ server = "up"
  /\ peer[c] = "connected"
  /\ peer' = [peer EXCEPT ![c] = "joined"]
  /\ inbox' = [inbox EXCEPT ![c] = Append(@, InitFrame)]
  /\ UNCHANGED <<backlog, table, pfd_i, current_group, game, history, told,
                 registered, sent, server>>

\* The frames that can make their sender a player.
IsEntry(frame) == frame.type = "LMP_GRP_HANGMAN" /\ frame.text \in {"start", "join"}

\* The players there are and those there may be once all inboxes are read.
PlayersToCome ==
  Len(hangman_users_list)
    + Cardinality({p \in Conns \X (1 .. MaxUnread) :
                     p[2] \in DOMAIN inbox[p[1]] /\ IsEntry(inbox[p[1]][p[2]])})

\* One line of a user.
Type(c) ==
  /\ server = "up"
  /\ peer[c] = "joined"
  /\ Len(inbox[c]) < MaxUnread
  /\ \E frame \in Commands :
       /\ IsEntry(frame) => PlayersToCome < MaxPlayers
       /\ inbox' = [inbox EXCEPT ![c] = Append(@, frame)]
  /\ UNCHANGED <<peer, backlog, table, pfd_i, current_group, game, history, told,
                 registered, sent, server>>

\* The end of a user's input: shutdown(SHUT_WR), then the client waits for
\* the server to close.
Leave(c) ==
  /\ server = "up"
  /\ peer[c] = "joined"
  /\ OrderlyMembership => ~MembershipInFlight
  /\ peer' = [peer EXCEPT ![c] = "eof"]
  /\ UNCHANGED <<backlog, inbox, table, pfd_i, current_group, game, history, told,
                 registered, sent, server>>

\* A client is killed: what it wrote may be lost, and writing to it may fail.
Die(c) ==
  /\ server = "up"
  /\ ClientsMayDie
  /\ peer[c] \in {"connected", "joined", "eof"}
  /\ OrderlyMembership => ~MembershipInFlight
  /\ peer' = [peer EXCEPT ![c] = "reset"]
  /\ inbox' \in {inbox, [inbox EXCEPT ![c] = <<>>]}
  /\ UNCHANGED <<backlog, table, pfd_i, current_group, game, history, told,
                 registered, sent, server>>

Client == \E c \in Conns : Connect(c) \/ Introduce(c) \/ Type(c) \/ Leave(c) \/ Die(c)

-----------------------------------------------------------------------------
(* The poll loop. *)

\* recv() on the connection would not block.
Readable(c) == inbox[c] # <<>> \/ peer[c] \in {"eof", "reset"}

\* Mutant: the scan runs one entry past the table.
NextReady_OnePast(entries, i) ==
  LET ready == {k \in DOMAIN entries : k > i /\ entries[k].revents}
  IN  Min(ready \cup {Len(entries) + 2})

\* Mutant: the scan advances by two.
NextReady_SkipsOne(entries, i) ==
  LET ready == {k \in DOMAIN entries : k > i + 1 /\ entries[k].revents}
  IN  Min(ready \cup {Len(entries) + 1})

\* The first entry after i whose revents are set, or the end of the table.
NextReady(entries, i) ==
  LET ready == {k \in DOMAIN entries : k > i /\ entries[k].revents}
  IN  Min(ready \cup {Len(entries) + 1})

\* Mutant: poll() is told of one entry too few.
Poll_ShortCount ==
  LET polled == [i \in DOMAIN pfds |->
                   [pfds[i] EXCEPT !.revents = i < Len(pfds) /\ Readable(pfds[i].fd)]]
  IN  /\ server = "up"
      /\ pfd_i = Len(pfds) + 1
      /\ backlog # <<>> \/ \E i \in DOMAIN polled : polled[i].revents
      /\ pfds' = polled
      /\ pfd_i' = IF backlog # <<>> THEN 0 ELSE NextReady(polled, 0)
      /\ sent' = {}
      /\ UNCHANGED <<environment, fd_size, current_group, game, history, told,
                     registered, server>>

\* poll() returns when some descriptor is ready and says which ones are.
Poll ==
  LET polled == [i \in DOMAIN pfds |->
                   [pfds[i] EXCEPT !.revents = Readable(pfds[i].fd)]]
  IN  /\ server = "up"
      /\ pfd_i = Len(pfds) + 1
      /\ backlog # <<>> \/ \E i \in DOMAIN polled : polled[i].revents
      /\ pfds' = polled
      /\ pfd_i' = IF backlog # <<>> THEN 0 ELSE NextReady(polled, 0)
      /\ sent' = {}
      /\ UNCHANGED <<environment, fd_size, current_group, game, history, told,
                     registered, server>>

\* Mutant: the new entry's revents are whatever was in the array.
AddToPfds_Unset(entries, c) == Append(entries, [fd |-> c, revents |-> TRUE])

AddToPfds(entries, c) == Append(entries, [fd |-> c, revents |-> FALSE])

\* handle_new_connection: pfds is doubled when it is full.
HandleNewConnection ==
  /\ server = "up"
  /\ pfd_i = 0
  /\ LET entries == AddToPfds(pfds, Head(backlog))
     IN  /\ pfds' = entries
         /\ pfd_i' = NextReady(entries, 0)
  /\ fd_size' = IF Len(pfds) + 1 = fd_size THEN 2 * fd_size ELSE fd_size
  /\ backlog' = Tail(backlog)
  /\ sent' = {}
  /\ UNCHANGED <<peer, inbox, current_group, game, history, told, registered, server>>

-----------------------------------------------------------------------------
(* What the handlers of client data share. *)

\* The scan has reached the entry i of connection c.
Serving(i, c) ==
  /\ server = "up"
  /\ pfd_i = i
  /\ c = pfds[i].fd

\* The next frame of c is of the given type; reading it moves the scan on.
Receive(i, c, type) ==
  /\ Serving(i, c)
  /\ inbox[c] # <<>>
  /\ Head(inbox[c]).type = type
  /\ inbox' = [inbox EXCEPT ![c] = Tail(@)]
  /\ pfd_i' = NextReady(pfds, i)

\* current_group.members[sender_connection_index]; members[i - 1] exists.
InMembers(i) == i <= MAX_GROUP_MEMBERS
Sender(i) == current_group.members[i - 1]

\* Writing to a client that was killed may end the server: SIGPIPE is not
\* ignored.
Transmit(recipients) ==
  server' \in {"up"} \cup (IF \E c \in recipients : peer[c] = "reset"
                           THEN {"killed"}
                           ELSE {})

\* Mutant: the departing entry's successor is not told.
SendNewGroupToUsers_ButLast(entries, group) ==
  told' = [c \in Conns |-> IF \E i \in 1 .. Len(entries) - 1 : entries[i].fd = c
                           THEN group
                           ELSE IF c \in Fds(entries) THEN told[c] ELSE ZeroGroup]

\* send_new_group_to_users: the group object goes to every connection.  For a
\* connection without an entry nothing is remembered.
SendNewGroupToUsers(entries, group) ==
  told' = [c \in Conns |-> IF c \in Fds(entries) THEN group ELSE ZeroGroup]

\* Frames written with lmp_send by the server itself, in answer to c.
Answer(recipients, c, type, text) ==
  {[to |-> d, type |-> type, from |-> c, index |-> 0, uid |-> "", text |-> text]
     : d \in recipients}

\* group_lmp_send: the frame of c, stamped with its index.
Relayed(recipients, c, index, frame) ==
  {[to |-> d, type |-> frame.type, from |-> c, index |-> index, uid |-> "",
    text |-> frame.text] : d \in recipients}

OthersThan(c) == Fds(pfds) \ {c}

\* A client that handles a relayed LMP_GRP_OBJ takes the payload for its group.
ToldByRelay(recipients, frame) ==
  told' = IF frame.type = "LMP_GRP_OBJ"
          THEN [d \in Conns |-> IF d \in recipients THEN ZeroGroup ELSE told[d]]
          ELSE told

\* Mutant: the index sent along is that of the table, not of members.
Relay_TableIndex(i, c, frame) ==
  /\ sent' = Relayed(OthersThan(c), c, i, frame)
  /\ ToldByRelay(OthersThan(c), frame)
  /\ Transmit(OthersThan(c))

Relay(i, c, frame) ==
  /\ sent' = Relayed(OthersThan(c), c, i - 1, frame)
  /\ ToldByRelay(OthersThan(c), frame)
  /\ Transmit(OthersThan(c))

-----------------------------------------------------------------------------
(* handle_client_data: the connection ended. *)

\* Mutant: the table shrinks but the last entry is not moved into the gap.
DelFromPfds_NoMove(entries, i) == SubSeq(entries, 1, Len(entries) - 1)

\* The last entry takes the place of entry i, revents included.
DelFromPfds(entries, i) ==
  [k \in 1 .. Len(entries) - 1 |-> IF k = i THEN entries[Len(entries)] ELSE entries[k]]

\* Mutant: the last member's data are not moved with the last entry.
DropMember_NoMove(group, i) == [group EXCEPT !.member_count = @ - 1]

\* Mutant: the count of members is left alone.
DropMember_SameCount(group, i) ==
  [group EXCEPT !.members[i - 1] = group.members[Len(pfds) - 1]]

\* The member data that go with the last entry, members[fd_count - 2], take
\* the place of those that go with entry i.
DropMember(group, i) ==
  [group EXCEPT !.members[i - 1] = group.members[Len(pfds) - 1],
                !.member_count = @ - 1]

HandleHangup(i, c) ==
  /\ Serving(i, c)
  /\ inbox[c] = <<>>
  /\ peer[c] \in {"eof", "reset"}
  /\ InMembers(Len(pfds))
  /\ LET entries == DelFromPfds(pfds, i)
         group == DropMember(current_group, i)
     IN  /\ pfds' = entries
         /\ current_group' = group
         /\ SendNewGroupToUsers(entries, group)
         /\ Transmit(Fds(entries))
         /\ pfd_i' = NextReady(entries, i - 1)  \* the slot is looked at again
  /\ registered' = registered \ {c}
  /\ sent' = {}
  /\ UNCHANGED <<environment, fd_size, game, history>>

-----------------------------------------------------------------------------
(* handle_client_data: membership frames. *)

HandleNick(i, c) ==
  /\ Receive(i, c, "LMP_NICK")
  /\ InMembers(i)
  /\ LET group == [current_group EXCEPT !.members[i - 1].nickname = Head(inbox[c]).text]
     IN  /\ current_group' = group
         /\ SendNewGroupToUsers(pfds, group)
  /\ Transmit(Fds(pfds))
  /\ sent' = {}
  /\ UNCHANGED <<peer, backlog, table, game, history, registered>>

\* The member goes to members[member_count]; members[-1] is info.
StoreMember(group, member) ==
  IF group.member_count = -1
  THEN [group EXCEPT !.info = member, !.member_count = @ + 1]
  ELSE [group EXCEPT !.members[group.member_count] = member, !.member_count = @ + 1]

HandleInitMember(i, c) ==
  /\ Receive(i, c, "LMP_GRP_INIT_MEMBER")
  /\ current_group.member_count \in -1 .. MAX_GROUP_MEMBERS - 1
  /\ LET group == StoreMember(current_group, MemberOf[c])
     IN  /\ current_group' = group
         /\ SendNewGroupToUsers(pfds, group)
  /\ Transmit(Fds(pfds))
  /\ registered' = registered \cup {c}
  /\ sent' = {}
  /\ UNCHANGED <<peer, backlog, table, game, history>>

-----------------------------------------------------------------------------
(* handle_client_data: history. *)

\* Without the file there are no lines to send.
ReadableLines == {history} \cup (IF HistoryFileMayFail THEN {{}} ELSE {})

\* "/load": the lines of the file, then the frame that ends the load.
HandleLoadMsg(i, c) ==
  /\ Receive(i, c, "LMP_GRP_LOAD_MSG")
  /\ InMembers(i)
  /\ \E lines \in ReadableLines :
       sent' = {[to |-> c, type |-> "LMP_GRP_LOADING_MSG", from |-> c, index |-> 0,
                 uid |-> line.uid, text |-> line.text] : line \in lines}
                 \cup Answer({c}, c, "LMP_GRP_LOAD_MSG", "")
  /\ Transmit({c})
  /\ UNCHANGED <<peer, backlog, table, current_group, game, history, told, registered>>

\* save_message_to_history: nothing is saved if the file cannot be opened, nor
\* for a UID that has not UID_LENGTH characters.  (Nor is a text that does not
\* fit HistoryFormat, 1015 characters; dispatch_send accepts 255.)
SaveMessageToHistory(uid, text) ==
  \/ /\ uid # ""
     /\ history' = history \cup {[uid |-> uid, text |-> text]}
  \/ /\ uid = "" \/ HistoryFileMayFail
     /\ UNCHANGED history

-----------------------------------------------------------------------------
(* handle_client_data: Hangman. *)

\* The character "/hangman start" passes along; no game looks at it.
NUL == "NUL"

AddUser(list, uid) == <<uid>> \o list
RemoveUser(list, uid) == RemoveFirst(list, uid)
UserInList(list, uid) == uid \in ToSet(list)

HangmanFrame(i, c, verb) ==
  /\ Receive(i, c, "LMP_GRP_HANGMAN")
  /\ InMembers(i)
  /\ Head(inbox[c]).text = verb
  /\ UNCHANGED <<peer, backlog, table, current_group, history, told, registered>>

HandleHangmanStart(i, c) ==
  /\ HangmanFrame(i, c, "start")
  /\ hangman_fsm.state = "HANGMAN_INITIAL"
  /\ hangman_fsm' \in ProcessHangmanState(hangman_fsm, NUL)
  /\ hangman_users_list' = AddUser(hangman_users_list, Sender(i).uid)
  /\ sent' = Answer({c}, c, "LMP_GRP_HANGMAN", "welcome")
               \cup Answer(OthersThan(c), c, "LMP_GRP_HANGMAN", "announcement")
  /\ Transmit(Fds(pfds))

HandleHangmanStartAgain(i, c) ==
  /\ HangmanFrame(i, c, "start")
  /\ hangman_fsm.state # "HANGMAN_INITIAL"
  /\ sent' = Answer({c}, c, "LMP_GRP_HANGMAN", "in progress")
  /\ Transmit({c})
  /\ UNCHANGED game

HandleHangmanExit(i, c) ==
  /\ HangmanFrame(i, c, "exit")
  /\ hangman_users_list' = RemoveUser(hangman_users_list, Sender(i).uid)
  /\ sent' = Answer({c}, c, "LMP_GRP_HANGMAN", "exited")
  /\ Transmit({c})
  /\ UNCHANGED hangman_fsm

HandleHangmanJoin(i, c) ==
  /\ HangmanFrame(i, c, "join")
  /\ hangman_fsm.state # "HANGMAN_INITIAL"
  /\ hangman_users_list' = AddUser(hangman_users_list, Sender(i).uid)
  /\ sent' = Answer({c}, c, "LMP_GRP_HANGMAN", "board")
  /\ Transmit({c})
  /\ UNCHANGED hangman_fsm

\* Without a game a join is dropped without an answer.
HandleHangmanJoinNoGame(i, c) ==
  /\ HangmanFrame(i, c, "join")
  /\ hangman_fsm.state = "HANGMAN_INITIAL"
  /\ sent' = {}
  /\ UNCHANGED <<game, server>>

-----------------------------------------------------------------------------
(* handle_client_data: LMP_MSG, a guess or a chat message. *)

\* Mutant: everybody plays.
Plays_Everybody(i) == hangman_fsm.state # "HANGMAN_INITIAL"

\* The sender, or whoever its index names, plays the game that is on.
Plays(i) ==
  /\ hangman_fsm.state # "HANGMAN_INITIAL"
  /\ UserInList(hangman_users_list, Sender(i).uid)

\* A guess is one character, and the broadcast of the last one is over.
GuessAccepted(text) ==
  /\ hangman_fsm.state # "HANGMAN_UPDATE"
  /\ text \in Chars

\* The first member with the UID.
FirstMember(uid) ==
  {j \in 0 .. current_group.member_count - 1 :
     /\ current_group.members[j].uid = uid
     /\ \A k \in 0 .. j - 1 : current_group.members[k].uid # uid}

\* Where the answer to a guess goes: for each player, the connection at the
\* index of the first member with its UID, shifted by one for the listener.
PlayerFds(list) ==
  {pfds[j + 1].fd : j \in UNION {FirstMember(uid) : uid \in ToSet(list)}}

HandleGuessRefused(i, c) ==
  /\ Receive(i, c, "LMP_MSG")
  /\ InMembers(i)
  /\ Plays(i)
  /\ ~GuessAccepted(Head(inbox[c]).text)
  /\ sent' = Answer({c}, c, "LMP_GRP_HANGMAN", "refused")
  /\ Transmit({c})
  /\ UNCHANGED <<peer, backlog, table, current_group, game, history, told, registered>>

\* Mutant: the game is left in the update state.
AfterGuess_NoFinish(fsm, char) == ProcessHangmanState(fsm, char)

\* Mutant: process_hangman_state is called twice.
AfterGuess_Twice(fsm, char) ==
  UNION {ProcessHangmanState(HangmanFinishBroadcast(f), char)
           : f \in ProcessHangmanState(fsm, char)}

\* The structure once the answer to a guess has been sent.
AfterGuess(fsm, char) ==
  {HangmanFinishBroadcast(f) : f \in ProcessHangmanState(fsm, char)}

\* Mutant: the players of a finished game are kept.
RemainingPlayers_Kept(fsm, list) == list

\* A game that ended with the guess has no players any more.
RemainingPlayers(fsm, list) == IF fsm.state = "HANGMAN_INITIAL" THEN <<>> ELSE list

\* Mutant: the list of players is freed before the answer is sent.
HandleGuess_FreedFirst(i, c) ==
  /\ Receive(i, c, "LMP_MSG")
  /\ InMembers(i)
  /\ Plays(i)
  /\ GuessAccepted(Head(inbox[c]).text)
  /\ hangman_fsm' \in AfterGuess(hangman_fsm, Head(inbox[c]).text)
  /\ hangman_users_list' = RemainingPlayers(hangman_fsm', hangman_users_list)
  /\ sent' = Answer(PlayerFds(hangman_users_list'), c, "LMP_GRP_HANGMAN", "answer")
  /\ Transmit(PlayerFds(hangman_users_list'))
  /\ UNCHANGED <<peer, backlog, table, current_group, history, told, registered>>

\* Mutant: without its break, the guess is saved and relayed as well.
HandleGuess_FallsThrough(i, c) ==
  /\ Receive(i, c, "LMP_MSG")
  /\ InMembers(i)
  /\ Plays(i)
  /\ GuessAccepted(Head(inbox[c]).text)
  /\ hangman_fsm' \in AfterGuess(hangman_fsm, Head(inbox[c]).text)
  /\ hangman_users_list' = RemainingPlayers(hangman_fsm', hangman_users_list)
  /\ SaveMessageToHistory(Sender(i).uid, Head(inbox[c]).text)
  /\ Relay(i, c, Head(inbox[c]))
  /\ UNCHANGED <<peer, backlog, table, current_group, registered>>

HandleGuess(i, c) ==
  /\ Receive(i, c, "LMP_MSG")
  /\ InMembers(i)
  /\ Plays(i)
  /\ GuessAccepted(Head(inbox[c]).text)
  /\ hangman_fsm' \in AfterGuess(hangman_fsm, Head(inbox[c]).text)
  /\ hangman_users_list' = RemainingPlayers(hangman_fsm', hangman_users_list)
  /\ sent' = Answer(PlayerFds(hangman_users_list), c, "LMP_GRP_HANGMAN", "answer")
  /\ Transmit(PlayerFds(hangman_users_list))
  /\ UNCHANGED <<peer, backlog, table, current_group, history, told, registered>>

\* Mutant: the message is relayed first and then saved.
HandleMsg_SavedLast(i, c) ==
  /\ Receive(i, c, "LMP_MSG")
  /\ InMembers(i)
  /\ ~Plays(i)
  /\ Relay(i, c, Head(inbox[c]))
  /\ IF server' = "up"
     THEN SaveMessageToHistory(Sender(i).uid, Head(inbox[c]).text)
     ELSE UNCHANGED history
  /\ UNCHANGED <<peer, backlog, table, current_group, game, registered>>


\* Any other message is saved and falls through to the relay, whether it could
\* be saved or not.
HandleMsg(i, c) ==
  /\ Receive(i, c, "LMP_MSG")
  /\ InMembers(i)
  /\ ~Plays(i)
  /\ SaveMessageToHistory(Sender(i).uid, Head(inbox[c]).text)
  /\ Relay(i, c, Head(inbox[c]))
  /\ UNCHANGED <<peer, backlog, table, current_group, game, registered>>

\* Frames the server does not interpret are relayed.
HandleDefault(i, c) ==
  /\ \E type \in {"LMP_GRP_OBJ", "LMP_STICKERS"} : Receive(i, c, type)
  /\ Relay(i, c, Head(inbox[c]))
  /\ UNCHANGED <<peer, backlog, table, current_group, game, history, registered>>

-----------------------------------------------------------------------------
(* The end of the server. *)

\* A handler is about to use members outside its bounds: from there on the
\* behaviour of the build is not the program's.
TouchesOutside(i, c) ==
  IF inbox[c] = <<>>
  THEN ~InMembers(Len(pfds))
  ELSE IF Head(inbox[c]).type = "LMP_GRP_INIT_MEMBER"
  THEN current_group.member_count \notin -1 .. MAX_GROUP_MEMBERS - 1
  ELSE /\ Head(inbox[c]).type \in {"LMP_NICK", "LMP_GRP_LOAD_MSG", "LMP_GRP_HANGMAN", "LMP_MSG"}
       /\ ~InMembers(i)

HandleOutOfBounds(i, c) ==
  /\ Serving(i, c)
  /\ TouchesOutside(i, c)
  /\ server' = "undefined"
  /\ UNCHANGED <<environment, table, pfd_i, current_group, game, history, told,
                 registered, sent>>

HandleClientData(i, c) ==
  \/ HandleHangup(i, c)
  \/ HandleNick(i, c)
  \/ HandleInitMember(i, c)
  \/ HandleLoadMsg(i, c)
  \/ HandleHangmanStart(i, c)
  \/ HandleHangmanStartAgain(i, c)
  \/ HandleHangmanExit(i, c)
  \/ HandleHangmanJoin(i, c)
  \/ HandleHangmanJoinNoGame(i, c)
  \/ HandleGuessRefused(i, c)
  \/ HandleGuess(i, c)
  \/ HandleMsg(i, c)
  \/ HandleDefault(i, c)
  \/ HandleOutOfBounds(i, c)

Server ==
  \/ Poll
  \/ HandleNewConnection
  \/ \E i \in DOMAIN pfds, c \in Conns : HandleClientData(i, c)

Next == Client \/ Server

Spec == Init /\ [][Next]_vars

\* The server thread runs: poll() returns once a descriptor is ready, and the
\* scan goes on.  Nothing is assumed of the clients.
FairSpec == Spec /\ WF_vars(Server)

-----------------------------------------------------------------------------
(* Properties that hold whatever the clients do. *)

Frame == Commands \cup {InitFrame}

\* Every variable but "sent" has its type; in particular the members array is only ever
\* written within its bounds while the server is up.
GroupTypeOK ==
  /\ peer \in [Conns -> {"idle", "connected", "joined", "eof", "reset"}]
  /\ backlog \in Seq(Conns)
  /\ inbox \in [Conns -> Seq(Frame)]
  /\ pfds \in Seq([fd : Conns, revents : BOOLEAN])
  /\ fd_size \in Nat
  /\ pfd_i \in 0 .. Len(pfds) + 1
  /\ current_group \in Group
  /\ HangmanTypeOK
  /\ hangman_users_list \in Seq(Uids)
  /\ history \subseteq Line
  /\ told \in [Conns -> Group]
  /\ registered \subseteq Conns
  /\ server \in {"up", "killed", "undefined"}

\* The connection table holds every connection that is neither waiting nor
\* closed exactly once and never outgrows its capacity: moving the last entry
\* into a gap loses and duplicates nobody.
TableExact ==
  /\ \A i, j \in DOMAIN pfds : pfds[i].fd = pfds[j].fd => i = j
  /\ \A i, j \in DOMAIN backlog : backlog[i] = backlog[j] => i = j
  /\ ToSet(backlog) \cap Fds(pfds) = {}
  /\ \A c \in Conns : peer[c] = "idle" => c \notin ToSet(backlog) \cup Fds(pfds)
  /\ \A c \in Conns :
       peer[c] \in {"connected", "joined"} => c \in ToSet(backlog) \cup Fds(pfds)
  /\ registered \subseteq Fds(pfds)
  /\ Len(pfds) + 1 <= fd_size

\* An entry the scan has not reached yet is marked ready only if reading from
\* it will not block, however the table was rearranged since poll(): the
\* server has one thread, and a recv() that blocks stops it for everybody.
NeverBlocksInRecv ==
  \A i \in DOMAIN pfds : i >= pfd_i /\ pfds[i].revents => Readable(pfds[i].fd)

\* No more members are announced than connections were introduced and are
\* still in the table.  Every index below member_count then has a connection:
\* the lookup of a player's descriptor, pfds[user_index + 1], stays within the
\* table.
MembersHaveConnections == current_group.member_count <= Cardinality(registered)

\* Everyone who introduced themselves has been told of the group as it is:
\* no change of it, by a join, a new nickname or a departure, goes untold.
ViewsUpToDate == server = "up" => \A c \in registered : told[c] = current_group

\* Between two handlers there are players only while a game is on.
PlayersOnlyInGame == hangman_fsm.state = "HANGMAN_INITIAL" => hangman_users_list = <<>>

\* No guess finds the game still broadcasting: the busy answer of
\* group_server_comms.c:388 is never given.
NeverBusy == hangman_fsm.state # "HANGMAN_UPDATE"

\* A client that left or died is taken off the table in the end, and one that
\* introduced itself is registered, whatever the others send meanwhile.
GoneAreRemoved ==
  \A c \in Conns :
    peer[c] \in {"eof", "reset"}
      ~> (c \notin ToSet(backlog) \cup Fds(pfds) \/ server # "up")

JoinsAreServed ==
  \A c \in Conns :
    peer[c] = "joined" ~> (c \in registered \/ peer[c] # "joined" \/ server # "up")

-----------------------------------------------------------------------------
(* Properties that hold while joins and departures do not overlap. *)

\* The member data at index i - 1 are those of the connection at index i, as
\* the comments of group_server_comms.c:171 and 409 have it, and they are
\* among the members announced.
MembersMatchConnections ==
  server = "up" =>
    \A i \in DOMAIN pfds :
      pfds[i].fd \in registered =>
        /\ i <= current_group.member_count
        /\ Sender(i).uid = MemberOf[pfds[i].fd].uid

\* A message or sticker relayed from c shows up as c's with everyone who was
\* told of the group: the index it carries, looked up in the receiver's copy of
\* it, is c's member.  The relay goes to every connection
\* (group_server_comms.c:439), to one accepted a moment ago, too, which was not
\* told of any group and looks the index up in a group of zeroes: there it
\* shows up under no name, but never under somebody else's.
RelaysAttributed ==
  server = "up" =>
    \A frame \in sent :
      frame.type \in {"LMP_MSG", "LMP_STICKERS"} =>
        \/ /\ frame.index < told[frame.to].member_count
           /\ told[frame.to].members[frame.index].uid = MemberOf[frame.from].uid
        \/ /\ frame.to \notin registered
           /\ told[frame.to] = ZeroGroup

\* A message is in the history, under its author's UID, by the time somebody
\* may have received it, even if the server dies while it relays it: whoever
\* has read it can load it, then or from the server's file.  So it is as long
\* as the file can be opened, and not otherwise (group_server_comms.c:434).
RelayedIsInHistory ==
  \A frame \in sent :
    frame.type = "LMP_MSG" =>
      [uid |-> MemberOf[frame.from].uid, text |-> frame.text] \in history

\* The step reads a message of c.
MessageRead(c) ==
  /\ inbox[c] # <<>> /\ inbox'[c] = Tail(inbox[c]) /\ peer' = peer
  /\ Head(inbox[c]).type = "LMP_MSG"

IsPlaying(c) ==
  /\ hangman_fsm.state # "HANGMAN_INITIAL"
  /\ MemberOf[c].uid \in ToSet(hangman_users_list)

\* The step reads a guess of c, who plays the game that is on.
GuessRead(c) == MessageRead(c) /\ IsPlaying(c) /\ Head(inbox[c]).text \in Chars

\* Whether the file can be opened or not, the history is the group's
\* conversation and nothing else: it grows only by a message, under its
\* author's UID, that goes to everybody else in the table, and never by a
\* guess of a player.
HistoryIsWhatWasSaid ==
  [][history' # history =>
       \E c \in registered :
         /\ MessageRead(c) /\ ~GuessRead(c)
         /\ history' = history \cup {[uid |-> MemberOf[c].uid, text |-> Head(inbox[c]).text]}
         /\ {frame.to : frame \in sent'} = Fds(pfds) \ {c}]_vars

\* Every guess of a player is answered to the connections of the players, the
\* one that ends the game included, and to no other: the two tables, looked
\* up one through the other, agree.
AnswersReachPlayers ==
  [][server' = "up" =>
       \A c \in registered :
         GuessRead(c) =>
           {frame.to : frame \in {f \in sent' : f.text = "answer"}} =
             {d \in registered : MemberOf[d].uid \in ToSet(hangman_users_list)}]_vars

\* Only a player moves a game that is on, and the player's message that does
\* is neither relayed nor saved.
OnlyPlayersGuess ==
  [][hangman_fsm.state # "HANGMAN_INITIAL" /\ hangman_fsm' # hangman_fsm =>
       /\ \E c \in registered :
            /\ inbox'[c] # inbox[c]
            /\ MemberOf[c].uid \in ToSet(hangman_users_list)
       /\ history' = history
       /\ \A frame \in sent' : frame.type = "LMP_GRP_HANGMAN"]_vars

-----------------------------------------------------------------------------
(* What the documents and comments say of the game, and the code does not.  *)

\* "exit leaves the game and returns to normal messaging" (README.md:118): a
\* user who typed it is not among the players.  False for one listed twice,
\* by /hangman start or join and then join: one entry of the two is removed.
ExitLeavesGame ==
  [][\A c \in registered :
       /\ inbox[c] # <<>> /\ Head(inbox[c]) = [type |-> "LMP_GRP_HANGMAN", text |-> "exit"]
       /\ inbox'[c] = Tail(inbox[c]) /\ peer' = peer /\ server' = "up"
       => MemberOf[c].uid \notin ToSet(hangman_users_list')]_vars

\* "Not a single letter guess, treat it as a normal message", says the comment
\* at group_server_comms.c:399: such a message is saved like any other.  False:
\* the break it explains drops it.
LongGuessIsMessage ==
  [][\A c \in registered :
       MessageRead(c) /\ IsPlaying(c) /\ Head(inbox[c]).text \notin Chars
       => [uid |-> MemberOf[c].uid, text |-> Head(inbox[c]).text] \in history']_vars
=============================================================================
