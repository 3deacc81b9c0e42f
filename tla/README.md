# Formal model of socket-speak

socket-speak is a terminal chat for a LAN, in C. It has two modes. In **P2P**
mode two users find each other by UDP broadcast and talk over one TCP
connection. In **group** mode a group server accepts many clients, keeps the
group's membership and history, relays messages and hosts a game of Hangman.
Both modes frame their messages with LMP, an 8-byte header and a payload.

This directory holds TLA+ modules that model the program, TLC configurations
that check them on small instances, and proofs of their main theorems that
TLAPS checks. `PROJECT.json` maps every definition to the lines it models and
lists runs, theorems, findings and hazards.

## 1. The system

| Component | State | Operations | Talks to |
| --- | --- | --- | --- |
| Hangman game (`hangman.c`) | `HANGMAN_FSM`: state, word, mask, wrong letters, attempts | `process_hangman_state`, `hangman_finish_broadcast` | called by the group server |
| Group server, TCP (`group_server_comms.c`) | `pfds`, `current_group`, `hangman_users_list`, `hangman_fsm` | `poll` loop, `handle_new_connection`, `handle_client_data` with a branch per frame type | clients over TCP, the game, the history file |
| Group server, history (`group_server.c`) | the history file | append a line, read all lines | TCP loop |
| Group server, UDP (`group_server_comms.c`) | a copy of the group information | answer a discovery datagram | clients over UDP |
| Group server, console (`gserver.c`) | two threads | start, `/close` | both threads |
| Group client (`group_user_comms.c`, `group_commands.c`, `group_user.c`, `gclient.c`) | `user_group`, `user_group_is_initialized`, `loading_message_state` | user thread: one frame per line; receiver thread: one handler per frame type | server over TCP |
| LMP and dispatch (`lmp.c`, `commands_registry.c`) | the table of commands | `lmp_send`, `lmp_recv`, `dispatch_send`, `dispatch_recv`, `register_command` | everything |
| P2P discovery (`main.c`, `comms.c`) | sockets | broadcast, listen, connect with a time-out | the peer |
| P2P chat (`lmp.c`, `base_commands.c`) | `LMPContext`, history file and nickname files | UID handshake, messages, `/nick` with acknowledgement | the peer |
| Stickers (`sticker_commands.c`) | `sticker_array`, `saved_stickers.txt` | create, list, preview, send | the peer, a file |
| User store (`uid.c`, `user_manager.c`, `directory_manager.c`) | the UID file, the path of the directory in a static buffer | create or read the UID, make directories, open a file | the file system |

What is hard about it:

* **Two tables that must agree.** `pfds` holds the connections, `members` the
  people behind them; entry `i` of one goes with entry `i - 1` of the other by
  convention only. Every handler looks the sender up in `members` by the index
  of its connection, and the answer to a guess goes the other way round, from
  a UID to a member's index to a descriptor. Deletion moves the last entry of
  both tables into the gap, in the middle of a scan.
* **One thread for everybody.** The server must never block in `recv()` and
  must not lose or skip an entry while the table changes under the scan.
* **Copies of the group.** A relayed frame carries an index; each receiver
  looks it up in its own copy of the group, which the server re-sends after
  each change.
* **A game spread over calls.** A round is opened by its first guess, not by
  its start; a guess leaves the game in a state its caller has to leave again;
  the list of players lives outside the game.
* **Clients that die.** Writing to a dead client raises SIGPIPE, which nothing
  ignores; a client may end before it introduced itself.
* **Two threads per client** that share flags and a socket without a lock. In
  P2P mode both write to it: the receiver acknowledges nicknames.
* **Two peers in the same role.** Each program first calls and waits to be
  called, then listens for a call without a time-out; which of the two it is
  doing when the other calls decides whether they meet.
* **Files outlive programs.** A program may be killed between emptying a file
  and writing it, and another may run in the same directory.

What makes each component correct is stated by the properties of section 3.

## 2. Modules

| Module | Contents |
| --- | --- |
| `WordGame` | Abstract: a secret, the set of letters tried, a verdict that depends on nothing else. |
| `Hangman` | `hangman.c` as operators on the structure, and a machine that calls them in any order. |
| `HangmanProofs` | The inductive invariant of the game, its properties, and the refinement of `WordGame`. |
| `GroupServer` | The TCP side of the server, the history and the game in it, with clients as environment. Extends `Hangman`. |
| `GroupServerProofs` | Invariants of the server for any number of clients. Extends `HangmanProofs`. |
| `GroupClient` | A group client: both threads, the load state, the view of the group, with the server as environment. |
| `P2PDiscovery` | From the start of the P2P programs to their chats: calls, time-outs, connections. |
| `P2PDiscoveryProofs` | Who can miss whom, for any number of hosts. |
| `P2PChat` | Both peers of a chat with both their threads, the connection, the history files. |
| `P2PChatProofs` | The types of the chat, for any two users. |
| `P2PHistoryProofs` | `HistoriesAgree`, for any two users and whatever they type. |
| `UserStore` | A user's directory: UID, nickname and stickers across sessions. |
| `UserStoreProofs` | One UID for life, and all stickers; what the parser reads, by induction on the lines. |
| `MCHangman`, `MCGroupServer`, `MCGroupClient`, `MCP2PDiscovery`, `MCP2PChat`, `MCUserStore` | Small instances for TLC. |

`P2PChat` begins where `P2PDiscovery` ends, with a connection and its two
programs in "client" and "server". The UID, the nickname and the stickers of
`UserStore` are constants there: a chat changes none but the nickname.

### Hangman

`hangman_fsm` is the C structure; strings are sequences without terminator.
`ProcessHangmanState` and `HangmanFinishBroadcast` are the two entry points;
the first returns the *set* of structures it may leave, because
`set_random_word` draws a word. `UpdateHangman` composes the parts of
`update_hangman` in their order: reset of a new round, the guess, the verdict.
The texts that the functions return depend on the structure only and decide
nothing; they are left out.

### GroupServer

*State.* `pfds` is the array without the listener: `pfds[i]` is the code's
`pfds[i]`, and `fd_count` is `Len(pfds) + 1`. `current_group.members` keeps the
code's indices from 0. `pfd_i` is the loop variable of `process_connections`,
moved at once to the next entry whose `revents` are set; 0 stands for the
listener, a value past the table for the thread waiting in `poll()`.
`backlog` and `inbox` are what the kernel holds for the server: connections not
accepted and frames not read. `told` is the last group object written to each
connection. As TCP keeps the order, that is also what the client's
`user_group` is by the time it handles a frame written next, so that the
client's lag need not be modelled to know how it reads a frame. `sent` holds
the other frames that the last handler wrote. `registered` is history: the
connections whose introduction was handled. `server` says whether the process
runs, was killed by SIGPIPE, or used `members` out of bounds, from where on
its behaviour is undefined and the model stops.

*Actions of the clients.* `Connect` (the connection is complete before it is
accepted), `Introduce` (the member information, always first), `Type` (a line
of the user), `Leave` (end of input), `Die` (killed; unread frames may be lost).

*Actions of the server.* `Poll`, `HandleNewConnection`, and one action per
branch of `handle_client_data`:

| Action | Branch |
| --- | --- |
| `HandleHangup` | `lmp_recv` fails: `del_from_pfds`, re-send the group, examine the slot again |
| `HandleNick`, `HandleInitMember` | change a member, re-send the group |
| `HandleLoadMsg` | all lines of the history, then the end marker |
| `HandleHangmanStart`, `...StartAgain`, `...Exit`, `...Join`, `...JoinNoGame` | `/hangman` |
| `HandleGuess`, `HandleGuessRefused` | a message of a player while a game is on |
| `HandleMsg` | any other message: save, then relay |
| `HandleDefault` | relay |
| `HandleOutOfBounds` | the handler would use an index outside `members` |

*What is abstracted.*

* One handler is one step. The server has one thread and its handlers touch
  nothing a client touches but the sockets, so a client's step in the middle of
  a handler can be moved before or after it; clients act between the handlers
  of one scan.
* A frame is read as a whole. That a client stops in the middle of a frame and
  blocks the server is a hazard of its own (section 6).
* The history is a set of lines and the answers to a handler are a set of
  frames: no property is about repetitions or about the order within an answer.
* `GroupInfo` and `GroupMember` have the same size and layout, and `members`
  follows `info`: storing at `members[-1]` overwrites `info`, and the model
  does the same. Storing at `members[MAX_GROUP_MEMBERS]` is `undefined`.
* `accept()` and `malloc()` do not fail. `fopen()` of the history may, at each
  message and each load, if `HistoryFileMayFail`; the relay goes on all the
  same. A message is never too long for `HistoryFormat`: `dispatch_send`
  accepts 255 characters.
* `/close` just stops the server, as not taking a step does.

### GroupClient

*State.* `loading_message_state`, `user_group` and `user_group_is_initialized`
are the code's; `user` and `receiver` say where each thread is; `frame` and
`peer_nick` are the receiver's `buf`, `type`, `sender_i` and `ctx->peer_nick`.
`outbox` and `wire` are the two directions of the connection. `shown` holds
the history lines shown since the last request. The server's side is
`current_group`, `history` and `answer`, the lines it answered the last load
with. Frames carry "as", the name their author had when they were written,
for the property `ShownAsWritten` alone.

*Actions of the user thread.* One per command (`MsgSend`, `NickSend`), except
where the other thread may interfere: `/load` is `LoadTestRequesting`,
`LoadTestLoading`, `RequestLoad` (the state, then the request), `/gi` is
`GroupInfoCopyMembers`, `GroupInfoCopyCount`, `GroupInfoPrint`. `Leave` shuts
the connection down for writing and `Join` waits for the receiver.

*Actions of the receiver.* `Receive` reads a frame and looks its sender up;
each handler tests and assigns in separate steps. `Disconnect` is the end of
the connection: the look-up happens before the status is examined, and with no
frame ever received its index is uninitialised, so that the process may go on
or not (`undefined`).

*The server.* Its handlers as `GroupServer` has them, reduced to what reaches
this client: each change of the group is written to it at once, a message
carries its sender's index, a load is answered with all lines and the end
marker. `OrderlyMembership` is assumed (indices are right), the group has room,
and nobody sends a group object; run `overlap` of the server shows what
happens otherwise, and section 5 tells the rest. Its history file always opens.
What others say is relayed from the moment the connection is accepted, before
this client introduced itself, too. The server may end at any time and
what it wrote last may be lost. Other frames (answers to `/hangman`, stickers)
only print and are left out; `/meow` prints at its own user's and sends nothing. In group mode `history_path` is never set, and what
`msg_send` and `msg_recv` append to the file it names, if there is one, is left
out.

### P2PDiscovery

*State.* `place` is the statement of `main()` or of the function it is in,
`deadline` the end of its `poll()` or `sleep()`. `queue` holds the connections
that the kernel completed for a listener and `accept()` has not returned;
`heard` the sender of the first datagram at a bound socket; `partner` and
`link` the socket that the chat will get. `called` and `starts` count.
A queue is at most `QueueSize` long (`listen(sock, 1)`, `comms.c:125`, by which
systems mean one or two connections). A call to a full queue is not completed;
the caller's kernel repeats it until there is room, so `Connect` waits. It
repeats it at once here, and after a second or more in a real kernel.

*Time* is in seconds. What a program has to do it does before the next second
begins (`Due`, `Tick`): that is the assumption of the code, whose time-outs
are 5 seconds for a connection and 1 second of sleep. A datagram reaches the
sockets bound at that moment, except that one to a host in `Remote` may be
lost.

*Actions.* `Start`; `Broadcast`; `Listen`, `Accept`, `TimeOut` and
`CloseListener`, which are `listen_for_connection`; `Bind` and `Hear`, which
are `listen_for_broadcast`; `Connect`; and `Stop`, the end of the program
anywhere. `TimeOut` and `CloseListener` are two steps because a call may come
between them, and is reset.

### P2PChat

*State.* `user` and `receiver` say where the threads of each peer are; `line`
is the frame the user thread is sending and `frame` the one the receiver has
read; the fields of `LMPContext` have their names, `history_path` only whether
it is set. `stream[p]` is what `p` wrote and the other has not read, in halves:
headers and payloads.

*The connection.* `Sends`, `SendFails` and `SendKills` are the outcomes of one
`send()`: to a peer that has gone, it may succeed, fail, or end the process by
SIGPIPE, and after `shutdown()` it always does the last. `CloseSocket` discards
what was not read, and by the reset perhaps also what the other has not read.

*The user thread.* `SendUid`, `SeeReady` (the loop that polls
`peer_uid_ready`), `TypeMsg`, `TypeNick`, `SendPayload`, `SaveOwn`, `Leave`,
`Join`. *The receiver thread.* `ReadHeader`, `ReadPayload`, `ReadEnd`, one
action per handler (`uid_recv` in two, since the other thread polls in
between), and `SendAck`. `ReadTorn` is what happens when the half behind a
header is not its payload: as many bytes of the following halves are taken as
the header says, with or without a cut through the last of them.

*What is abstracted.* Bytes: a half is sent and read as a whole, so that only a
torn frame has pieces. Sizes: socket buffers are never full. Files can be
opened, and the two users have not talked before: lines and a nickname on file
from earlier would be printed and used as they are. `/meow` only prints, and
`/sticker send` is a message under another type, of which the two files keep
differently worded lines.

### UserStore

*State.* One directory and the programs that run in it. `uid_file`,
`nick_file` and `saved_stickers` are its files, `nick_file` per path because
`user_directory`, the static buffer of `get_user_directory`, may hold a wrong
one. `hex_uid`, `my_nick`, `sticker_array` and `history_loaded` are the
memory of a program. `uids`, `raced` and `made` observe.

*Actions.* `Start` and `ChatStart` call `get_uid`, which is `ReadUid` and, if
there is none, `GenerateUid`, `CreateUidFile`, `WriteUidFile`; `NickSend` and
`SaveNick` are the two halves of saving a nickname; a `/sticker` is
`FirstSticker` or `NextSticker`, then `UseSticker` or `CreateSticker`. `End`
ends a program anywhere. `Reading` and `Parsed` are the parser of `load_stickers`
over lines, and `Printed` what `save_sticker` prints. A file that ends inside a
sticker is not `Readable`: the loop of `load_stickers` does not end, and the
program stays in place "stuck".

## 3. Runs

All runs but `hangman` set `CHECK_DEADLOCK FALSE`: programs end, users stop
typing or leave, a peer may wait for ever to be called, and the bounds on
starts and seconds are reached.

| Run | Instance | Shows |
| --- | --- | --- |
| `hangman` | words `aba`, `bc`, `d`; 6 letters, `A`, `7`; 3 attempts | see below |
| `members` | 3 clients, `/nick`, departures and deaths at any time, capacity 2 | what holds whatever clients do |
| `chat` | 3 clients, `/load`, stickers, messages, one join or departure at a time, deaths at any time | attribution, history |
| `game` | 2 clients, `/hangman`, guesses, messages, one join or departure at a time, a history file that may fail to open | the game within the server, what gets into the history |
| `live` | 2 clients, as `members`, with fairness | departures and joins are handled |
| `client` | a client and one other; `/load`, `/nick`, `/gi`, messages; two changes of the group; the server may end; with fairness | the load state, names shown, loads and clients end |
| `p2p` | two peers: one types two messages, takes a nickname and leaves, the other types one, leaves, and may be killed; with fairness | handshake, histories, end of the chat |
| `discovery` | three hosts, time-out of 3 seconds, starts in seconds 0 to 4, one host starts twice and may miss datagrams, queues of one or two calls; with fairness | partners, who meets whom |
| `store` | two programs of two sessions each, two stickers whose texts look like the file, two seconds | UID and stickers last |
| `overlap`, `p2p_torn`, `store_nick` | as `members`, `p2p`, `store` | disagreements of section 5 |

**`hangman`.** `RoundsConsistent`: mask, wrong letters and attempts of a round
tell one story. `OpenRoundsUndecided`: no call returns with a decided round
open. `GuessesNeverUndone` (action property): shown letters, wrong letters and
spent attempts stay. `ImplementsWordGame`: refinement; the verdict depends on the set of letters
tried, not on order, repetition, case or other characters.

**`members`.** `TableExact`: no connection is lost or duplicated by the move of
the last entry. `NeverBlocksInRecv`: an entry still to be scanned is marked
ready only if reading it will not block. `MembersHaveConnections`: every index
below `member_count` has an entry in `pfds`. `ViewsUpToDate`: every change of
the group was sent to everyone who introduced themselves.

**`chat`.** `MembersMatchConnections`: the convention that ties the two tables.
`RelaysAttributed`: the index of a relayed frame, looked up in the receiver's
copy of the group, is the sender. The relay goes to every connection in the
table, also to one whose introduction the server has not read yet: such a
receiver has no group, looks the index up in zeroes and finds nobody, but never
somebody else. `RelayedIsInHistory`: what was relayed can be loaded, under its
author's UID, even if the server died of SIGPIPE in the middle of the relay.
The last one needs a history file that opens (`MCGroupServer_unsaved.cfg`); all need
`OrderlyMembership`: nobody joins or leaves while another's join or departure is
under way. Run `overlap` shows that the assumption is needed.

**`game`.** `AnswersReachPlayers` (action property): the answer to a guess,
that of the last guess included, goes to exactly the connections of the
players. `OnlyPlayersGuess`: only a player's message moves the game, and such a
message is neither relayed nor saved. `HistoryIsWhatWasSaid` (action property):
the history grows by what a member said outside a game, under that member's
UID and while it goes to everybody else, and by nothing else, whether or not
the file opens. `PlayersOnlyInGame`, `NeverBusy`: between
handlers no players without a game, no game left in its update state.
`ImplementsWordGame`: seen through all handlers, it is still the abstract game.

**`live`.** `GoneAreRemoved`, `JoinsAreServed`: whoever left is taken off the
table, whoever introduced itself gets registered, unless the server ended.

**`client`.** `LoadMatchesState`: the state that two threads share without a
lock says whether a load is under way, and no second one ever is; the client is
never left waiting for an end that does not come. `NoLineIgnored`: a line the
user asked for is never "unexpected". `LoadShowsAll` (action property): a load
that ends has shown the whole history as it was when the server answered, in
order. They rest on the order of two statements (the state is set before the
request is sent) and on each thread assigning only in states in which the other
does not. `ShownAsWritten`: a message, named by an index, and a line of the
history, named by a UID, are shown under the name their author had when the
server wrote them, however the group changed before and after; this is the
client's half of `RelaysAttributed`, with the lag of the connection. A message
relayed before the client's first group object is the exception on both sides:
it is shown under an empty name (section 5).
`LoadEnds`: a load ends unless the connection or the process does.
`LeavingEnds`: a client whose user ended the input terminates.

**`p2p`.** `HistoriesAgree`: what a peer said stands in both files, in order,
complete as far as it goes, and under the same name from its nickname on,
although four threads write them. It rests on the prompt appearing only after
the path of the history is known, and on the order of the stream.
`HandshakeEnds`: no user waits for ever for the UID of a peer that lives.
`MessagesArrive`: what was sent and saved gets into the peer's file even if
the sender leaves at once. `BothLeaveEnds`: two users that end their input end
both programs; each of them waits for the other's end of stream. The first and
third except torn frames (run `p2p_torn`), and in the third also those in the
other direction: the receiver that ends on one closes its socket with input
unread, and the reset takes what it had sent with it.

**`discovery`.** `PartnersAgree`: whoever holds a connection that is up is the
partner of its partner, or waits in its queue, and no time-out comes between.
`MissedMeansTogether`: two programs wait for ever only if they started within
the time-out of each other or a datagram was lost. `HeardMeet`: a call that
someone heard gives its sender a chat before its time-out.

**`store`.** `UidForLife`: wherever programs are killed, all UIDs that
`get_uid` ever returned are one, that of the file, unless two programs created
it at once. `StickersRemembered`: what the parser finds in the file is exactly
what was created, in order; a sticker with a line `</STICKER>` is excepted.

*Bounds.* Three clients are the smallest number for which the departing entry,
the one moved into its place and a bystander differ, and for which two joins
can be reordered while a third member exists; the initial capacity of 2 makes
the table grow during a scan. `MaxUnread = 1` frame per client not read by the
server: handlers read one frame per visit, so a longer queue only postpones the
same choices. `MaxPlayers = 2` entries in the list of players (and in
`inbox` frames that would add one) leave room for a player listed twice.
Words of one letter and two attempts let a game be opened, missed once, won and
played again within a few guesses. With one letter to guess the games of run
`game` are not lost; run `hangman`, where a guess may hit once, twice or not at
all, and `GroupPlaysWordGame` have the games that are. Clients are interchangeable: their
UIDs are the connections themselves, so the safety runs use symmetry; run
`live` does not.

For `GroupClient`, `MaxWire` is one more than the lines of the history, so that
an answer fits; more only postpones the receiver. A history of two lines has a
line after the first, which is the one a second request would lose. Two changes
of the group let the other member leave, which moves this client to another
index, and come back, or take another name, while frames of his are on their
way. Every command is typed any number of times, except that `/nick` counts as
a change and `/msg` as a line.

For `P2PChat`, two messages are the least that has an order and one that
follows a nickname; one nickname suffices, as its acknowledgement is the only
frame a receiver sends. One peer that may be killed: the connection with both
dead does nothing. For `P2PDiscovery`, three hosts are the least of which two
may answer one call; starts up to a second past the time-out are the least
that are heard. Two hosts have queues of one call and the third of two, so that a
second caller finds room at one and none at another. For `UserStore`, two programs are the least that race and two
seconds the least that give two UIDs; a third session would find the files in
states that a second one finds, too. A sticker's text has a line that begins a
sticker, the other one a line that ends one; in `MCUserStore_reopen.cfg` the
line that ends one comes first.

*Fairness.* `FairSpec` of `GroupServer` is weak fairness of the server's steps only: `poll()`
returns when a descriptor is ready, and the scan goes on. Nothing is assumed
of users; they need not type, leave or die. `FairSpec` of `GroupClient` is weak
fairness of the user thread inside a command, of the receiver thread and of
the server's reads: threads are scheduled, and `GoneAreRemoved` and the scan
say that the server reads every client. What users type and what others do is
not assumed. `FairSpec` of `P2PChat` is weak fairness of both threads of each
peer, as far as no user is waited for; `FairSpec` of `P2PDiscovery` of the
programs and of time. `UserStore` has no liveness.

## 4. Proofs

`HangmanProofs`, for every word list, alphabet and number of attempts: the
inductive invariant `FsmOK` is type, `RoundConsistent` and `OpenRoundUndecided`
together. The type alone is not inductive (that wrong letters fit their array
follows from each having cost an attempt), nor is either of the other parts.
`GuessEffect`, `ConcludeKeeps` and `FieldsCountLetters` relate a call's effect
on mask and counters to the set of letters tried; from them
`HangmanImplementsWordGame`: `[]OpenGameHasWord => ImplementsWordGame`. The
hypothesis is there because a missing word file opens games without a word
(`MCHangman_nofile.cfg`), of which the abstract game has none; whether the file may be
missing is not assumed.

`GroupServerProofs`, for any number of clients, any commands, with or without
overlapping joins, departures and deaths: a chain of invariants, each from the
ones before.

1. `TypeInv`: types, `FsmOK` of the game, and a backlog that is not empty when
   the scan is at the listener.
2. `TableExact`, from `FdsAfterDel`, `FdsAfterAdd` and `BacklogFacts`, which
   say what happens to the set of descriptors.
3. `NeverBlocksInRecv`, from 1 and 2: the entry just read has a descriptor of
   its own, so reading it makes no other one unreadable.
4. `IntroducedOnce` (an introduction is the first frame of a connection that is
   not registered) and from it `MembersHaveConnections`.
5. `ViewsUpToDate`, under the assumption that no client sends a group object
   (`NoClientGroups`; clients can, see section 5).
6. `PlayersOnlyInGame` and `NeverBusy`, together.
7. `GroupPlaysWordGame`: the server's steps refine `WordGame`; a guess and the
   end of its broadcast, one step here, are one move of the abstract game, under
   `[]OpenGameHasWord` as above.

`GroupMembersProofs`, for any number of clients that join and leave one after
the other (`OrderlyMembership = TRUE`, which run `overlap` shows to be needed),
and may be killed at any time:

1. `OrderInv` gives `MembersMatchConnections`. That the tables agree is not
   inductive: a departure moves the last entry of both, which is right only if
   the last connection is a member's, and a join writes at `member_count`, right
   only if everyone before it is a member. So it is proved together with
   `OnePending` (one join or departure at a time has not been handled) and
   `LeaversAreMembers`.
2. `RelaysAttributed` from 1, `ViewsUpToDate`, and `ViewsOrNone` (a connection
   that is not registered was told of no group), hence under `NoClientGroups`,
   too. `RelayedIsInHistory` from 1, if the history file opens;
   `HistoryIsWhatWasSaid` from 1, whether it does or not.
3. `OnlyPlayersGuess` and `AnswersReachPlayers` (action properties) from 1,
   `PlayersOnlyInGame`, and that a connection's first frame is its introduction
   (`IntroducedFirst`). The second assumes `DistinctUids`: the server finds a
   player's connection by UID.

`GroupClientProofs`, for every set of users, length of history and bound, with
an array of two members or more (`group.h` has 10):

1. `TypeInv`: the types, that the frames on their way have the fields their
   handlers use, and that a member for whom there was room is announced once.
2. `LoadInv` gives `LoadMatchesState` and `NoLineIgnored`: at most one request
   or answer is under way, and every line is followed by an end. The delicate
   steps are those between a thread's test and its assignment; the invariant
   says in which states the other thread cannot assign.
3. `AnswerInv` gives `LoadShowsAll`: the lines on their way are the part of the
   answer that is not shown, each at its distance from the end marker.
4. `ViewInv` gives `ShownAsWritten`: every frame on its way means, in the last
   group before it, what it meant when it was written (`Matches`), and the last
   group on its way is the server's. `FirstGroupInv` has the beginning: until
   the first group object the client's group is all zeroes and a message means
   nobody, and the lines of a history come only after it.

`P2PDiscoveryProofs`, for any number of hosts: `MissedMeansTogether`, for any
time-out, from `OnTime` (up to the time-out after its own call, and no longer, a
program is on its way to waiting) and `Unheard` (whoever waits and has heard
nothing was not called later than that). The property is not inductive, as it
says nothing of a program about to wait. `PartnersAgree` and the types, for a
time-out of two seconds or more (`comms.h:11` has five): with one second, a call
and the time-out it should precede fall into the same second, and TLC finds two
partners that disagree. `MeetInv` adds to the property when a program may still
call (`Punctual`) and what a caller in a queue can be doing (`QueueInv`): it
waits for the other, or it was killed and started again, and is then not yet
where it could be called itself.

`P2PChatProofs`, for any two users, whatever they type and wherever a process
is killed: the types, with what they rest on, that the text of a frame is of the
kind its type says (`GoodFrame`) and that the user thread's frame fits the place
where the thread is (`LineFits`); without these a torn or stale frame could be
stored as a nickname.

`P2PHistoryProofs`, for the same: `HistoriesAgree`, one direction of the chat at
a time. A direction is put into a record, its view (`Seen`): what the speaker
and its thread are doing, the halves on their way, and how far the hearer is.
The lemmas are about views, one per thing that a thread can do to one, and the
end of the proof shows which step of the program is which. The property says
nothing of lines on their way, and is far from inductive; the invariant
`Agreed` adds to it

1. `Hearing`, of a hearer that still reads: there is a function `g` that says
   what the hearer will know (lines heard, nickname, path of its file) after
   each half on its way. Every message among them is the line its number says,
   under the name the speaker has or had (`Meant`), and after the last half
   the hearer is up to date. `Paired` adds that a payload belongs to the last
   header of its own thread, which both threads' frames between each other
   would otherwise leave open; a hearer whose frame was not torn has therefore
   read a payload of the frame it is about to dispatch.
2. `Ledger`, of the two files: a line heard was sent as a whole, though it may
   not be saved by its speaker yet, and then the frame in the speaker's hands
   is that line.
3. `Counted`, of the speaker: lines typed and lines saved differ by the one
   under way, as long as both processes run. Once the hearer is gone a
   send() may fail and a line be skipped, but then nothing is heard any more.

`PathKnown` says that the path of the history is known wherever a thread saves
a line, so that no line is dropped without a trace. TLC checked the invariant
on the instance of run `p2p` before it was proved.

`UserStoreProofs`, for any number of programs and sessions: `UidForLife` from
`OneCreates`: as long as there was no race, a program creates a UID only while
none is on file, alone, and so before any was returned.

The rest of `UserStoreProofs` is about the stickers. `Reading`, the state of the
parser after each line, is a recursive function of the number of the line, and
what it computes is proved by induction on that number: the set of numbers for
which it is so contains 0 and, with each, the next (`UpTo`, from the least
element of a set of natural numbers). That a recursive function satisfies its
own equation is what tlapm takes from its definition; it is true here, as each
value rests on the one before. On this rest

1. `ReadingTyped`: the parser turns lines into stickers; and with it
   `StoreTypeOK`, together with where a program must have been to be where it
   is (`InPlace`): a nickname about to be saved is one that `/nick` gave, and a
   program in `/sticker` has loaded, so that the path it holds is that of the
   file.
2. `SavedSticker`: what is printed after a file that ends outside of any
   sticker is read as one sticker more, and leaves the parser outside again.
   `StickersRemembered` follows with `WholeOnesAre`. The hypothesis
   `TextsCloseForGood` is needed: with a text that has a line `</STICKER>` and,
   after it, a line `<STICKER>`, the property fails (see section 5). The texts
   of run `store` satisfy it.

The only assumptions are the named ones on the constants (`HangmanAssumption`,
`GroupAssumption`, `ClientAssumption`, `DiscoveryAssumption`,
`ChatAssumption`, `StoreAssumption`), which TLC evaluates on every run, and those
named above.

Checked by TLC only: liveness, which is out of TLAPS's reach with fairness. Every
safety property, action property and refinement that a passing run checks is a
theorem.

## 5. Where code and documentation disagree

| Run | Disagreement |
| --- | --- |
| `overlap` | Member information handled in another order than connections were accepted misaligns `members` and `pfds`; so does a connection that ends before its introduction, which takes somebody else off the list. |
| `p2p_torn` | The receiver thread's acknowledgement gets between header and payload of the user thread's frame; the peer reads garbage, and its receiver ends. |
| `store_nick` | `load_stickers` appends to the static path of the directory; a nickname set after any `/sticker` is stored in a file that is never read. |

Five more claims fail in the model as they do in the code. They are not runs of
`PROJECT.json`; TLC shows the counterexample with the configuration named.

| Configuration | Property | Disagreement |
| --- | --- | --- |
| `MCHangman_nofile` | `OpenGameHasWord` | Without its word file (`hangman.c:283`) the server starts a game that has no word, or that of the last game, though `hangman.c:269` says that a word is set. |
| `MCGroupServer_unsaved` | `RelayedIsInHistory` | A message that could not be saved is relayed all the same (`group_server_comms.c:434`), though README.md:150 has the chat in the server's history. |
| `MCGroupServer_exit` | `ExitLeavesGame` | `/hangman exit` removes one entry of a player listed twice (`group_server_comms.c:361`), though README.md:118 says that it leaves the game. |
| `MCGroupServer_long` | `LongGuessIsMessage` | A player's message of more than one letter is dropped, though the comment says to treat it as a normal message (`group_server_comms.c:399`). |
| `MCUserStore_reopen` | `StickersReadable` | The text of a sticker is saved as it was drawn. A line `</STICKER>` ends the sticker for `load_stickers`, and one `<STICKER>` after it opens another, which swallows the next sticker saved; if there is none, `load_stickers` reads the end of the file for ever (`sticker_commands.c:109`), and the stickers of README.md:101-102 are out of reach. |

Seen while modelling, without a configuration of their own:

* A message relayed to a client that was accepted but not yet introduced is
  shown under an empty name: the client looks the index up in its zeroed group
  (`group_server_comms.c:439`, `group_user_comms.c:188`).
* The 11th member is written behind the array of 10
  (`group_server_comms.c:295`); the model's server is then `undefined`.
* A client's `/grpobj` is relayed and replaces everybody's view of the group,
  though `commands_registry.h:15` says `Server > User`.
* `/gi` copies the group while the receiver assigns it (`group_commands.c:45`)
  and may print a blank member.
* In group mode `/nick` is not saved at all (`base_commands.c:28`), and a
  nickname of several words is read back up to the first blank
  (`lmp.c:360`), though README.md:81 says that it is persisted.
* Two programs that wait answer one call; the one that is reset waits for a
  UID for ever, as `lmp.c:383` does not notice that its receiver has ended.
* A peer that has left dies of SIGPIPE when it acknowledges a nickname.

## 6. Hazards no property covers

Frames cut short and full send buffers (one client that stalls the server, a
send time-out left on P2P sockets, two receivers blocked in their
acknowledgements), users created in the same second, descriptors that leak,
the sizes of the arrays of stickers and members, a player who comes back under
the same UID, an index used before it is set, a server killed by SIGPIPE (in the
model, and excepted by the liveness properties), and those of section 5 that
no run shows.
`PROJECT.json` lists them with their lines and says why.

## 7. Plan

1. Done: all modules of section 2 and the proofs of section 4.
2. An abstract view of the group that ties `told` of `GroupServer` to
   `user_group` of `GroupClient`.

Not modelled: the discovery of the group server, one datagram and one answer
with no state on either side; the server's console, which starts two threads
and cancels them; the registry of commands, a table filled once at start;
tests and build; printing, the line editor and the sticker editor; parsing of
arguments; `mkdir` through the shell.
