---------------------------- MODULE P2PDiscovery ----------------------------
(***************************************************************************)
(* How two peers find each other: main() with broadcast,                   *)
(* listen_for_connection, listen_for_broadcast and connect_to (main.c,     *)
(* comms.c), from the start of the programs to their chat.                 *)
(*                                                                         *)
(* Conventions.                                                            *)
(*  - Time is counted in seconds, and a peer does what is due before the   *)
(*    next second begins: computers and network are fast compared with     *)
(*    the time-outs.  LISTEN_TIMEOUT_SEC may be scaled down.               *)
(*  - A datagram reaches the sockets that are bound when it is sent, or is *)
(*    lost on the way to one that is Remote.                               *)
(*  - A connection that the kernel completed waits in the queue of the     *)
(*    listener, and is reset when the listener is closed.  How many wait   *)
(*    for a backlog of 1 is the kernel's affair (Linux: 2).  A call to a   *)
(*    full queue is repeated by the caller's kernel, a second later in     *)
(*    fact and at once here, until there is room or no listener.           *)
(***************************************************************************)
EXTENDS Integers, FiniteSets, SequencesExt

CONSTANTS
  Peers,               \* hosts on the network, one program each
  NoPeer,              \* no one
  LISTEN_TIMEOUT_SEC,  \* how long a peer waits to be called
  QueueSize,           \* per host, how many connections wait in the listener's queue
  Remote,              \* environment: the hosts that a datagram may fail to reach
  MaxStarts,           \* bound: per host, how often the program is started
  LastStart            \* bound: the last second in which it is

VARIABLES
  place,      \* where main() is
  now,        \* the second
  deadline,   \* when poll() or sleep() returns
  queue,      \* connections to the listener, not accepted: who called
  heard,      \* the sender of the broadcast that was received
  partner,    \* who is at the other end of the socket of the chat
  link,       \* whether that connection is still there
  called,     \* when the last broadcast was sent
  starts      \* how often the program was started

vars == <<place, now, deadline, queue, heard, partner, link, called, starts>>

Places == {"off", "broadcast", "listen", "listening", "timed_out", "bind", "waiting",
           "sleeping", "client", "server", "failed"}

ASSUME DiscoveryAssumption ==
  /\ IsFiniteSet(Peers) /\ NoPeer \notin Peers
  /\ LISTEN_TIMEOUT_SEC \in Nat \ {0}
  /\ QueueSize \in [Peers -> Nat \ {0}]
  /\ Remote \subseteq Peers
  /\ MaxStarts \in [Peers -> Nat] /\ LastStart \in Nat

Init ==
  /\ place = [p \in Peers |-> "off"]
  /\ now = 0
  /\ deadline = [p \in Peers |-> 0]
  /\ queue = [p \in Peers |-> <<>>]
  /\ heard = [p \in Peers |-> NoPeer]
  /\ partner = [p \in Peers |-> NoPeer]
  /\ link = [p \in Peers |-> "none"]
  /\ called = [p \in Peers |-> 0]
  /\ starts = [p \in Peers |-> 0]

GoTo(p, next) == place' = [place EXCEPT ![p] = next]

Step(p, from, next) == place[p] = from /\ GoTo(p, next)

\* A listener is open: a call to the peer is taken.
Listens(p) == place[p] \in {"listening", "timed_out"}

\* The queue of a listener takes no further connection.
QueueFull(p) == Listens(p) /\ Len(queue[p]) >= QueueSize[p]

\* The links after the callers waiting at p were reset, all but those in kept.
Dropped(p, kept) ==
  [q \in Peers |-> IF q \in Range(queue[p]) \ kept THEN "lost" ELSE link[q]]

-----------------------------------------------------------------------------

\* The program is started.
Start(p) ==
  /\ Step(p, "off", "broadcast")
  /\ starts[p] < MaxStarts[p] /\ now <= LastStart
  /\ starts' = [starts EXCEPT ![p] = @ + 1]
  /\ UNCHANGED <<now, deadline, queue, heard, partner, link, called>>

\* Mutant: the broadcast goes to a port that no one listens on.
Broadcast_WrongPort(p) ==
  /\ Step(p, "broadcast", "listen")
  /\ called' = [called EXCEPT ![p] = now]
  /\ UNCHANGED <<now, deadline, queue, heard, partner, link, starts>>

\* broadcast: one datagram.  A socket delivers the first it was sent.
Broadcast(p) ==
  /\ Step(p, "broadcast", "listen")
  /\ LET reach == {q \in Peers : place[q] = "waiting" /\ heard[q] = NoPeer}
     IN  \E lost \in SUBSET (reach \cap Remote) :
           heard' = [q \in Peers |-> IF q \in reach \ lost THEN p ELSE heard[q]]
  /\ called' = [called EXCEPT ![p] = now]
  /\ UNCHANGED <<now, deadline, queue, partner, link, starts>>

\* Mutant: the peer gives up after a second.
Listen_TooShort(p) ==
  /\ Step(p, "listen", "listening")
  /\ deadline' = [deadline EXCEPT ![p] = now]
  /\ UNCHANGED <<now, queue, heard, partner, link, called, starts>>

\* listen_for_connection: the listener is opened and polled.
Listen(p) ==
  /\ Step(p, "listen", "listening")
  /\ deadline' = [deadline EXCEPT ![p] = now + LISTEN_TIMEOUT_SEC]
  /\ UNCHANGED <<now, queue, heard, partner, link, called, starts>>

\* Mutant: the first caller is taken off the queue and another one accepted.
Accept_Last(p) ==
  /\ Step(p, "listening", "client")
  /\ queue[p] # <<>>
  /\ partner' = [partner EXCEPT ![p] = Last(queue[p])]
  /\ link' = [Dropped(p, {Head(queue[p])}) EXCEPT ![p] = "up"]
  /\ queue' = [queue EXCEPT ![p] = <<>>]
  /\ UNCHANGED <<now, deadline, heard, called, starts>>

\* The first in the queue is accepted and the listener closed; this instance
\* is the "client" of the chat.
Accept(p) ==
  /\ Step(p, "listening", "client")
  /\ queue[p] # <<>>
  /\ partner' = [partner EXCEPT ![p] = Head(queue[p])]
  /\ link' = [Dropped(p, {Head(queue[p])}) EXCEPT
                ![p] = IF link[Head(queue[p])] = "up" THEN "up" ELSE "lost"]
  /\ queue' = [queue EXCEPT ![p] = <<>>]
  /\ UNCHANGED <<now, deadline, heard, called, starts>>

\* poll() returns 0: no one has called by the deadline.
TimeOut(p) ==
  /\ Step(p, "listening", "timed_out")
  /\ now >= deadline[p] /\ queue[p] = <<>>
  /\ UNCHANGED <<now, deadline, queue, heard, partner, link, called, starts>>

\* The listener is closed, with whoever has called in the meantime.
CloseListener(p) ==
  /\ Step(p, "timed_out", "bind")
  /\ link' = Dropped(p, {})
  /\ queue' = [queue EXCEPT ![p] = <<>>]
  /\ UNCHANGED <<now, deadline, heard, partner, called, starts>>

\* listen_for_broadcast: only from here on is a broadcast received, and it is
\* waited for without a time-out.
Bind(p) ==
  /\ Step(p, "bind", "waiting")
  /\ UNCHANGED <<now, deadline, queue, heard, partner, link, called, starts>>

Hear(p) ==
  /\ Step(p, "waiting", "sleeping")
  /\ heard[p] # NoPeer
  /\ deadline' = [deadline EXCEPT ![p] = now + 1]
  /\ UNCHANGED <<now, queue, heard, partner, link, called, starts>>

\* Mutant: the call is repeated without need.
Connect_Twice(p) ==
  /\ place[p] = "sleeping" /\ now >= deadline[p]
  /\ ~QueueFull(heard[p])
  /\ IF Listens(heard[p])
     THEN /\ GoTo(p, "server")
          /\ queue' = [queue EXCEPT ![heard[p]] = @ \o <<p, p>>]
          /\ partner' = [partner EXCEPT ![p] = heard[p]]
          /\ link' = [link EXCEPT ![p] = "up"]
     ELSE GoTo(p, "failed") /\ UNCHANGED <<queue, partner, link>>
  /\ UNCHANGED <<now, deadline, heard, called, starts>>

\* connect_to, after the sleep: this instance is the "server" of the chat, or
\* it exits because there is no listener.  The call blocks on a full queue.
Connect(p) ==
  /\ place[p] = "sleeping" /\ now >= deadline[p]
  /\ ~QueueFull(heard[p])
  /\ IF Listens(heard[p])
     THEN /\ GoTo(p, "server")
          /\ queue' = [queue EXCEPT ![heard[p]] = Append(@, p)]
          /\ partner' = [partner EXCEPT ![p] = heard[p]]
          /\ link' = [link EXCEPT ![p] = "up"]
     ELSE GoTo(p, "failed") /\ UNCHANGED <<queue, partner, link>>
  /\ UNCHANGED <<now, deadline, heard, called, starts>>

\* The program ends, or is killed, wherever it is; its sockets are closed.
Stop(p) ==
  /\ place[p] # "off"
  /\ GoTo(p, "off")
  /\ link' = [q \in Peers |->
                IF q = p THEN "none"
                ELSE IF partner[q] = p /\ link[q] = "up" THEN "lost" ELSE link[q]]
  /\ queue' = [queue EXCEPT ![p] = <<>>]
  /\ heard' = [heard EXCEPT ![p] = NoPeer]
  /\ partner' = [partner EXCEPT ![p] = NoPeer]
  /\ UNCHANGED <<now, deadline, called, starts>>

\* What a peer has to do now.
Due(p) ==
  \/ place[p] \in {"broadcast", "listen", "timed_out", "bind"}
  \/ place[p] = "listening" /\ (queue[p] # <<>> \/ now >= deadline[p])
  \/ place[p] = "waiting" /\ heard[p] # NoPeer
  \/ place[p] = "sleeping" /\ now >= deadline[p]

\* A second passes, as long as something is waited for or may be started.
Tick ==
  /\ \A p \in Peers : ~Due(p)
  /\ now <= LastStart \/ \E p \in Peers : place[p] \in {"listening", "sleeping"}
  /\ now' = now + 1
  /\ UNCHANGED <<place, deadline, queue, heard, partner, link, called, starts>>

Runs(p) ==
  \/ Broadcast(p) \/ Listen(p) \/ Accept(p) \/ TimeOut(p) \/ CloseListener(p)
  \/ Bind(p) \/ Hear(p) \/ Connect(p)

Next == Tick \/ \E p \in Peers : Start(p) \/ Runs(p) \/ Stop(p)

Spec == Init /\ [][Next]_vars

\* A program that is started runs, and time passes.
FairSpec == Spec /\ WF_vars(Tick) /\ \A p \in Peers : WF_vars(Runs(p))

-----------------------------------------------------------------------------
(* Properties. *)

\* Every variable has its type, and a peer is in a queue once at most.
DiscoveryTypeOK ==
  /\ place \in [Peers -> Places]
  /\ now \in Nat
  /\ deadline \in [Peers -> Nat]
  /\ queue \in [Peers -> Seq(Peers)]
  /\ \A p \in Peers : IsInjective(queue[p])
  /\ heard \in [Peers -> Peers \cup {NoPeer}]
  /\ partner \in [Peers -> Peers \cup {NoPeer}]
  /\ link \in [Peers -> {"none", "up", "lost"}]
  /\ called \in [Peers -> Nat]
  /\ \A p \in Peers : starts[p] \in 0 .. MaxStarts[p]

\* Whoever chats over a connection that is up has someone at the other end:
\* the one who was called will accept or has accepted this very caller, and
\* the one who accepted was called by him, and by nobody else.  In particular
\* no time-out strikes between a call and its acceptance.
PartnersAgree ==
  \A p \in Peers : link[p] = "up" =>
    \/ place[p] = "server" /\ LET q == partner[p]
                              IN  \/ place[q] = "listening" /\ p \in Range(queue[q])
                                  \/ place[q] = "client" /\ partner[q] = p
    \/ place[p] = "client" /\ LET q == partner[p]
                              IN  place[q] = "server" /\ partner[q] = p

\* Where no datagram is lost, two programs that both wait for a broadcast, and
\* may do so for ever, were started within the time-out of each other:
\* everyone who starts later is heard by those who wait.
MissedMeansTogether ==
  \A p, q \in Peers \ Remote :
    place[p] = "waiting" /\ place[q] = "waiting"
      /\ heard[p] = NoPeer /\ heard[q] = NoPeer
    => called[p] - called[q] <= LISTEN_TIMEOUT_SEC

\* A broadcast that was heard leads to a chat of its sender, once he listens,
\* unless one of the two programs is stopped: the answer comes before the
\* time-out.
HeardMeet ==
  \A p, q \in Peers :
    place[q] = "sleeping" /\ heard[q] = p /\ place[p] = "listening"
      ~> (place[p] = "client" \/ "off" \in {place[p], place[q]})
=============================================================================
