------------------------- MODULE P2PDiscoveryProofs -------------------------
(***************************************************************************)
(* Who misses whom, and who is at the other end: MissedMeansTogether and   *)
(* PartnersAgree of P2PDiscovery, for any number of hosts and programs     *)
(* that are stopped and started again.                                     *)
(*                                                                         *)
(* Both arguments are about time.  A program that waits for a broadcast    *)
(* did so since its own call was a time-out old (OnTime), and none came    *)
(* since: any call up to then is at most a time-out later than its own,    *)
(* and a later one it would have heard (Unheard).  And a program that is   *)
(* called cannot be called by another, or get far after a restart, before  *)
(* it accepts (QueueInv).                                                  *)
(***************************************************************************)
EXTENDS P2PDiscovery, TLAPS

DiscoveryTypeInv ==
  /\ place \in [Peers -> Places]
  /\ now \in Nat
  /\ deadline \in [Peers -> Nat]
  /\ called \in [Peers -> Nat]
  /\ heard \in [Peers -> Peers \cup {NoPeer}]

\* Up to the time-out, and no longer, is a peer on its way to "waiting".
OnTime ==
  \A p \in Peers :
    /\ called[p] <= now
    /\ place[p] = "listen" => now = called[p]
    /\ place[p] = "listening" => /\ deadline[p] = called[p] + LISTEN_TIMEOUT_SEC
                                 /\ now <= deadline[p]
    /\ place[p] \in {"timed_out", "bind"} => now <= called[p] + LISTEN_TIMEOUT_SEC

Unheard ==
  \A p \in Peers \ Remote, q \in Peers :
    place[p] = "waiting" /\ heard[p] = NoPeer
      => called[q] <= called[p] + LISTEN_TIMEOUT_SEC

MissedInv == DiscoveryTypeInv /\ OnTime /\ Unheard

LEMMA MissedInvInit == Init => MissedInv
<1> SUFFICES ASSUME Init PROVE MissedInv
  OBVIOUS
<1>1. DiscoveryTypeInv
  BY DEF Init, DiscoveryTypeInv, Places
<1>2. OnTime /\ Unheard
  BY DEF Init, OnTime, Unheard
<1> QED BY <1>1, <1>2 DEF MissedInv

\* A call is heard by all who wait and are not Remote.
LEMMA BroadcastKeeps ==
  ASSUME NEW p \in Peers, MissedInv, Broadcast(p)
  PROVE  MissedInv'
  <1>1. PICK lost \in SUBSET ({q \in Peers : place[q] = "waiting" /\ heard[q] = NoPeer}
                                \cap Remote) :
          heard' = [q \in Peers |->
            IF q \in {r \in Peers : place[r] = "waiting" /\ heard[r] = NoPeer} \ lost
            THEN p ELSE heard[q]]
    BY DEF Broadcast
  <1>2. DiscoveryTypeInv'
    BY <1>1 DEF Broadcast, Step, GoTo, MissedInv, DiscoveryTypeInv, Places
  <1>3. OnTime'
    BY DEF Broadcast, Step, GoTo, MissedInv, DiscoveryTypeInv, OnTime
  <1>4. Unheard'
    <2>1. SUFFICES ASSUME NEW r \in Peers \ Remote,
                          place'[r] = "waiting", heard'[r] = NoPeer
                   PROVE  FALSE
      BY DEF Unheard
    <2>2. place[r] = "waiting"
      BY <2>1 DEF Broadcast, Step, GoTo, MissedInv, DiscoveryTypeInv
    <2> QED BY <1>1, <2>1, <2>2, DiscoveryAssumption
  <1> QED BY <1>2, <1>3, <1>4 DEF MissedInv

\* Whoever begins to wait was called by nobody after a time-out.
LEMMA BindKeeps ==
  ASSUME NEW p \in Peers, MissedInv, Bind(p)
  PROVE  MissedInv'
  <1>1. DiscoveryTypeInv'
    BY DEF Bind, Step, GoTo, MissedInv, DiscoveryTypeInv, Places
  <1>2. OnTime'
    BY DEF Bind, Step, GoTo, MissedInv, DiscoveryTypeInv, OnTime
  <1>3. \A q \in Peers : called[q] <= called[p] + LISTEN_TIMEOUT_SEC
    BY DiscoveryAssumption DEF Bind, Step, MissedInv, DiscoveryTypeInv, OnTime
  <1>4. Unheard'
    BY <1>3 DEF Bind, Step, GoTo, MissedInv, DiscoveryTypeInv, Unheard
  <1> QED BY <1>1, <1>2, <1>4 DEF MissedInv

\* Time does not pass over what is due.
LEMMA TickKeeps == MissedInv /\ Tick => MissedInv'
<1> SUFFICES ASSUME MissedInv, Tick PROVE MissedInv'
  OBVIOUS
<1>1. DiscoveryTypeInv' /\ Unheard'
  BY DEF Tick, MissedInv, DiscoveryTypeInv, Unheard
<1>2. OnTime'
  BY DiscoveryAssumption DEF Tick, Due, MissedInv, DiscoveryTypeInv, OnTime
<1> QED BY <1>1, <1>2 DEF MissedInv

\* The other steps: no call is sent, and nobody begins to wait for one.
LEMMA OthersKeep ==
  ASSUME NEW p \in Peers, MissedInv, UNCHANGED <<now, called>>,
         \A q \in Peers \ {p} : place'[q] = place[q] /\ heard'[q] = heard[q]
                                /\ deadline'[q] = deadline[q],
         DiscoveryTypeInv',
         place'[p] \notin {"listen", "waiting"},
         place'[p] = "listening" =>
           deadline'[p] = called[p] + LISTEN_TIMEOUT_SEC /\ now <= deadline'[p],
         place'[p] \in {"timed_out", "bind"} => now <= called[p] + LISTEN_TIMEOUT_SEC
  PROVE  MissedInv'
  <1>1. OnTime'
    BY DEF MissedInv, OnTime
  <1>2. Unheard'
    BY DEF MissedInv, Unheard
  <1> QED BY <1>1, <1>2 DEF MissedInv

LEMMA MissedInvStep == MissedInv /\ [Next]_vars => MissedInv'
<1> SUFFICES ASSUME MissedInv, [Next]_vars PROVE MissedInv'
  OBVIOUS
<1> USE DiscoveryAssumption DEF Step, GoTo, MissedInv, DiscoveryTypeInv, Places
<1>1. CASE Tick
  BY <1>1, TickKeeps
<1>2. ASSUME NEW p \in Peers, Broadcast(p) PROVE MissedInv'
  BY <1>2, BroadcastKeeps
<1>3. ASSUME NEW p \in Peers, Bind(p) PROVE MissedInv'
  BY <1>3, BindKeeps
<1>4. ASSUME NEW p \in Peers, Start(p) PROVE MissedInv'
  BY <1>4, OthersKeep DEF Start
<1>5. ASSUME NEW p \in Peers, Listen(p) PROVE MissedInv'
  <2>1. called[p] + LISTEN_TIMEOUT_SEC = now + LISTEN_TIMEOUT_SEC
    BY <1>5 DEF Listen, OnTime
  <2> QED BY <1>5, <2>1, OthersKeep DEF Listen
<1>6. ASSUME NEW p \in Peers, Accept(p) PROVE MissedInv'
  <2>1. UNCHANGED <<now, called, heard, deadline>> /\ place' = [place EXCEPT ![p] = "client"]
    BY <1>6 DEF Accept
  <2>2. DiscoveryTypeInv'
    BY <2>1
  <2> QED BY <2>1, <2>2, OthersKeep
<1>7. ASSUME NEW p \in Peers, TimeOut(p) PROVE MissedInv'
  <2>1. now <= called[p] + LISTEN_TIMEOUT_SEC
    BY <1>7 DEF TimeOut, OnTime
  <2> QED BY <1>7, <2>1, OthersKeep DEF TimeOut
<1>8. ASSUME NEW p \in Peers, CloseListener(p) PROVE MissedInv'
  <2>1. now <= called[p] + LISTEN_TIMEOUT_SEC
    BY <1>8 DEF CloseListener, OnTime
  <2> QED BY <1>8, <2>1, OthersKeep DEF CloseListener
<1>9. ASSUME NEW p \in Peers, Hear(p) PROVE MissedInv'
  BY <1>9, OthersKeep DEF Hear
<1>10. ASSUME NEW p \in Peers, Connect(p) PROVE MissedInv'
  <2>1. PICK to \in {"server", "failed"} : place' = [place EXCEPT ![p] = to]
    BY <1>10 DEF Connect
  <2>2. UNCHANGED <<now, called, heard, deadline>>
    BY <1>10 DEF Connect
  <2>3. DiscoveryTypeInv'
    BY <2>1, <2>2
  <2> QED BY <2>1, <2>2, <2>3, OthersKeep
<1>11. ASSUME NEW p \in Peers, Stop(p) PROVE MissedInv'
  BY <1>11, OthersKeep DEF Stop
<1>12. CASE UNCHANGED vars
  BY <1>12 DEF vars, OnTime, Unheard
<1> QED
  BY <1>1, <1>2, <1>3, <1>4, <1>5, <1>6, <1>7, <1>8, <1>9, <1>10, <1>11, <1>12
  DEF Next, Runs

\* Two programs that both wait to be called, and may do so for ever, were
\* started within the time-out of each other (main.c, comms.c): a call is
\* missed only by those that are not waiting yet.
THEOREM LateStartersAreHeard == Spec => []MissedMeansTogether
<1>1. MissedInv => MissedMeansTogether
  BY DiscoveryAssumption DEF MissedInv, DiscoveryTypeInv, Unheard, MissedMeansTogether
<1> QED
  BY MissedInvInit, MissedInvStep, <1>1, PTL DEF Spec

-----------------------------------------------------------------------------
(* Who is at the other end: PartnersAgree, for a time-out of two seconds   *)
(* or more (comms.h has five).  An answer to a broadcast comes a second    *)
(* after it (Punctual), so before its sender gives up, and whoever is      *)
(* called accepts in that second.  By then the caller may have been        *)
(* stopped and started again, and wait for calls himself: nobody can call  *)
(* him yet, because he has called nobody for longer than a second before   *)
(* he called, and the answer to his new broadcast takes one (Unanswered).  *)

Punctual ==
  \A p \in Peers :
    /\ called[p] <= now
    /\ place[p] = "listen" => called[p] = now
    /\ place[p] = "listening" => deadline[p] = called[p] + LISTEN_TIMEOUT_SEC
    /\ place[p] \in {"timed_out", "bind", "waiting", "sleeping"} =>
         called[p] + LISTEN_TIMEOUT_SEC <= now
    /\ place[p] = "waiting" /\ heard[p] # NoPeer => called[heard[p]] = now
    /\ place[p] = "sleeping" => /\ heard[p] \in Peers
                                /\ now <= deadline[p]
                                /\ deadline[p] <= called[heard[p]] + 1
    /\ place[p] \in {"off", "broadcast", "listen", "listening", "timed_out", "bind"} =>
         heard[p] = NoPeer

\* No call to p can be made in this second.
Unanswered(p) == \A r \in Peers : place[r] = "sleeping" /\ heard[r] = p => now < deadline[r]

\* A caller in the queue of q waits for him,
Awaits(p, q) == place[p] = "server" /\ partner[p] = q /\ link[p] = "up"

\* or was stopped since, and has not got far after that.
Restarted(p) ==
  /\ link[p] # "up" /\ queue[p] = <<>>
  /\ \/ place[p] \in {"off", "broadcast", "listen"}
     \/ place[p] = "listening" /\ now < deadline[p]

QueueInv ==
  /\ \A q \in Peers : queue[q] # <<>> => place[q] = "listening"
  /\ \A q \in Peers : \A p \in Range(queue[q]) :
       (Awaits(p, q) \/ Restarted(p)) /\ Unanswered(p)

MeetInv ==
  /\ DiscoveryTypeOK /\ starts \in [Peers -> Nat]
  /\ \A p \in Peers : link[p] = "up" => partner[p] \in Peers
  /\ Punctual /\ QueueInv /\ PartnersAgree

\* A queue with one more in it, and one with nobody.
LEMMA QueueGrows ==
  ASSUME NEW S, NEW s \in Seq(S), NEW e \in S
  PROVE  /\ Append(s, e) \in Seq(S) /\ Append(s, e) # <<>>
         /\ Range(Append(s, e)) = Range(s) \cup {e}
         /\ IsInjective(s) /\ e \notin Range(s) => IsInjective(Append(s, e))
<1>1. /\ Len(s) \in Nat /\ DOMAIN s = 1 .. Len(s)
      /\ DOMAIN Append(s, e) = 1 .. Len(s) + 1
      /\ \A n \in 1 .. Len(s) : Append(s, e)[n] = s[n]
      /\ Append(s, e)[Len(s) + 1] = e
  OBVIOUS
<1>2. Append(s, e) \in Seq(S) /\ Append(s, e) # <<>>
  <2>1. Append(s, e) \in Seq(S) /\ Len(Append(s, e)) = Len(s) + 1
    OBVIOUS
  <2>2. CASE Append(s, e) = <<>>
    BY <1>1, <2>1, <2>2
  <2> QED
    BY <2>1, <2>2
<1>3. Range(Append(s, e)) = Range(s) \cup {e}
  BY <1>1 DEF Range
<1>4. ASSUME IsInjective(s), e \notin Range(s) PROVE IsInjective(Append(s, e))
  BY <1>1, <1>4 DEF Range, IsInjective
<1> QED
  BY <1>2, <1>3, <1>4

LEMMA QueueEmpty == Range(<<>>) = {} /\ IsInjective(<<>>)
  BY DEF Range, IsInjective

LEMMA QueueHead ==
  ASSUME NEW S, NEW s \in Seq(S), s # <<>>
  PROVE  Head(s) \in S /\ Head(s) \in Range(s)
<1>1. 1 \in DOMAIN s /\ Head(s) = s[1] /\ Head(s) \in S
  OBVIOUS
<1> QED
  BY <1>1 DEF Range

LEMMA QueueMembers ==
  ASSUME NEW S, NEW s \in Seq(S)
  PROVE  Range(s) \subseteq S
  BY DEF Range

LEMMA MeetInvInit == Init => MeetInv
<1> SUFFICES ASSUME Init PROVE MeetInv
  OBVIOUS
<1>1. DiscoveryTypeOK /\ starts \in [Peers -> Nat]
  BY DiscoveryAssumption, QueueEmpty DEF Init, DiscoveryTypeOK, Places
<1>2. Punctual /\ PartnersAgree
  BY DEF Init, Punctual, PartnersAgree
<1>3. QueueInv
  BY QueueEmpty DEF Init, QueueInv
<1>4. \A p \in Peers : link[p] # "up"
  BY DEF Init
<1> QED
  BY <1>1, <1>2, <1>3, <1>4 DEF MeetInv

\* A peer without a connection comes nearer to one, in time.
LEMMA ApproachKeeps ==
  ASSUME MeetInv, NEW p \in Peers, NEW to \in Places \ {"client", "server"},
         UNCHANGED <<now, queue, partner, link>>,
         place' = [place EXCEPT ![p] = to],
         \A q \in Peers \ {p} : deadline'[q] = deadline[q],
         \A q \in Peers \ {p} : place[q] = "sleeping" => heard'[q] = heard[q],
         place[p] \notin {"client", "server"},
         place[p] = "listening" => queue[p] = <<>> /\ ~(now < deadline[p]),
         place[p] \in {"off", "broadcast", "listen"} =>
           to \in {"off", "broadcast", "listen", "listening"},
         to \in {"listening", "sleeping"} => now < deadline'[p]
  PROVE  QueueInv' /\ PartnersAgree'
<1>1. /\ place \in [Peers -> Places] /\ queue \in [Peers -> Seq(Peers)]
      /\ QueueInv /\ PartnersAgree
  BY DEF MeetInv, DiscoveryTypeOK
<1>2. place'[p] = to /\ \A q \in Peers \ {p} : place'[q] = place[q]
  BY <1>1
<1>3. link[p] # "up"
  BY <1>1 DEF PartnersAgree
<1>4. PartnersAgree'
  <2> SUFFICES ASSUME NEW r \in Peers, link[r] = "up"
               PROVE  \/ place'[r] = "server"
                           /\ LET q == partner[r]
                              IN  \/ place'[q] = "listening" /\ r \in Range(queue[q])
                                  \/ place'[q] = "client" /\ partner[q] = r
                      \/ place'[r] = "client"
                           /\ LET q == partner[r]
                              IN  place'[q] = "server" /\ partner[q] = r
    BY DEF PartnersAgree
  <2>1. r # p /\ place'[r] = place[r]
    BY <1>2, <1>3
  <2>2. partner[r] # p \/ ~(place[p] = "listening" /\ r \in Range(queue[p]))
    BY QueueEmpty
  <2>3. partner[r] # p /\ partner[r] \in Peers
    BY <1>1, <2>2 DEF PartnersAgree, MeetInv
  <2>4. place'[partner[r]] = place[partner[r]]
    BY <1>2, <2>3
  <2> QED
    BY <1>1, <2>1, <2>4 DEF PartnersAgree
<1>5. \A q \in Peers : queue[q] # <<>> => place'[q] = "listening"
  <2>1. queue[p] = <<>>
    BY <1>1 DEF QueueInv
  <2> QED
    BY <1>1, <1>2, <2>1 DEF QueueInv
<1>6. ASSUME NEW q \in Peers, NEW c \in Range(queue[q])
      PROVE  (Awaits(c, q)' \/ Restarted(c)') /\ Unanswered(c)'
  <2>1. c \in Peers
    BY <1>1, <1>6, QueueMembers
  <2>2. (Awaits(c, q) \/ Restarted(c)) /\ Unanswered(c)
    BY <1>1, <1>6 DEF QueueInv
  <2>3. Unanswered(c)'
    <3> SUFFICES ASSUME NEW r \in Peers, place'[r] = "sleeping", heard'[r] = c
                 PROVE  now < deadline'[r]
      BY DEF Unanswered
    <3> QED
      BY <1>2, <2>2 DEF Unanswered
  <2>4. CASE c = p
    <3>1. Restarted(p)
      BY <1>2, <2>2, <2>4 DEF Awaits
    <3>2. link[p] # "up" /\ queue[p] = <<>> /\ place[p] \in {"off", "broadcast", "listen"}
      BY <3>1 DEF Restarted
    <3>3. place'[p] \in {"off", "broadcast", "listen"}
            \/ (place'[p] = "listening" /\ now < deadline'[p])
      BY <1>2, <3>2
    <3>4. Restarted(p)'
      BY <3>2, <3>3 DEF Restarted
    <3> QED
      BY <2>3, <2>4, <3>4
  <2>5. CASE c # p
    <3>1. place'[c] = place[c] /\ deadline'[c] = deadline[c]
      BY <1>2, <2>1, <2>5
    <3>2. Awaits(c, q) => Awaits(c, q)'
      BY <3>1 DEF Awaits
    <3>3. Restarted(c) => Restarted(c)'
      BY <3>1 DEF Restarted
    <3> QED
      BY <2>2, <2>3, <3>2, <3>3
  <2> QED
    BY <2>4, <2>5
<1> QED
  BY <1>4, <1>5, <1>6 DEF QueueInv

LEMMA StartMeets ==
  ASSUME MeetInv, NEW p \in Peers, Start(p)
  PROVE  MeetInv'
<1>1. DiscoveryTypeOK' /\ starts' \in [Peers -> Nat]
  <2>1. starts[p] < MaxStarts[p] /\ starts' = [starts EXCEPT ![p] = @ + 1]
    BY DEF Start
  <2>2. \A q \in Peers : starts[q] \in Nat /\ MaxStarts[q] \in Nat /\ starts[q] <= MaxStarts[q]
    BY DiscoveryAssumption DEF MeetInv, DiscoveryTypeOK
  <2>3. starts' \in [Peers -> Nat]
    BY <2>1, <2>2 DEF MeetInv
  <2>4. \A q \in Peers : starts'[q] \in 0 .. MaxStarts[q]
    BY <2>1, <2>2 DEF MeetInv
  <2> QED
    BY <2>3, <2>4 DEF MeetInv, DiscoveryTypeOK, Start, Step, GoTo, Places
<1>2. Punctual'
  BY DEF MeetInv, DiscoveryTypeOK, Punctual, Start, Step, GoTo, Places
<1>3. QueueInv' /\ PartnersAgree'
  BY ApproachKeeps DEF Start, Step, GoTo, Places
<1> QED
  BY <1>1, <1>2, <1>3 DEF MeetInv, Start

LEMMA BroadcastMeets ==
  ASSUME MeetInv, NEW p \in Peers, Broadcast(p)
  PROVE  MeetInv'
<1>1. /\ place[p] = "broadcast" /\ place' = [place EXCEPT ![p] = "listen"]
      /\ called' = [called EXCEPT ![p] = now]
      /\ UNCHANGED <<now, deadline, queue, partner, link, starts>>
  BY DEF Broadcast, Step, GoTo
<1>2. \A q \in Peers : \/ heard'[q] = heard[q]
                       \/ heard'[q] = p /\ place[q] = "waiting"
  BY DEF Broadcast
<1>3. heard' \in [Peers -> Peers \cup {NoPeer}]
  BY DEF Broadcast, MeetInv, DiscoveryTypeOK
<1>4. DiscoveryTypeOK' /\ starts' \in [Peers -> Nat]
  BY <1>1, <1>3 DEF MeetInv, DiscoveryTypeOK, Places
<1>5. Punctual'
  <2>1. /\ called \in [Peers -> Nat] /\ now \in Nat /\ deadline \in [Peers -> Nat]
        /\ place \in [Peers -> Places] /\ p # NoPeer
        /\ Punctual
    BY DiscoveryAssumption DEF MeetInv, DiscoveryTypeOK
  <2>2. /\ \A q \in Peers : called'[q] \in Nat /\ called'[q] <= now /\ called[q] <= called'[q]
        /\ called'[p] = now
        /\ \A q \in Peers : called[q] = now => called'[q] = now
        /\ \A q \in Peers \ {p} : called'[q] = called[q] /\ place'[q] = place[q]
        /\ place'[p] = "listen" /\ heard'[p] = NoPeer
    BY <1>1, <1>2, <2>1 DEF Punctual
  <2>3. ASSUME NEW q \in Peers, place'[q] = "waiting", heard'[q] # NoPeer
        PROVE  called'[heard'[q]] = now
    BY <1>2, <1>3, <2>1, <2>2, <2>3 DEF Punctual
  <2>4. ASSUME NEW q \in Peers, place'[q] = "sleeping"
        PROVE  heard'[q] \in Peers /\ now <= deadline[q] /\ deadline[q] <= called'[heard'[q]] + 1
    <3>1. place[q] = "sleeping" /\ heard'[q] = heard[q]
      BY <1>2, <2>2, <2>4
    <3>2. heard[q] \in Peers /\ now <= deadline[q] /\ deadline[q] <= called[heard[q]] + 1
      BY <2>1, <3>1 DEF Punctual
    <3>3. PICK c \in Nat, d \in Nat :
            c = called[heard[q]] /\ d = called'[heard[q]] /\ c <= d /\ deadline[q] \in Nat
      BY <2>1, <2>2, <3>2
    <3> QED
      BY <3>1, <3>2, <3>3
  <2> QED
    BY <1>1, <1>2, <2>1, <2>2, <2>3, <2>4 DEF Punctual
<1>6. QueueInv' /\ PartnersAgree'
  <2>1. \A q \in Peers : place[q] = "sleeping" => heard'[q] = heard[q]
    BY <1>2
  <2>2. "listen" \in Places
    BY DEF Places
  <2> QED
    BY <1>1, <2>1, <2>2, ApproachKeeps
<1> QED
  BY <1>1, <1>4, <1>5, <1>6 DEF MeetInv

LEMMA ListenMeets ==
  ASSUME LISTEN_TIMEOUT_SEC >= 2, MeetInv, NEW p \in Peers, Listen(p)
  PROVE  MeetInv'
<1>1. DiscoveryTypeOK' /\ starts' \in [Peers -> Nat]
  BY DiscoveryAssumption DEF MeetInv, DiscoveryTypeOK, Listen, Step, GoTo, Places
<1>2. Punctual'
  BY DiscoveryAssumption DEF MeetInv, DiscoveryTypeOK, Punctual, Listen, Step, GoTo, Places
<1>3. QueueInv' /\ PartnersAgree'
  <2>1. now < deadline'[p]
    BY DiscoveryAssumption DEF Listen, MeetInv, DiscoveryTypeOK
  <2> QED
    BY <2>1, ApproachKeeps DEF Listen, Step, GoTo, Places, MeetInv, DiscoveryTypeOK
<1> QED
  BY <1>1, <1>2, <1>3 DEF MeetInv, Listen

LEMMA TimeOutMeets ==
  ASSUME MeetInv, NEW p \in Peers, TimeOut(p)
  PROVE  MeetInv'
<1>1. DiscoveryTypeOK' /\ starts' \in [Peers -> Nat]
  BY DEF MeetInv, DiscoveryTypeOK, TimeOut, Step, GoTo, Places
<1>2. Punctual'
  BY DiscoveryAssumption DEF MeetInv, DiscoveryTypeOK, Punctual, TimeOut, Step, GoTo, Places
<1>3. QueueInv' /\ PartnersAgree'
  <2>1. ~(now < deadline[p])
    BY DEF TimeOut, MeetInv, DiscoveryTypeOK
  <2> QED
    BY <2>1, ApproachKeeps DEF TimeOut, Step, GoTo, Places
<1> QED
  BY <1>1, <1>2, <1>3 DEF MeetInv, TimeOut

LEMMA BindMeets ==
  ASSUME MeetInv, NEW p \in Peers, Bind(p)
  PROVE  MeetInv'
<1>1. DiscoveryTypeOK' /\ starts' \in [Peers -> Nat]
  BY DEF MeetInv, DiscoveryTypeOK, Bind, Step, GoTo, Places
<1>2. Punctual'
  BY DEF MeetInv, DiscoveryTypeOK, Punctual, Bind, Step, GoTo, Places
<1>3. QueueInv' /\ PartnersAgree'
  BY ApproachKeeps DEF Bind, Step, GoTo, Places
<1> QED
  BY <1>1, <1>2, <1>3 DEF MeetInv, Bind

LEMMA HearMeets ==
  ASSUME MeetInv, NEW p \in Peers, Hear(p)
  PROVE  MeetInv'
<1>1. DiscoveryTypeOK' /\ starts' \in [Peers -> Nat]
  BY DEF MeetInv, DiscoveryTypeOK, Hear, Step, GoTo, Places
<1>2. Punctual'
  BY DiscoveryAssumption, SMTT(30) DEF MeetInv, DiscoveryTypeOK, Punctual, Hear, Step, GoTo, Places
<1>3. QueueInv' /\ PartnersAgree'
  <2>1. now < deadline'[p]
    BY DEF Hear, MeetInv, DiscoveryTypeOK
  <2> QED
    BY <2>1, ApproachKeeps DEF Hear, Step, GoTo, Places, MeetInv, DiscoveryTypeOK
<1> QED
  BY <1>1, <1>2, <1>3 DEF MeetInv, Hear

\* The caller who is accepted waits for it; if he has been stopped since,
\* nobody is there.  The other callers are reset.
LEMMA AcceptMeets ==
  ASSUME MeetInv, NEW p \in Peers, Accept(p)
  PROVE  MeetInv'
<1> DEFINE head == Head(queue[p])
<1>1. /\ place \in [Peers -> Places] /\ queue \in [Peers -> Seq(Peers)]
      /\ partner \in [Peers -> Peers \cup {NoPeer}] /\ link \in [Peers -> {"none", "up", "lost"}]
      /\ Punctual /\ QueueInv /\ PartnersAgree
  BY DEF MeetInv, DiscoveryTypeOK
<1>2. /\ place[p] = "listening" /\ place' = [place EXCEPT ![p] = "client"]
      /\ queue[p] # <<>> /\ queue' = [queue EXCEPT ![p] = <<>>]
      /\ partner' = [partner EXCEPT ![p] = head]
      /\ UNCHANGED <<now, deadline, heard, called, starts>>
  BY DEF Accept, Step, GoTo
<1>3. head \in Peers /\ head \in Range(queue[p])
  BY <1>1, <1>2, QueueHead
<1> HIDE DEF head
<1>4. /\ link'[p] = IF link[head] = "up" THEN "up" ELSE "lost"
      /\ \A q \in Peers \ {p} :
           link'[q] = IF q \in Range(queue[p]) \ {head} THEN "lost" ELSE link[q]
      /\ link' \in [Peers -> {"none", "up", "lost"}]
  BY <1>1 DEF Accept, Dropped, head
<1>5. /\ queue'[p] = <<>> /\ Range(queue'[p]) = {} /\ IsInjective(queue'[p])
      /\ \A q \in Peers \ {p} : queue'[q] = queue[q]
      /\ place'[p] = "client"
      /\ \A q \in Peers \ {p} : place'[q] = place[q] /\ partner'[q] = partner[q]
      /\ partner'[p] = head
  BY <1>1, <1>2, QueueEmpty
<1>6. DiscoveryTypeOK' /\ starts' \in [Peers -> Nat]
  <2>1. queue' \in [Peers -> Seq(Peers)]
    BY <1>1, <1>2
  <2>2. \A q \in Peers : IsInjective(queue'[q])
    BY <1>5 DEF MeetInv, DiscoveryTypeOK
  <2>3. place' \in [Peers -> Places] /\ partner' \in [Peers -> Peers \cup {NoPeer}]
    BY <1>1, <1>2, <1>3 DEF Places
  <2> QED
    BY <1>2, <1>4, <2>1, <2>2, <2>3 DEF MeetInv, DiscoveryTypeOK
<1>7. Punctual'
  BY <1>1, <1>2, <1>5 DEF Punctual
\* Who is called is in no queue himself.
<1>8. \A q \in Peers : p \notin Range(queue[q])
  BY <1>1, <1>2 DEF QueueInv, Awaits, Restarted
<1>9. ASSUME NEW q \in Peers, NEW c \in Range(queue'[q])
      PROVE  (Awaits(c, q)' \/ Restarted(c)') /\ Unanswered(c)'
  <2>1. q # p /\ c \in Range(queue[q]) /\ c \in Peers /\ c # p
    BY <1>1, <1>5, <1>8, <1>9, QueueMembers
  <2>2. (Awaits(c, q) \/ Restarted(c)) /\ Unanswered(c)
    BY <1>1, <2>1 DEF QueueInv
  <2>3. Unanswered(c)'
    BY <1>2, <1>5, <2>2 DEF Unanswered
  <2>4. place'[c] = place[c] /\ partner'[c] = partner[c] /\ queue'[c] = queue[c]
    BY <1>5, <2>1
  <2>5. CASE Awaits(c, q)
    <3>1. c \notin Range(queue[p])
      BY <1>1, <2>1, <2>5 DEF QueueInv, Awaits, Restarted
    <3>2. link'[c] = link[c]
      BY <1>4, <2>1, <3>1
    <3>3. Awaits(c, q)'
      BY <2>4, <2>5, <3>2 DEF Awaits
    <3> QED
      BY <2>3, <3>3
  <2>6. CASE Restarted(c)
    <3>1. link'[c] # "up"
      BY <1>4, <2>1, <2>6 DEF Restarted
    <3>2. Restarted(c)'
      BY <1>2, <2>4, <2>6, <3>1 DEF Restarted
    <3> QED
      BY <2>3, <3>2
  <2> QED
    BY <2>2, <2>5, <2>6
<1>10. QueueInv'
  BY <1>1, <1>5, <1>9 DEF QueueInv
<1>11. PartnersAgree'
  <2> SUFFICES ASSUME NEW r \in Peers, link'[r] = "up"
               PROVE  \/ place'[r] = "server"
                           /\ LET q == partner'[r]
                              IN  \/ place'[q] = "listening" /\ r \in Range(queue'[q])
                                  \/ place'[q] = "client" /\ partner'[q] = r
                      \/ place'[r] = "client"
                           /\ LET q == partner'[r]
                              IN  place'[q] = "server" /\ partner'[q] = r
    BY DEF PartnersAgree
  <2>1. head # p /\ (link[head] = "up" => place[head] = "server" /\ partner[head] = p)
    BY <1>1, <1>2, <1>3, <1>8 DEF QueueInv, Awaits, Restarted
  <2>2. CASE r = p
    <3>1. link[head] = "up"
      BY <1>4, <2>2
    <3> QED
      BY <1>3, <1>5, <2>1, <2>2, <3>1
  <2>3. CASE r = head /\ r # p
    <3>1. link[head] = "up"
      BY <1>4, <2>3
    <3> QED
      BY <1>5, <2>1, <2>3, <3>1
  <2>4. CASE r # head /\ r # p
    <3>1. link[r] = "up" /\ r \notin Range(queue[p])
      BY <1>4, <2>4
    <3>2. partner[r] # p
      BY <1>1, <1>2, <3>1 DEF PartnersAgree
    <3>3. partner[r] \in Peers
      BY <3>1 DEF MeetInv
    <3> QED
      BY <1>1, <1>5, <2>4, <3>1, <3>2, <3>3 DEF PartnersAgree
  <2> QED
    BY <2>2, <2>3, <2>4
<1>12. \A q \in Peers : link'[q] = "up" => partner'[q] \in Peers
  BY <1>3, <1>4, <1>5 DEF MeetInv
<1> QED
  BY <1>6, <1>7, <1>10, <1>11, <1>12 DEF MeetInv

\* After the time-out the queue is empty, so that nobody is reset.
LEMMA CloseListenerMeets ==
  ASSUME MeetInv, NEW p \in Peers, CloseListener(p)
  PROVE  MeetInv'
<1>1. /\ place \in [Peers -> Places] /\ queue \in [Peers -> Seq(Peers)]
      /\ link \in [Peers -> {"none", "up", "lost"}] /\ QueueInv
  BY DEF MeetInv, DiscoveryTypeOK
<1>2. /\ place[p] = "timed_out" /\ place' = [place EXCEPT ![p] = "bind"]
      /\ UNCHANGED <<now, deadline, heard, partner, called, starts>>
  BY DEF CloseListener, Step, GoTo
<1>3. queue[p] = <<>>
  BY <1>1, <1>2 DEF QueueInv
<1>4. queue' = queue /\ link' = link
  BY <1>1, <1>3, QueueEmpty DEF CloseListener, Dropped
<1>5. DiscoveryTypeOK' /\ starts' \in [Peers -> Nat]
  BY <1>2, <1>4 DEF MeetInv, DiscoveryTypeOK, Places
<1>6. Punctual'
  BY <1>1, <1>2 DEF MeetInv, Punctual
<1>7. QueueInv' /\ PartnersAgree'
  <2>1. "bind" \in Places \ {"client", "server"}
    BY DEF Places
  <2> QED
    BY <1>2, <1>4, <2>1, ApproachKeeps
<1> QED
  BY <1>2, <1>4, <1>5, <1>6, <1>7 DEF MeetInv

\* A call is made while its callee listens, by someone nobody is calling.
LEMMA ConnectMeets ==
  ASSUME LISTEN_TIMEOUT_SEC >= 2, MeetInv, NEW p \in Peers, Connect(p)
  PROVE  MeetInv'
<1>1. /\ place \in [Peers -> Places] /\ queue \in [Peers -> Seq(Peers)]
      /\ partner \in [Peers -> Peers \cup {NoPeer}] /\ link \in [Peers -> {"none", "up", "lost"}]
      /\ deadline \in [Peers -> Nat] /\ called \in [Peers -> Nat] /\ now \in Nat
      /\ LISTEN_TIMEOUT_SEC \in Nat
      /\ Punctual /\ QueueInv /\ PartnersAgree
  BY DiscoveryAssumption DEF MeetInv, DiscoveryTypeOK
<1>2. /\ place[p] = "sleeping" /\ ~(now < deadline[p])
      /\ UNCHANGED <<now, deadline, heard, called, starts>>
  BY <1>1 DEF Connect
<1>3. /\ \A q \in Peers : p \notin Range(queue[q])
      /\ link[p] # "up" /\ queue[p] = <<>>
  <2>1. \A q \in Peers : p \notin Range(queue[q])
    BY <1>2, <1>1 DEF QueueInv, Awaits, Restarted
  <2> QED
    BY <1>1, <1>2, <2>1 DEF QueueInv, PartnersAgree
<1>4. CASE place' = [place EXCEPT ![p] = "failed"] /\ UNCHANGED <<queue, partner, link>>
  <2>1. DiscoveryTypeOK' /\ starts' \in [Peers -> Nat]
    BY <1>2, <1>4 DEF MeetInv, DiscoveryTypeOK, Places
  <2>2. Punctual'
    BY <1>1, <1>2, <1>4 DEF Punctual
  <2>3. "failed" \in Places \ {"client", "server"}
    BY DEF Places
  <2>4. QueueInv' /\ PartnersAgree'
    BY <1>2, <1>4, <2>3, ApproachKeeps
  <2> QED
    BY <1>4, <2>1, <2>2, <2>4 DEF MeetInv
<1>5. CASE Listens(heard[p]) /\ GoTo(p, "server")
  <2>1. PICK q \in Peers : q = heard[p] /\ now <= deadline[p] /\ deadline[p] <= called[q] + 1
    BY <1>1, <1>2 DEF Punctual
  <2>2. /\ place' = [place EXCEPT ![p] = "server"]
        /\ queue' = [queue EXCEPT ![q] = Append(queue[q], p)]
        /\ partner' = [partner EXCEPT ![p] = q]
        /\ link' = [link EXCEPT ![p] = "up"]
    <3>1. "server" # "failed" /\ place[p] # "failed"
      BY <1>2
    <3> QED
      BY <1>1, <1>5, <2>1 DEF Connect, GoTo
  <2>3. place[q] = "listening" /\ q # p
    <3>1. place[q] \in {"listening", "timed_out"}
      BY <1>5, <2>1 DEF Listens
    <3>2. place[q] # "timed_out"
      <4>1. called[q] \in Nat /\ deadline[p] \in Nat
        BY <1>1
      <4>2. ~(called[q] + LISTEN_TIMEOUT_SEC <= now)
        BY <1>1, <2>1, <4>1
      <4> QED
        BY <1>1, <4>2 DEF Punctual
    <3> QED
      BY <1>2, <3>1, <3>2
  <2>4. /\ queue'[q] \in Seq(Peers) /\ queue'[q] # <<>>
        /\ Range(queue'[q]) = Range(queue[q]) \cup {p}
        /\ IsInjective(queue'[q])
        /\ \A r \in Peers \ {q} : queue'[r] = queue[r]
    <3>1. IsInjective(queue[q]) /\ queue[q] \in Seq(Peers)
      BY <1>1 DEF MeetInv, DiscoveryTypeOK
    <3>2. queue'[q] = Append(queue[q], p) /\ \A r \in Peers \ {q} : queue'[r] = queue[r]
      BY <1>1, <2>2
    <3> QED
      BY <1>3, <3>1, <3>2, QueueGrows
  <2>5. /\ place'[p] = "server" /\ partner'[p] = q /\ link'[p] = "up"
        /\ \A r \in Peers \ {p} : /\ place'[r] = place[r] /\ partner'[r] = partner[r]
                                  /\ link'[r] = link[r]
    BY <1>1, <2>2
  <2>6. DiscoveryTypeOK' /\ starts' \in [Peers -> Nat]
    <3>1. queue' \in [Peers -> Seq(Peers)]
      BY <1>1, <2>2, <2>4
    <3>2. \A r \in Peers : IsInjective(queue'[r])
      BY <2>4 DEF MeetInv, DiscoveryTypeOK
    <3>3. /\ place' \in [Peers -> Places] /\ partner' \in [Peers -> Peers \cup {NoPeer}]
          /\ link' \in [Peers -> {"none", "up", "lost"}]
      BY <1>1, <2>2 DEF Places
    <3> QED
      BY <1>2, <3>1, <3>2, <3>3 DEF MeetInv, DiscoveryTypeOK
  <2>7. Punctual'
    BY <1>1, <1>2, <2>5 DEF Punctual
  <2>8. Unanswered(p)'
    <3> SUFFICES ASSUME NEW r \in Peers, place'[r] = "sleeping", heard[r] = p
                 PROVE  now < deadline[r]
      BY <1>2 DEF Unanswered
    <3>1. place[r] = "sleeping"
      BY <2>5
    <3>2. called[p] + LISTEN_TIMEOUT_SEC <= now /\ now <= deadline[r] /\ deadline[r] <= called[p] + 1
      BY <1>1, <1>2, <3>1 DEF Punctual
    <3>3. called[p] \in Nat /\ deadline[r] \in Nat
      BY <1>1
    <3> QED
      BY <1>1, <3>2, <3>3
  <2>9. ASSUME NEW to \in Peers, NEW c \in Range(queue'[to])
        PROVE  (Awaits(c, to)' \/ Restarted(c)') /\ Unanswered(c)'
    <3>1. CASE c = p
      <4>1. to = q
        BY <1>3, <2>4, <2>9, <3>1
      <4> QED
        BY <2>5, <2>8, <3>1, <4>1 DEF Awaits
    <3>2. CASE c # p
      <4>1. c \in Range(queue[to]) /\ c \in Peers
        BY <1>1, <2>4, <2>9, <3>2, QueueMembers
      <4>2. (Awaits(c, to) \/ Restarted(c)) /\ Unanswered(c)
        BY <1>1, <4>1 DEF QueueInv
      <4>3. Unanswered(c)'
        BY <1>2, <2>5, <4>2 DEF Unanswered
      <4>4. Awaits(c, to) => Awaits(c, to)'
        BY <2>5, <3>2, <4>1 DEF Awaits
      <4>5. ASSUME Restarted(c) PROVE Restarted(c)'
        <5>1. c # q
          \* He is called by nobody; and p does.
          BY <1>2, <2>1, <4>2 DEF Unanswered
        <5>2. queue'[c] = queue[c] /\ place'[c] = place[c] /\ link'[c] = link[c]
          BY <2>4, <2>5, <3>2, <4>1, <5>1
        <5> QED
          BY <1>2, <4>5, <5>2 DEF Restarted
      <4> QED
        BY <4>2, <4>3, <4>4, <4>5
    <3> QED
      BY <3>1, <3>2
  <2>10. QueueInv'
    <3>1. \A r \in Peers : queue'[r] # <<>> => place'[r] = "listening"
      BY <1>1, <1>3, <2>3, <2>4, <2>5, ZenonT(30) DEF QueueInv
    <3> QED
      BY <2>9, <3>1 DEF QueueInv
  <2>11. PartnersAgree'
    <3> SUFFICES ASSUME NEW r \in Peers, link'[r] = "up"
                 PROVE  \/ place'[r] = "server"
                             /\ LET o == partner'[r]
                                IN  \/ place'[o] = "listening" /\ r \in Range(queue'[o])
                                    \/ place'[o] = "client" /\ partner'[o] = r
                        \/ place'[r] = "client"
                             /\ LET o == partner'[r]
                                IN  place'[o] = "server" /\ partner'[o] = r
      BY DEF PartnersAgree
    <3>1. CASE r = p
      BY <2>3, <2>4, <2>5, <3>1
    <3>2. CASE r # p
      <4>1. link[r] = "up" /\ partner'[r] = partner[r] /\ place'[r] = place[r]
        BY <2>5, <3>2
      <4>2. partner[r] # p /\ partner[r] \in Peers
        BY <1>1, <1>2, <4>1 DEF PartnersAgree, MeetInv
      <4>3. /\ place'[partner[r]] = place[partner[r]]
            /\ partner'[partner[r]] = partner[partner[r]]
            /\ Range(queue[partner[r]]) \subseteq Range(queue'[partner[r]])
        BY <2>4, <2>5, <4>2
      <4> QED
        BY <1>1, <4>1, <4>3 DEF PartnersAgree
    <3> QED
      BY <3>1, <3>2
  <2>12. \A r \in Peers : link'[r] = "up" => partner'[r] \in Peers
    BY <2>5 DEF MeetInv
  <2> QED
    BY <2>6, <2>7, <2>10, <2>11, <2>12 DEF MeetInv
<1> QED
  BY <1>4, <1>5 DEF Connect, GoTo

LEMMA StopMeets ==
  ASSUME MeetInv, NEW p \in Peers, Stop(p)
  PROVE  MeetInv'
<1>1. /\ place \in [Peers -> Places] /\ queue \in [Peers -> Seq(Peers)]
      /\ partner \in [Peers -> Peers \cup {NoPeer}] /\ link \in [Peers -> {"none", "up", "lost"}]
      /\ heard \in [Peers -> Peers \cup {NoPeer}]
      /\ Punctual /\ QueueInv /\ PartnersAgree
  BY DEF MeetInv, DiscoveryTypeOK
<1>2. /\ place' = [place EXCEPT ![p] = "off"] /\ heard' = [heard EXCEPT ![p] = NoPeer]
      /\ queue' = [queue EXCEPT ![p] = <<>>] /\ partner' = [partner EXCEPT ![p] = NoPeer]
      /\ UNCHANGED <<now, deadline, called, starts>>
  BY DEF Stop, GoTo
<1>3. /\ place'[p] = "off" /\ heard'[p] = NoPeer /\ queue'[p] = <<>>
      /\ \A q \in Peers \ {p} : /\ place'[q] = place[q] /\ heard'[q] = heard[q]
                                /\ queue'[q] = queue[q] /\ partner'[q] = partner[q]
      /\ Range(queue'[p]) = {} /\ IsInjective(queue'[p])
  BY <1>1, <1>2, QueueEmpty
<1>4. /\ link' \in [Peers -> {"none", "up", "lost"}] /\ link'[p] = "none"
      /\ \A q \in Peers \ {p} :
           link'[q] = IF partner[q] = p /\ link[q] = "up" THEN "lost" ELSE link[q]
  BY <1>1 DEF Stop
<1>5. DiscoveryTypeOK' /\ starts' \in [Peers -> Nat]
  <2>1. queue' \in [Peers -> Seq(Peers)]
    BY <1>1, <1>2
  <2>2. \A q \in Peers : IsInjective(queue'[q])
    BY <1>3 DEF MeetInv, DiscoveryTypeOK
  <2>3. /\ place' \in [Peers -> Places] /\ partner' \in [Peers -> Peers \cup {NoPeer}]
        /\ heard' \in [Peers -> Peers \cup {NoPeer}]
    BY <1>1, <1>2 DEF Places
  <2> QED
    BY <1>2, <1>4, <2>1, <2>2, <2>3 DEF MeetInv, DiscoveryTypeOK
<1>6. Punctual'
  BY <1>1, <1>2, <1>3 DEF Punctual
<1>7. ASSUME NEW q \in Peers, NEW c \in Range(queue'[q])
      PROVE  (Awaits(c, q)' \/ Restarted(c)') /\ Unanswered(c)'
  <2>1. q # p /\ c \in Range(queue[q]) /\ c \in Peers
    BY <1>1, <1>3, <1>7, QueueMembers
  <2>2. (Awaits(c, q) \/ Restarted(c)) /\ Unanswered(c)
    BY <1>1, <2>1 DEF QueueInv
  <2>3. Unanswered(c)'
    <3> SUFFICES ASSUME NEW r \in Peers, place'[r] = "sleeping", heard'[r] = c
                 PROVE  now < deadline[r]
      BY <1>2 DEF Unanswered
    <3>1. r # p
      BY <1>3
    <3> QED
      BY <1>3, <2>2, <3>1 DEF Unanswered
  <2>4. CASE c = p
    BY <1>3, <1>4, <2>3, <2>4 DEF Restarted
  <2>5. CASE c # p /\ Awaits(c, q)
    <3>1. link'[c] = link[c]
      BY <1>4, <2>1, <2>5 DEF Awaits
    <3>2. Awaits(c, q)'
      BY <1>3, <2>1, <2>5, <3>1 DEF Awaits
    <3> QED
      BY <2>3, <3>2
  <2>6. CASE c # p /\ Restarted(c)
    <3>1. link'[c] # "up"
      BY <1>4, <2>1, <2>6 DEF Restarted
    <3>2. Restarted(c)'
      BY <1>2, <1>3, <2>1, <2>6, <3>1 DEF Restarted
    <3> QED
      BY <2>3, <3>2
  <2> QED
    BY <2>2, <2>4, <2>5, <2>6
<1>8. QueueInv'
  BY <1>1, <1>3, <1>7 DEF QueueInv
<1>9. PartnersAgree'
  <2> SUFFICES ASSUME NEW r \in Peers, link'[r] = "up"
               PROVE  \/ place'[r] = "server"
                           /\ LET q == partner'[r]
                              IN  \/ place'[q] = "listening" /\ r \in Range(queue'[q])
                                  \/ place'[q] = "client" /\ partner'[q] = r
                      \/ place'[r] = "client"
                           /\ LET q == partner'[r]
                              IN  place'[q] = "server" /\ partner'[q] = r
    BY DEF PartnersAgree
  <2>1. r # p /\ link[r] = "up" /\ partner[r] # p /\ partner[r] \in Peers
    BY <1>4 DEF MeetInv
  <2> QED
    BY <1>1, <1>3, <2>1 DEF PartnersAgree
<1>10. \A q \in Peers : link'[q] = "up" => partner'[q] \in Peers
  BY <1>3, <1>4 DEF MeetInv
<1> QED
  BY <1>5, <1>6, <1>8, <1>9, <1>10 DEF MeetInv

\* A second passes only when nobody waits in a queue.
LEMMA TickMeets ==
  ASSUME MeetInv, Tick
  PROVE  MeetInv'
<1>1. /\ place \in [Peers -> Places] /\ queue \in [Peers -> Seq(Peers)]
      /\ deadline \in [Peers -> Nat] /\ called \in [Peers -> Nat] /\ now \in Nat
      /\ LISTEN_TIMEOUT_SEC \in Nat
      /\ Punctual /\ QueueInv /\ PartnersAgree
  BY DiscoveryAssumption DEF MeetInv, DiscoveryTypeOK
<1>2. /\ now' = now + 1 /\ \A p \in Peers : ~Due(p)
      /\ UNCHANGED <<place, deadline, queue, heard, partner, link, called, starts>>
  BY DEF Tick
<1>3. DiscoveryTypeOK' /\ starts' \in [Peers -> Nat] /\ PartnersAgree'
  BY <1>1, <1>2 DEF MeetInv, DiscoveryTypeOK, PartnersAgree
<1>4. Punctual'
  <2> SUFFICES ASSUME NEW p \in Peers
               PROVE  /\ called[p] <= now + 1
                      /\ place[p] # "listen"
                      /\ place[p] = "listening" => deadline[p] = called[p] + LISTEN_TIMEOUT_SEC
                      /\ place[p] \in {"timed_out", "bind", "waiting", "sleeping"} =>
                           called[p] + LISTEN_TIMEOUT_SEC <= now + 1
                      /\ place[p] = "waiting" => heard[p] = NoPeer
                      /\ place[p] = "sleeping" => /\ heard[p] \in Peers
                                                  /\ now + 1 <= deadline[p]
                                                  /\ deadline[p] <= called[heard[p]] + 1
                      /\ place[p] \in {"off", "broadcast", "listen", "listening", "timed_out",
                                       "bind"} => heard[p] = NoPeer
    BY <1>2 DEF Punctual
  <2> QED
    BY <1>1, <1>2 DEF Punctual, Due
<1>5. \A q \in Peers : queue[q] = <<>>
  BY <1>1, <1>2 DEF QueueInv, Due
<1>6. QueueInv'
  BY <1>2, <1>5, QueueEmpty DEF QueueInv
<1> QED
  BY <1>2, <1>3, <1>4, <1>6 DEF MeetInv

LEMMA MeetInvariant ==
  ASSUME LISTEN_TIMEOUT_SEC >= 2
  PROVE  Spec => []MeetInv
<1>1. MeetInv /\ [Next]_vars => MeetInv'
  <2> SUFFICES ASSUME MeetInv, [Next]_vars PROVE MeetInv'
    OBVIOUS
  <2>1. CASE Tick
    BY <2>1, TickMeets
  <2>2. ASSUME NEW p \in Peers, Start(p) \/ Runs(p) \/ Stop(p) PROVE MeetInv'
    BY <2>2, StartMeets, BroadcastMeets, ListenMeets, AcceptMeets, TimeOutMeets,
       CloseListenerMeets, BindMeets, HearMeets, ConnectMeets, StopMeets DEF Runs
  <2>3. CASE UNCHANGED vars
    BY <2>3 DEF vars, MeetInv, DiscoveryTypeOK, Punctual, QueueInv, Awaits, Restarted, Unanswered,
                PartnersAgree
  <2> QED
    BY <2>1, <2>2, <2>3 DEF Next
<1> QED
  BY <1>1, MeetInvInit, PTL DEF Spec

\* The program's data are well-formed, and nobody is twice in a queue of
\* connections, however often programs are stopped and started (comms.c).
THEOREM DiscoveryTypeCorrect ==
  ASSUME LISTEN_TIMEOUT_SEC >= 2
  PROVE  Spec => []DiscoveryTypeOK
<1>1. MeetInv => DiscoveryTypeOK
  BY DEF MeetInv
<1> QED
  BY <1>1, MeetInvariant, PTL

\* Whoever chats over a connection that is up has the partner at the other
\* end who means to chat with him: listen_for_connection never times out on a
\* caller, nor accepts one that has gone on to someone else (comms.c).
THEOREM PartnersMeet ==
  ASSUME LISTEN_TIMEOUT_SEC >= 2
  PROVE  Spec => []PartnersAgree
<1>1. MeetInv => PartnersAgree
  BY DEF MeetInv
<1> QED
  BY <1>1, MeetInvariant, PTL

=============================================================================
