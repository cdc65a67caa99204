------------------------ MODULE WorldSession_proofs ------------------------
(***************************************************************************)
(* Theorems about WorldSession for any number of connections, sessions and *)
(* packets: the type invariant, that sessions and sockets point at each    *)
(* other through every interleaving of the network threads with updates,   *)
(* reconnections, kicks and deletions, that only the callback of a login   *)
(* leaves a Player without a session, that who waits for a session is let  *)
(* go by its next Update, and, with at most one login in flight, that no   *)
(* stale timer logs a player out, every Player has a session, and one      *)
(* whose client is gone only comes nearer to its logout.                   *)
(***************************************************************************)
EXTENDS WorldSession, FiniteSetTheorems, SequenceTheorems, TLAPS

States == {"CREATED", "READY", "OFFLINE"}
Positions == {"off", "create", "request", "waiting", "authed", "queueing", "closed"}

SessionType ==
    [status : {"unborn", "live", "deleted"}, state : States,
     socket : Conns \cup {NoConn}, request : Conns \cup {NoConn}, player : BOOLEAN,
     logoutTime : LogoutTimes, recvQueue : Seq(PacketKinds),
     entered : BOOLEAN, asked : BOOLEAN]

ConnType == [open : BOOLEAN, m_session : SessionIds \cup {NoSession}, pc : Positions]

\* What nobody has created is as it will be created.
Born == \A s \in SessionIds : session[s].status = "unborn" => session[s] = Unborn

\* The world thread holds the account's session or none; one it is to add is alive and
\* not the account's.
Places ==
    /\ entry # NoSession => Live(entry)
    /\ updating \in {NoSession, entry}
    /\ removing \in {NoSession, entry}
    /\ removing # NoSession => updating = NoSession
    /\ \A i \in 1..Len(m_sessionAddQueue) :
         Live(m_sessionAddQueue[i]) /\ m_sessionAddQueue[i] # entry

\* A live session's socket, and the one that asks to replace it, have that session as
\* theirs; who asks waits, and the session stays CREATED until it has looked.
Matched ==
    \A s \in SessionIds : Live(s) =>
        /\ session[s].socket # NoConn =>
             /\ conn[session[s].socket].m_session = s
             /\ conn[session[s].socket].pc \in {"waiting", "authed", "queueing", "closed"}
        /\ session[s].request # NoConn =>
             /\ conn[session[s].request].m_session = s
             /\ conn[session[s].request].pc \in {"waiting", "closed"}
             /\ session[s].request # session[s].socket
             /\ session[s].state = "CREATED"

\* And the other way round, from the sockets.
Answered ==
    \A k \in Conns :
        /\ conn[k].m_session # NoSession => session[conn[k].m_session].status # "unborn"
        /\ conn[k].pc = "waiting" /\ Live(conn[k].m_session) =>
             k \in {session[conn[k].m_session].request, session[conn[k].m_session].socket}
        /\ conn[k].open /\ conn[k].pc \in {"authed", "queueing"} =>
             Live(conn[k].m_session) /\ session[conn[k].m_session].socket = k

\* Only the account's session has a player, who is counted; without one no timer runs.
Players ==
    /\ \A s \in SessionIds : session[s].player => s = entry
    /\ entry # NoSession => players >= PlayersOf(session[entry])
    /\ \A s \in SessionIds : ~session[s].player => session[s].logoutTime = "none"

\* The bounds on packets and logins.
Bounded ==
    /\ \A s \in SessionIds : Len(session[s].recvQueue) <= MaxQueued
    /\ holders + LoginsWaiting <= MaxHolders

Inv == TypeOK /\ Born /\ Places /\ Matched /\ Answered /\ Players /\ Bounded

\* With one login in flight at most: its answer finds no player.
Timer == NoStaleTimer /\ (holders > 0 /\ entry # NoSession => ~session[entry].player)

-----------------------------------------------------------------------------
(* Types. *)

Types ==
    /\ session \in [SessionIds -> SessionType]
    /\ tick \in {"sessions", "maps", "inMap"}
    /\ entry \in SessionIds \cup {NoSession} /\ updating \in SessionIds \cup {NoSession}
    /\ removing \in SessionIds \cup {NoSession}
    /\ m_sessionAddQueue \in Seq(SessionIds)
    /\ conn \in [Conns -> ConnType]
    /\ holders \in 0..MaxHolders
    /\ players \in Nat
    /\ crashed \in BOOLEAN

LEMMA TypeDef == TypeOK <=> Types
  BY DEF TypeOK, Types, SessionType, ConnType, States, Positions

LEMMA TypeDefNext == TypeOK' <=> Types'
  BY TypeDef, PTL

\* The numbers of sessions and sockets are not those of none.
LEMMA Ids ==
    /\ \A s \in SessionIds : s \in Nat /\ s # NoSession
    /\ \A k \in Conns : k \in Nat /\ k # NoConn
  BY BoundsAssumption DEF SessionIds, Conns, NoSession, NoConn

LEMMA RecordTypes ==
    ASSUME NEW r \in SessionType
    PROVE  /\ \A t \in LogoutTimes : LogoutRequest(r, t) \in SessionType
           /\ Left(r) \in SessionType /\ SetOffline(r) \in SessionType
           /\ PlayersOf(r) \in {0, 1}
           /\ \A q \in Seq(PacketKinds) : [r EXCEPT !.recvQueue = q] \in SessionType
           /\ \A b \in BOOLEAN : [r EXCEPT !.asked = b] \in SessionType
           /\ [r EXCEPT !.entered = TRUE, !.asked = FALSE] \in SessionType
  BY DEF SessionType, LogoutTimes, LogoutRequest, Left, SetOffline, PlayersOf, NoConn, States

LEMMA UnbornType ==
    Unborn \in SessionType /\ [Unborn EXCEPT !.status = "deleted"] \in SessionType
<1>1. <<>> \in Seq(PacketKinds)
  OBVIOUS
<1> QED  BY <1>1 DEF Unborn, SessionType, States, LogoutTimes

LEMMA RequestedType ==
    ASSUME NEW r \in SessionType, NEW k \in Conns
    PROVE  LET d == [r EXCEPT !.request = k, !.state = "CREATED"] IN
           /\ d \in SessionType /\ d.status = r.status /\ d.player = r.player
           /\ d.logoutTime = r.logoutTime /\ d.recvQueue = r.recvQueue
           /\ d.socket = r.socket /\ d.request = k /\ d.state = "CREATED"
  BY DEF SessionType, States

LEMMA QueuedType ==
    ASSUME NEW r \in SessionType, NEW q \in Seq(PacketKinds)
    PROVE  LET d == [r EXCEPT !.recvQueue = q] IN
           /\ d \in SessionType /\ d.status = r.status /\ d.player = r.player
           /\ d.logoutTime = r.logoutTime /\ d.recvQueue = q
           /\ d.socket = r.socket /\ d.request = r.request /\ d.state = r.state
  BY DEF SessionType

LEMMA OfflineFields ==
    ASSUME NEW r \in SessionType
    PROVE  /\ SetOffline(r) \in SessionType
           /\ SetOffline(r).status = r.status /\ SetOffline(r).player = r.player
           /\ SetOffline(r).recvQueue = r.recvQueue /\ SetOffline(r).request = r.request
           /\ SetOffline(r).socket = NoConn /\ SetOffline(r).entered = FALSE
           /\ ~r.player => SetOffline(r).logoutTime = r.logoutTime
<1> DEFINE d == IF r.player THEN LogoutRequest(r, "recent") ELSE r
<1>1. /\ d \in SessionType /\ d.status = r.status /\ d.player = r.player
      /\ d.recvQueue = r.recvQueue /\ d.request = r.request
      /\ ~r.player => d.logoutTime = r.logoutTime
  BY DEF LogoutRequest, LogoutTimes, SessionType
<1>2. SetOffline(r) = [d EXCEPT !.socket = NoConn, !.state = "OFFLINE", !.entered = FALSE, !.asked = FALSE]
  BY DEF SetOffline
<1> HIDE DEF d
<1> QED  BY <1>1, <1>2 DEF SessionType, States

LEMMA FreedType ==
    ASSUME NEW c \in ConnType
    PROVE  LET d == [[c EXCEPT !.open = FALSE] EXCEPT !.m_session = NoSession] IN
           d \in ConnType /\ d.open = FALSE /\ d.m_session = NoSession
  BY DEF ConnType

LEMMA ClosedType ==
    ASSUME NEW c \in ConnType
    PROVE  LET d == [c EXCEPT !.open = FALSE] IN
           /\ d \in ConnType /\ d.open = FALSE /\ d.m_session = c.m_session /\ d.pc = c.pc
  BY DEF ConnType

-----------------------------------------------------------------------------
(* The logins that wait. *)

LoginPlaces ==
    {p \in SessionIds \X (1..MaxQueued) :
        p[2] \in DOMAIN session[p[1]].recvQueue /\ session[p[1]].recvQueue[p[2]] = "login"}

LEMMA LoginsFinite ==
    /\ IsFiniteSet(LoginPlaces) /\ IsFiniteSet(LoginPlaces')
    /\ LoginsWaiting = Cardinality(LoginPlaces) /\ LoginsWaiting' = Cardinality(LoginPlaces')
    /\ LoginsWaiting \in Nat /\ LoginsWaiting' \in Nat
<1>1. IsFiniteSet(SessionIds) /\ IsFiniteSet(1..MaxQueued)
  BY BoundsAssumption, FS_Interval DEF SessionIds
<1>2. IsFiniteSet(SessionIds \X (1..MaxQueued))
  BY <1>1, FS_Product
<1>3. IsFiniteSet(LoginPlaces) /\ IsFiniteSet(LoginPlaces')
  BY <1>2, FS_Subset DEF LoginPlaces
<1>4. LoginsWaiting = Cardinality(LoginPlaces) /\ LoginsWaiting' = Cardinality(LoginPlaces')
  BY DEF LoginsWaiting, LoginPlaces
<1> QED  BY <1>3, <1>4, FS_CardinalityType

\* Packets that stay or are dropped.
LEMMA LoginsStay ==
    ASSUME \A s \in SessionIds :
              session'[s].recvQueue = session[s].recvQueue \/ session'[s].recvQueue = <<>>
    PROVE  LoginsWaiting' <= LoginsWaiting
<1>1. LoginPlaces' \subseteq LoginPlaces
  BY DEF LoginPlaces
<1> QED  BY <1>1, LoginsFinite, FS_Subset

LEMMA LoginsSame == UNCHANGED session => LoginsWaiting' = LoginsWaiting
  BY DEF LoginsWaiting

\* A packet queued.
LEMMA LoginsGrow ==
    ASSUME TypeOK, NEW s \in SessionIds, NEW kind \in PacketKinds,
           session' = [session EXCEPT ![s].recvQueue = Append(@, kind)]
    PROVE  LoginsWaiting' <= LoginsWaiting + (IF kind = "login" THEN 1 ELSE 0)
<1> DEFINE q == session[s].recvQueue
           new == <<s, Len(q) + 1>>
<1>1. session \in [SessionIds -> SessionType] /\ q \in Seq(PacketKinds)
  BY TypeDef DEF Types, SessionType
<1>2. \A t \in SessionIds : session'[t].recvQueue = IF t = s THEN Append(q, kind) ELSE session[t].recvQueue
  BY <1>1 DEF SessionType
<1>3. Append(q, kind) \in Seq(PacketKinds) /\ Len(Append(q, kind)) = Len(q) + 1
      /\ \A i \in 1..Len(q) : Append(q, kind)[i] = q[i]
      /\ Append(q, kind)[Len(q) + 1] = kind
  BY <1>1
<1> HIDE DEF q
<1>4. ASSUME NEW p \in LoginPlaces' PROVE p \in LoginPlaces \/ (kind = "login" /\ p = new)
  <2>1. p \in SessionIds \X (1..MaxQueued) /\ p = <<p[1], p[2]>>
    BY <1>4 DEF LoginPlaces
  <2>2. CASE p[1] # s
    BY <1>2, <1>4, <2>1, <2>2 DEF LoginPlaces
  <2>3. CASE p[1] = s
    <3>1. p[2] \in 1..(Len(q) + 1) /\ Append(q, kind)[p[2]] = "login"
      <4>1. session'[p[1]].recvQueue = Append(q, kind)
        BY <1>2, <2>3
      <4>2. p[2] \in DOMAIN Append(q, kind) /\ Append(q, kind)[p[2]] = "login"
        BY <1>4, <4>1 DEF LoginPlaces
      <4>3. DOMAIN Append(q, kind) = 1..(Len(q) + 1)
        BY <1>3, LenProperties
      <4> QED  BY <4>2, <4>3
    <3>2. CASE p[2] = Len(q) + 1
      BY <1>3, <2>1, <2>3, <3>1, <3>2
    <3>3. CASE p[2] \in 1..Len(q)
      BY <1>1, <1>3, <2>1, <2>3, <3>1, <3>3 DEF LoginPlaces, q
    <3> QED  BY <1>1, <3>1, <3>2, <3>3
  <2> QED  BY <2>2, <2>3
<1>5. CASE kind = "login"
  <2>1. LoginPlaces' \subseteq LoginPlaces \cup {new}
    BY <1>4
  <2>2. /\ IsFiniteSet(LoginPlaces \cup {new})
        /\ Cardinality(LoginPlaces \cup {new}) <= Cardinality(LoginPlaces) + 1
    <3>1. /\ IsFiniteSet(LoginPlaces \cup {new})
          /\ Cardinality(LoginPlaces \cup {new}) =
               IF new \in LoginPlaces THEN Cardinality(LoginPlaces) ELSE Cardinality(LoginPlaces) + 1
      BY LoginsFinite, FS_AddElement
    <3> QED  BY <3>1, LoginsFinite
  <2>3. Cardinality(LoginPlaces') <= Cardinality(LoginPlaces \cup {new})
    BY <2>1, <2>2, FS_Subset
  <2>4. Cardinality(LoginPlaces \cup {new}) \in Nat
    BY <2>2, FS_CardinalityType
  <2> QED  BY <1>5, <2>2, <2>3, <2>4, LoginsFinite
<1>6. CASE kind # "login"
  <2>1. LoginPlaces' \subseteq LoginPlaces
    BY <1>4, <1>6
  <2> QED  BY <1>6, <2>1, LoginsFinite, FS_Subset
<1> QED  BY <1>5, <1>6

\* The oldest packet of a session taken: the others move up by one.
LEMMA LoginsShift ==
    ASSUME TypeOK, Bounded, session' \in [SessionIds -> SessionType],
           NEW s \in SessionIds, session[s].recvQueue # <<>>,
           session'[s].recvQueue = Tail(session[s].recvQueue),
           \A t \in SessionIds \ {s} : session'[t].recvQueue = session[t].recvQueue
    PROVE  LoginsWaiting' <= LoginsWaiting - (IF Head(session[s].recvQueue) = "login" THEN 1 ELSE 0)
<1> DEFINE q == session[s].recvQueue
           first == <<s, 1>>
           rest == LoginPlaces \ {first}
           up == [p \in LoginPlaces' |-> <<p[1], IF p[1] = s THEN p[2] + 1 ELSE p[2]>>]
<1>1. q \in Seq(PacketKinds) /\ Len(q) \in 1..MaxQueued /\ q # <<>>
  BY TypeDef, EmptySeq DEF Types, SessionType, Bounded
<1>2. Tail(q) \in Seq(PacketKinds) /\ Len(Tail(q)) = Len(q) - 1
      /\ \A i \in 1..(Len(q) - 1) : Tail(q)[i] = q[i + 1]
  BY <1>1, HeadTailProperties
<1> HIDE DEF q
<1>3. ASSUME NEW p \in LoginPlaces' PROVE up[p] \in rest
  <2>1. p \in SessionIds \X (1..MaxQueued)
    BY <1>3 DEF LoginPlaces
  <2>2. CASE p[1] # s
    BY <1>3, <2>1, <2>2 DEF LoginPlaces
  <2>3. CASE p[1] = s
    <3>1. p[2] \in 1..(Len(q) - 1) /\ Tail(q)[p[2]] = "login"
      <4>1. session'[p[1]].recvQueue = Tail(q)
        BY <2>3 DEF q
      <4>2. p[2] \in DOMAIN Tail(q) /\ Tail(q)[p[2]] = "login"
        BY <1>3, <4>1 DEF LoginPlaces
      <4>3. DOMAIN Tail(q) = 1..(Len(q) - 1)
        BY <1>2, LenProperties
      <4> QED  BY <4>2, <4>3
    <3>2. p[2] + 1 \in 2..Len(q) /\ q[p[2] + 1] = "login" /\ p[2] + 1 \in 1..MaxQueued
      <4>1. Len(q) \in Nat /\ MaxQueued \in Nat /\ Len(q) <= MaxQueued
        BY <1>1, BoundsAssumption
      <4> QED  BY <1>2, <3>1, <4>1
    <3>3. <<s, p[2] + 1>> \in LoginPlaces /\ <<s, p[2] + 1>> # first
      BY <1>1, <3>2 DEF LoginPlaces, q
    <3> QED  BY <2>3, <3>3
  <2> QED  BY <2>2, <2>3
<1>4. \A p1, p2 \in LoginPlaces' : up[p1] = up[p2] => p1 = p2
  BY DEF LoginPlaces
<1>5. up \in Injection(LoginPlaces', rest)
  BY <1>3, <1>4 DEF Injection, IsInjective
<1>6. IsFiniteSet(rest) /\ Cardinality(LoginPlaces') <= Cardinality(rest)
  <2>1. IsFiniteSet(rest)
    BY LoginsFinite, FS_RemoveElement
  <2> QED  BY <1>5, <2>1, FS_Injection
<1>7. Cardinality(rest) = IF first \in LoginPlaces THEN LoginsWaiting - 1 ELSE LoginsWaiting
  BY LoginsFinite, FS_RemoveElement
<1>8. Head(q) = "login" => first \in LoginPlaces
  BY <1>1, BoundsAssumption DEF LoginPlaces, q
<1> QED  BY <1>6, <1>7, <1>8, LoginsFinite DEF q

-----------------------------------------------------------------------------
(* What most steps keep. *)

\* Neither does a session change its sockets nor a socket its session, no socket
\* opens, and a session that is asked for stays in its state.
Pairing ==
    /\ \A s \in SessionIds :
         /\ session'[s].status = session[s].status
         /\ session'[s].state = session[s].state \/ session[s].request = NoConn
         /\ session'[s].socket = session[s].socket /\ session'[s].request = session[s].request
    /\ \A k \in Conns :
         /\ conn'[k].m_session = conn[k].m_session
         /\ conn'[k].open => conn[k].open
         /\ \/ conn'[k].pc = conn[k].pc
            \/ conn[k].pc \in {"authed", "queueing"} /\ conn'[k].pc \in {"authed", "queueing", "closed"}

LEMMA PairingKeeps ==
    ASSUME Inv, Pairing
    PROVE  Matched' /\ Answered'
<1>1. session \in [SessionIds -> SessionType] /\ conn \in [Conns -> ConnType]
  BY TypeDef DEF Inv, Types
<1>2. \A s \in SessionIds : Live(s)' <=> Live(s)
  BY DEF Live, Pairing
<1>3. \A s \in SessionIds : session[s].socket \in Conns \cup {NoConn}
                           /\ session[s].request \in Conns \cup {NoConn}
  BY <1>1 DEF SessionType
<1>4. \A k \in Conns : conn[k].m_session \in SessionIds \cup {NoSession}
  BY <1>1 DEF ConnType
<1>5. Matched'
  <2>1. ASSUME NEW s \in SessionIds, Live(s)', session'[s].socket # NoConn
        PROVE  /\ conn'[session'[s].socket].m_session = s
               /\ conn'[session'[s].socket].pc \in {"waiting", "authed", "queueing", "closed"}
    BY <1>2, <1>3, <2>1 DEF Inv, Matched, Pairing
  <2>2. ASSUME NEW s \in SessionIds, Live(s)', session'[s].request # NoConn
        PROVE  /\ conn'[session'[s].request].m_session = s
               /\ conn'[session'[s].request].pc \in {"waiting", "closed"}
               /\ session'[s].request # session'[s].socket
               /\ session'[s].state = "CREATED"
    BY <1>2, <1>3, <2>2 DEF Inv, Matched, Pairing
  <2> QED  BY <2>1, <2>2 DEF Matched
<1>6. Answered'
  <2>1. ASSUME NEW k \in Conns, conn'[k].m_session # NoSession
        PROVE  session'[conn'[k].m_session].status # "unborn"
    BY <1>4, <2>1 DEF Inv, Answered, Pairing
  <2>2. ASSUME NEW k \in Conns, conn'[k].pc = "waiting", Live(conn[k].m_session)'
        PROVE  k \in {session'[conn'[k].m_session].request, session'[conn'[k].m_session].socket}
    <3>1. conn'[k].m_session \in SessionIds /\ conn'[k].m_session = conn[k].m_session
      BY <1>4, <2>2 DEF Pairing, Live
    <3> QED  BY <1>2, <2>2, <3>1 DEF Inv, Answered, Pairing
  <2>3. ASSUME NEW k \in Conns, conn'[k].open, conn'[k].pc \in {"authed", "queueing"}
        PROVE  Live(conn[k].m_session)' /\ session'[conn'[k].m_session].socket = k
    <3>1. Live(conn[k].m_session) /\ session[conn[k].m_session].socket = k
      BY <2>3 DEF Inv, Answered, Pairing
    <3>2. conn[k].m_session \in SessionIds /\ conn'[k].m_session = conn[k].m_session
      BY <1>4, <3>1 DEF Pairing, Live
    <3> QED  BY <1>2, <3>1, <3>2 DEF Pairing
  <2> QED  BY <2>1, <2>2, <2>3 DEF Answered
<1> QED  BY <1>5, <1>6

\* No session is created, deleted or moved.
LEMMA PlacesKeep ==
    ASSUME Inv, \A s \in SessionIds : session'[s].status = session[s].status,
           UNCHANGED <<entry, m_sessionAddQueue>>,
           updating' \in {NoSession, entry}, removing' \in {NoSession, entry},
           removing' # NoSession => updating' = NoSession
    PROVE  Places'
<1>1. \A s \in SessionIds : Live(s)' <=> Live(s)
  BY DEF Live
<1>2. entry \in SessionIds \cup {NoSession} /\ m_sessionAddQueue \in Seq(SessionIds)
  BY TypeDef DEF Inv, Types
<1>3. \A i \in 1..Len(m_sessionAddQueue) : m_sessionAddQueue[i] \in SessionIds
  BY <1>2
<1> QED  BY <1>1, <1>2, <1>3 DEF Inv, Places

\* Only sessions that exist change.
LEMMA BornKeeps ==
    ASSUME Inv, \A s \in SessionIds : session'[s] = session[s] \/ session[s].status = "live",
           \A s \in SessionIds : session'[s].status = session[s].status
    PROVE  Born'
  BY DEF Inv, Born

\* What is taken from the logins in the queues may be in flight.
LEMMA BoundHolds ==
    ASSUME Inv, holders' \in Nat, holders' + LoginsWaiting' <= holders + LoginsWaiting,
           \A s \in SessionIds : Len(session'[s].recvQueue) <= MaxQueued
    PROVE  Bounded'
<1>1. holders \in Nat /\ MaxHolders \in Nat
  BY TypeDef, BoundsAssumption DEF Inv, Types
<1>2. holders + LoginsWaiting <= MaxHolders
  BY DEF Inv, Bounded
<1>3. LoginsWaiting \in Nat /\ LoginsWaiting' \in Nat
  BY LoginsFinite
<1>4. \A a, b, c, d, m \in Nat : a + b <= c + d /\ c + d <= m => a + b <= m
  OBVIOUS
<1>5. holders' + LoginsWaiting' <= MaxHolders
  BY <1>1, <1>2, <1>3, <1>4
<1> QED  BY <1>5 DEF Bounded

\* Where no packet is added the logins in flight may not become more.
LEMMA BoundKeeps ==
    ASSUME Inv, holders' \in 0..holders,
           \A s \in SessionIds :
              session'[s].recvQueue = session[s].recvQueue \/ session'[s].recvQueue = <<>>
    PROVE  Bounded'
<1>1. LoginsWaiting' <= LoginsWaiting /\ LoginsWaiting \in Nat /\ LoginsWaiting' \in Nat
  BY LoginsStay, LoginsFinite
<1>2. holders \in Nat /\ holders' \in Nat /\ holders' <= holders
  BY TypeDef, BoundsAssumption DEF Inv, Types
<1>3. \A a, b, c, d \in Nat : a <= b /\ c <= d => a + c <= b + d
  OBVIOUS
<1>4. holders' + LoginsWaiting' <= holders + LoginsWaiting
  BY <1>1, <1>2, <1>3
<1>5. \A s \in SessionIds : Len(session'[s].recvQueue) <= MaxQueued
  BY BoundsAssumption, EmptySeq DEF Inv, Bounded
<1> QED  BY <1>2, <1>4, <1>5, BoundHolds

\* The sessions and sockets are as they were.
LEMMA NothingElse ==
    ASSUME Inv, UNCHANGED <<session, conn, entry, m_sessionAddQueue, players>>,
           updating' \in {NoSession, entry}, removing' \in {NoSession, entry},
           removing' # NoSession => updating' = NoSession,
           tick' \in {"sessions", "maps", "inMap"}, crashed' \in BOOLEAN,
           holders' \in 0..holders
    PROVE  Inv'
<1>1. Types'
  BY TypeDef, BoundsAssumption DEF Inv, Types, Places
<1>2. Pairing
  BY DEF Pairing
<1>3. Born' /\ Places' /\ Matched' /\ Answered'
  BY <1>2, PairingKeeps, PlacesKeep, BornKeeps DEF Inv
<1>4. Players'
  BY DEF Inv, Players
<1>5. Bounded'
  BY BoundKeeps
<1> QED  BY <1>1, <1>3, <1>4, <1>5, TypeDefNext DEF Inv

-----------------------------------------------------------------------------
(* The network threads. *)

\* A step of a network thread that leaves all sessions alone.
LEMMA SocketStep ==
    ASSUME Inv, conn' \in [Conns -> ConnType], crashed' \in BOOLEAN,
           UNCHANGED <<session, world, holders, players>>, Matched', Answered'
    PROVE  Inv'
<1> USE DEF world
<1>1. Types'
  BY TypeDef DEF Inv, Types
<1>2. Born' /\ Places'
  BY PlacesKeep, BornKeeps DEF Inv, Places
<1>3. Players' /\ Bounded'
  BY LoginsSame DEF Inv, Players, Bounded
<1> QED  BY <1>1, <1>2, <1>3, TypeDefNext DEF Inv

\* A socket that was off is no session's.
LEMMA FindInv == ASSUME Inv, NEW k \in Conns, FindSession(k) PROVE Inv'
<1> USE DEF FindSession
<1>1. conn \in [Conns -> ConnType] /\ entry \in SessionIds \cup {NoSession}
      /\ session \in [SessionIds -> SessionType] /\ crashed \in BOOLEAN
  BY TypeDef DEF Inv, Types
<1>2. conn' \in [Conns -> ConnType]
  BY <1>1 DEF ConnType, Positions
<1>3. Matched'
  <2>1. \A s \in SessionIds : Live(s) => session[s].socket # k /\ session[s].request # k
    BY Ids DEF Inv, Matched
  <2> QED  BY <1>1, <2>1 DEF Inv, Matched, Live, SessionType
<1>4. Answered'
  BY <1>1 DEF Inv, Answered, Live, ConnType, Places
<1> QED  BY <1>1, <1>2, <1>3, <1>4, SocketStep

\* The first packets of a client that had to wait.
LEMMA GetStateInv == ASSUME Inv, NEW k \in Conns, GetState(k) PROVE Inv'
<1> DEFINE s == conn[k].m_session
<1>1. conn \in [Conns -> ConnType] /\ session \in [SessionIds -> SessionType] /\ crashed \in BOOLEAN
  BY TypeDef DEF Inv, Types
<1>2. /\ UNCHANGED <<session, world, holders, players>> /\ conn[k].pc = "waiting"
      /\ crashed' \in BOOLEAN
  BY <1>1 DEF GetState
<1>3. CASE UNCHANGED conn
  <2>1. Pairing
    BY <1>2, <1>3 DEF Pairing
  <2> QED  BY <1>1, <1>2, <1>3, <2>1, PairingKeeps, SocketStep
<1>4. ASSUME NEW to \in {"authed", "closed"}, conn' = [conn EXCEPT ![k].pc = to],
             to = "authed" => Live(s) /\ session[s].state = "READY"
      PROVE  Inv'
  <2>1. /\ conn' \in [Conns -> ConnType]
        /\ \A j \in Conns : /\ conn'[j].m_session = conn[j].m_session /\ conn'[j].open = conn[j].open
                            /\ conn'[j].pc = IF j = k THEN to ELSE conn[j].pc
    BY <1>1, <1>4 DEF ConnType, Positions
  <2>2. to = "authed" => s \in SessionIds
    BY <1>1, <1>4 DEF ConnType, Live
  <2>3. to = "authed" => session[s].socket = k
    BY <1>2, <1>4, <2>2, Ids DEF Inv, Matched, Answered
  <2>4. \A t \in SessionIds : session[t].socket \in Conns \cup {NoConn}
                            /\ session[t].request \in Conns \cup {NoConn}
    BY <1>1 DEF SessionType
  <2>5. \A t \in SessionIds : Live(t) /\ session[t].request = k => to = "closed"
    BY <1>4, Ids DEF Inv, Matched
  <2>6. Matched'
    <3>1. \A t \in SessionIds : Live(t)' <=> Live(t)
      BY <1>2 DEF Live
    <3> QED  BY <1>2, <1>4, <2>1, <2>4, <2>5, <3>1 DEF Inv, Matched
  <2>7. Answered'
    <3>1. \A j \in Conns : Live(conn[j].m_session)' <=> Live(conn[j].m_session)
      BY <1>2, <2>1 DEF Live
    <3> QED  BY <1>2, <1>4, <2>1, <2>3, <3>1 DEF Inv, Answered
  <2> QED  BY <1>1, <1>2, <2>1, <2>6, <2>7, SocketStep
<1> QED  BY <1>3, <1>4 DEF GetState

LEMMA ReceiveInv == ASSUME Inv, NEW k \in Conns, Receive(k) \/ Disconnect(k) PROVE Inv'
<1> USE DEF Receive, Disconnect
<1>1. conn \in [Conns -> ConnType] /\ crashed \in BOOLEAN
  BY TypeDef DEF Inv, Types
<1>2. conn' \in [Conns -> ConnType]
  BY <1>1 DEF ConnType, Positions
<1>3. Pairing
  BY <1>1 DEF Pairing, ConnType
<1> QED  BY <1>1, <1>2, <1>3, PairingKeeps, SocketStep

\* A new session takes the number of none and the socket that had none.
LEMMA CreateInv == ASSUME Inv, NEW k \in Conns, CreateSession(k) PROVE Inv'
<1>1. PICK s \in SessionIds :
        /\ session[s].status = "unborn"
        /\ session' = [session EXCEPT ![s].status = "live", ![s].socket = k]
        /\ m_sessionAddQueue' = Append(m_sessionAddQueue, s)
        /\ conn' = [conn EXCEPT ![k].m_session = s, ![k].pc = "authed"]
  BY DEF CreateSession
<1>2. /\ conn[k].pc = "create"
      /\ UNCHANGED <<entry, tick, updating, removing, holders, players, crashed>>
  BY DEF CreateSession
<1>3. conn \in [Conns -> ConnType] /\ session \in [SessionIds -> SessionType]
      /\ m_sessionAddQueue \in Seq(SessionIds) /\ entry \in SessionIds \cup {NoSession}
  BY TypeDef DEF Inv, Types
<1>4. session[s] = Unborn
  BY <1>1 DEF Inv, Born
<1>5. /\ session' \in [SessionIds -> SessionType]
      /\ \A t \in SessionIds \ {s} : session'[t] = session[t]
      /\ session'[s] = [Unborn EXCEPT !.status = "live", !.socket = k]
  <2>1. [Unborn EXCEPT !.status = "live", !.socket = k] \in SessionType
    BY UnbornType DEF SessionType
  <2>2. session' = [session EXCEPT ![s] = [Unborn EXCEPT !.status = "live", !.socket = k]]
    BY <1>1, <1>3, <1>4 DEF Unborn
  <2> QED  BY <1>3, <2>1, <2>2
<1>6. /\ conn' \in [Conns -> ConnType]
      /\ \A j \in Conns \ {k} : conn'[j] = conn[j]
      /\ conn'[k].m_session = s /\ conn'[k].pc = "authed"
  BY <1>1, <1>3 DEF ConnType, Positions
<1>7. Types'
  BY <1>1, <1>2, <1>3, <1>5, <1>6, TypeDef DEF Inv, Types
<1>8. Born'
  BY <1>5 DEF Inv, Born, Unborn
<1>9. /\ s # NoSession /\ \A t \in SessionIds : Live(t)' <=> Live(t) \/ t = s
      /\ ~Live(s)
  BY <1>1, <1>5, Ids DEF Live, Unborn
<1>10. Places'
  <2>1. \A i \in 1..Len(m_sessionAddQueue') :
          \/ m_sessionAddQueue'[i] = s
          \/ i \in 1..Len(m_sessionAddQueue) /\ m_sessionAddQueue'[i] = m_sessionAddQueue[i]
    BY <1>1, <1>3
  <2>2. \A i \in 1..Len(m_sessionAddQueue) : m_sessionAddQueue[i] \in SessionIds
    BY <1>3
  <2>3. entry # s
    BY <1>9 DEF Inv, Places
  <2>4. \A i \in 1..Len(m_sessionAddQueue') :
          Live(m_sessionAddQueue[i])' /\ m_sessionAddQueue'[i] # entry
    <3>1. ASSUME NEW i \in 1..Len(m_sessionAddQueue'), m_sessionAddQueue'[i] = s
          PROVE  Live(m_sessionAddQueue[i])' /\ m_sessionAddQueue'[i] # entry
      BY <1>5, <1>9, <2>3, <3>1 DEF Live, Unborn
    <3>2. ASSUME NEW i \in 1..Len(m_sessionAddQueue), m_sessionAddQueue'[i] = m_sessionAddQueue[i]
          PROVE  Live(m_sessionAddQueue[i])' /\ m_sessionAddQueue'[i] # entry
      <4>1. Live(m_sessionAddQueue[i]) /\ m_sessionAddQueue[i] # entry
        BY DEF Inv, Places
      <4>2. m_sessionAddQueue[i] # s
        BY <1>9, <4>1
      <4> QED  BY <1>5, <2>2, <3>2, <4>1, <4>2 DEF Live
    <3> QED  BY <2>1, <3>1, <3>2
  <2>5. entry # NoSession => Live(entry)'
    <3>1. ASSUME entry # NoSession PROVE session'[entry].status = "live"
      BY <1>3, <1>5, <2>3, <3>1 DEF Inv, Places, Live
    <3> QED  BY <1>2, <3>1 DEF Live
  <2> QED  BY <1>2, <2>4, <2>5 DEF Inv, Places
<1>11. Matched'
  <2>1. ASSUME NEW t \in SessionIds, Live(t)
        PROVE  session[t].socket # k /\ session[t].request # k
    BY <1>2, <2>1, Ids DEF Inv, Matched
  <2>2. \A t \in SessionIds : session[t].socket \in Conns \cup {NoConn}
                            /\ session[t].request \in Conns \cup {NoConn}
    BY <1>3 DEF SessionType
  <2>3. ASSUME NEW t \in SessionIds \ {s}, Live(t)
        PROVE  /\ session'[t] = session[t]
               /\ session[t].socket # NoConn => conn'[session[t].socket] = conn[session[t].socket]
               /\ session[t].request # NoConn => conn'[session[t].request] = conn[session[t].request]
    BY <1>5, <1>6, <2>1, <2>2, <2>3
  <2>4. session'[s].socket = k /\ session'[s].request = NoConn
    BY <1>5 DEF Unborn
  <2> QED  BY <1>6, <1>9, <2>3, <2>4 DEF Inv, Matched
<1>12. Answered'
  <2>1. \A j \in Conns : conn[j].m_session \in SessionIds \cup {NoSession}
    BY <1>3 DEF ConnType
  <2>2. \A j \in Conns : conn[j].m_session # s
    BY <1>1, <1>9 DEF Inv, Answered
  <2>3. session'[s].socket = k /\ session'[s].status = "live"
    BY <1>5 DEF Unborn
  <2>4. ASSUME NEW j \in Conns \ {k}
        PROVE  /\ Live(conn[j].m_session)' <=> Live(conn[j].m_session)
               /\ conn'[j] = conn[j]
               /\ conn[j].m_session # NoSession => session'[conn[j].m_session] = session[conn[j].m_session]
    BY <1>5, <1>6, <1>9, <2>1, <2>2 DEF Live
  <2>5. Live(conn[k].m_session)'
    BY <1>6, <1>9, <2>3 DEF Live
  <2>6. ASSUME NEW j \in Conns, j # k
        PROVE  /\ conn'[j].m_session # NoSession => session'[conn'[j].m_session].status # "unborn"
               /\ conn'[j].pc = "waiting" /\ Live(conn[j].m_session)' =>
                    j \in {session'[conn'[j].m_session].request, session'[conn'[j].m_session].socket}
               /\ conn'[j].open /\ conn'[j].pc \in {"authed", "queueing"} =>
                    Live(conn[j].m_session)' /\ session'[conn'[j].m_session].socket = j
    BY <2>4, <2>6 DEF Inv, Answered, Live
  <2> QED  BY <1>6, <2>3, <2>5, <2>6 DEF Answered
<1>13. Players'
  <2>1. entry # s /\ session'[s].player = FALSE /\ session'[s].logoutTime = "none"
    BY <1>5, <1>9 DEF Inv, Places, Unborn
  <2>2. entry # NoSession => session'[entry] = session[entry]
    BY <1>3, <1>5, <2>1
  <2>3. entry # NoSession => players >= PlayersOf(session'[entry])
    BY <2>2 DEF Inv, Players
  <2> QED  BY <1>2, <1>5, <2>1, <2>3 DEF Inv, Players
<1>14. Bounded'
  <2>1. ASSUME NEW t \in SessionIds PROVE session'[t].recvQueue = session[t].recvQueue
    <3>1. CASE t = s
      BY <1>4, <1>5, <3>1 DEF Unborn
    <3>2. CASE t # s
      BY <1>5, <3>2
    <3> QED  BY <3>1, <3>2
  <2>2. holders' \in 0..holders
    BY <1>2, TypeDef DEF Inv, Types
  <2> QED  BY <2>1, <2>2, BoundKeeps
<1> QED  BY <1>7, <1>8, <1>10, <1>11, <1>12, <1>13, <1>14, TypeDefNext DEF Inv


-----------------------------------------------------------------------------
(* Steps that change one session. *)

LEMMA OneSession ==
    ASSUME Inv, NEW s \in SessionIds, Live(s),
           NEW r \in SessionType, session' = [session EXCEPT ![s] = r], r.status = "live",
           r.player => s = entry, ~r.player => r.logoutTime = "none",
           UNCHANGED <<entry, m_sessionAddQueue>>,
           updating' \in {NoSession, entry}, removing' \in {NoSession, entry},
           removing' # NoSession => updating' = NoSession,
           tick' \in {"sessions", "maps", "inMap"}, crashed' \in BOOLEAN,
           conn' \in [Conns -> ConnType], players' \in Nat, holders' \in Nat,
           entry # NoSession => players' >= PlayersOf(session'[entry]),
           Matched', Answered', Bounded'
    PROVE  Inv'
<1>1. /\ session \in [SessionIds -> SessionType] /\ entry \in SessionIds \cup {NoSession}
      /\ m_sessionAddQueue \in Seq(SessionIds) /\ MaxHolders \in Nat
  BY TypeDef, BoundsAssumption DEF Inv, Types
<1>2. /\ session'[s] = r /\ \A t \in SessionIds \ {s} : session'[t] = session[t]
      /\ session' \in [SessionIds -> SessionType]
  BY <1>1
<1>3. holders' \in 0..MaxHolders
  <2>1. LoginsWaiting' \in Nat
    BY LoginsFinite
  <2>2. holders' + LoginsWaiting' <= MaxHolders
    BY DEF Bounded
  <2>3. \A a, b, c \in Nat : a + b <= c => a \in 0..c
    OBVIOUS
  <2> QED  BY <1>1, <2>1, <2>2, <2>3
<1>4. Types'
  BY <1>1, <1>2, <1>3 DEF Types
<1>5. \A t \in SessionIds : session'[t].status = session[t].status
  BY <1>2 DEF Live
<1>6. Born'
  BY <1>2, <1>5, BornKeeps DEF Live
<1>7. Places'
  BY <1>5, PlacesKeep
<1>8. Players'
  BY <1>2 DEF Inv, Players
<1> QED  BY <1>4, <1>6, <1>7, <1>8, TypeDefNext DEF Inv

\* And whose sockets stay as they are.
LEMMA SameSockets ==
    ASSUME Inv, NEW s \in SessionIds, Live(s),
           NEW r \in SessionType, session' = [session EXCEPT ![s] = r], r.status = "live",
           r.socket = session[s].socket, r.request = session[s].request,
           r.state = session[s].state \/ r.request = NoConn,
           \/ UNCHANGED conn
           \/ \E k \in Conns : conn' = [conn EXCEPT ![k].open = FALSE]
           \/ \E k \in Conns : conn[k].pc = "queueing" /\ conn' = [conn EXCEPT ![k].pc = "authed"]
    PROVE  Matched' /\ Answered' /\ conn' \in [Conns -> ConnType]
<1>1. session \in [SessionIds -> SessionType] /\ conn \in [Conns -> ConnType]
  BY TypeDef DEF Inv, Types
<1>2. session'[s] = r /\ \A t \in SessionIds \ {s} : session'[t] = session[t]
  BY <1>1
<1>3. /\ conn' \in [Conns -> ConnType]
      /\ \A j \in Conns :
           /\ conn'[j].m_session = conn[j].m_session
           /\ conn'[j].open => conn[j].open
           /\ \/ conn'[j].pc = conn[j].pc
              \/ conn[j].pc \in {"authed", "queueing"} /\ conn'[j].pc \in {"authed", "queueing", "closed"}
  <2>1. CASE UNCHANGED conn
    BY <1>1, <2>1
  <2>2. ASSUME NEW k \in Conns, conn' = [conn EXCEPT ![k].open = FALSE]
        PROVE  <1>3
    BY <1>1, <2>2, ClosedType
  <2>3. ASSUME NEW k \in Conns, conn[k].pc = "queueing", conn' = [conn EXCEPT ![k].pc = "authed"]
        PROVE  <1>3
    BY <1>1, <2>3 DEF ConnType, Positions
  <2> QED  BY <2>1, <2>2, <2>3
<1>4. Pairing
  BY <1>2, <1>3 DEF Pairing, Live
<1> QED  BY <1>3, <1>4, PairingKeeps

-----------------------------------------------------------------------------
(* The calls of a network thread under the session's lock. *)

\* A second request finds the first; the first makes the session CREATED.
LEMMA RequestInv == ASSUME Inv, NEW k \in Conns, RequestNewSocket(k) PROVE Inv'
<1> DEFINE s == conn[k].m_session
<1>1. conn \in [Conns -> ConnType] /\ session \in [SessionIds -> SessionType] /\ crashed \in BOOLEAN
      /\ players \in Nat /\ holders \in Nat /\ MaxHolders \in Nat
  BY TypeDef, BoundsAssumption DEF Inv, Types
<1>2. conn[k].pc = "request" /\ UNCHANGED <<world, holders, players>>
  BY DEF RequestNewSocket
<1>3. CASE ~Live(s)
  <2>1. UNCHANGED <<session, conn>> /\ crashed' = TRUE
    BY <1>3 DEF RequestNewSocket
  <2>2. Pairing
    BY <2>1 DEF Pairing
  <2> QED  BY <1>1, <1>2, <2>1, <2>2, PairingKeeps, SocketStep
<1>4. ASSUME Live(s), session[s].request = NoConn
      PROVE  Inv'
  <2> DEFINE r == [session[s] EXCEPT !.request = k, !.state = "CREATED"]
  <2>1. /\ s \in SessionIds /\ UNCHANGED crashed
        /\ session' = [session EXCEPT ![s].request = k, ![s].state = "CREATED"]
        /\ conn' = [conn EXCEPT ![k].pc = "waiting"]
    BY <1>1, <1>4 DEF RequestNewSocket, ConnType, Live
  <2>2. /\ r \in SessionType /\ r.status = session[s].status /\ r.player = session[s].player
        /\ r.logoutTime = session[s].logoutTime /\ r.recvQueue = session[s].recvQueue
        /\ r.socket = session[s].socket /\ r.request = k /\ r.state = "CREATED"
    BY <1>1, <2>1, RequestedType
  <2> HIDE DEF r
  <2>3. /\ session' = [session EXCEPT ![s] = r] /\ session'[s] = r
        /\ \A t \in SessionIds \ {s} : session'[t] = session[t]
    BY <1>1, <2>1 DEF r, SessionType
  <2>4. /\ conn' \in [Conns -> ConnType] /\ \A j \in Conns \ {k} : conn'[j] = conn[j]
        /\ conn'[k].pc = "waiting" /\ conn'[k].m_session = s
    BY <1>1, <2>1 DEF ConnType, Positions
  <2>5. \A t \in SessionIds : session[t].socket \in Conns \cup {NoConn}
                           /\ session[t].request \in Conns \cup {NoConn}
    BY <1>1 DEF SessionType
  <2>6. \A t \in SessionIds : Live(t)' <=> Live(t)
    BY <2>2, <2>3 DEF Live
  <2>7. ASSUME NEW t \in SessionIds, Live(t)
        PROVE  session[t].socket # k /\ session[t].request # k
    BY <1>2, <2>7, Ids DEF Inv, Matched
  <2>8. Matched'
    <3>1. ASSUME NEW t \in SessionIds \ {s}, Live(t)
          PROVE  /\ session'[t] = session[t]
                 /\ session[t].socket # NoConn => conn'[session[t].socket] = conn[session[t].socket]
                 /\ session[t].request # NoConn => conn'[session[t].request] = conn[session[t].request]
      BY <2>3, <2>4, <2>5, <2>7, <3>1
    <3>2. session[s].socket # NoConn => conn'[session[s].socket] = conn[session[s].socket]
      BY <1>4, <2>1, <2>4, <2>5, <2>7
    <3>3. ASSUME NEW t \in SessionIds, Live(t), t # s
          PROVE  /\ session'[t].socket # NoConn =>
                      /\ conn'[session'[t].socket].m_session = t
                      /\ conn'[session'[t].socket].pc \in {"waiting", "authed", "queueing", "closed"}
                 /\ session'[t].request # NoConn =>
                      /\ conn'[session'[t].request].m_session = t
                      /\ conn'[session'[t].request].pc \in {"waiting", "closed"}
                      /\ session'[t].request # session'[t].socket
                      /\ session'[t].state = "CREATED"
      BY <3>1, <3>3 DEF Inv, Matched
    <3>4. session'[s].socket # NoConn =>
              /\ conn'[session'[s].socket].m_session = s
              /\ conn'[session'[s].socket].pc \in {"waiting", "authed", "queueing", "closed"}
      <4>1. session'[s].socket = session[s].socket
        BY <2>2, <2>3
      <4>2. session[s].socket # NoConn =>
              /\ conn[session[s].socket].m_session = s
              /\ conn[session[s].socket].pc \in {"waiting", "authed", "queueing", "closed"}
        BY <1>4, <2>1 DEF Inv, Matched
      <4> QED  BY <3>2, <4>1, <4>2
    <3>5. /\ conn'[session'[s].request].m_session = s /\ conn'[session'[s].request].pc = "waiting"
          /\ session'[s].request # session'[s].socket /\ session'[s].state = "CREATED"
      BY <1>4, <2>1, <2>2, <2>3, <2>4, <2>7
    <3> HIDE DEF s
    <3>6. \A t \in SessionIds : Live(t)' =>
              /\ session'[t].socket # NoConn =>
                   /\ conn'[session'[t].socket].m_session = t
                   /\ conn'[session'[t].socket].pc \in {"waiting", "authed", "queueing", "closed"}
              /\ session'[t].request # NoConn =>
                   /\ conn'[session'[t].request].m_session = t
                   /\ conn'[session'[t].request].pc \in {"waiting", "closed"}
                   /\ session'[t].request # session'[t].socket
                   /\ session'[t].state = "CREATED"
      <4> TAKE t \in SessionIds
      <4>1. CASE t = s
        BY <3>4, <3>5, <4>1
      <4>2. CASE t # s
        BY <2>6, <3>3, <4>2
      <4> QED  BY <4>1, <4>2
    <3> QED  BY <3>6 DEF Matched
  <2>9. Answered'
    <3>1. \A j \in Conns : conn'[j].m_session = conn[j].m_session
      BY <2>4
    <3>2. \A j \in Conns : Live(conn[j].m_session)' <=> Live(conn[j].m_session)
      BY <1>1, <2>6, <3>1 DEF Live, ConnType
    <3>3. ASSUME NEW j \in Conns, conn'[j].m_session # NoSession
          PROVE  session'[conn'[j].m_session].status # "unborn"
      <4>1. conn[j].m_session \in SessionIds /\ session[conn[j].m_session].status # "unborn"
        BY <1>1, <3>1, <3>3 DEF Inv, Answered, ConnType
      <4> QED  BY <2>2, <2>3, <3>1, <4>1
    <3>4. ASSUME NEW j \in Conns, conn'[j].pc = "waiting", Live(conn[j].m_session)'
          PROVE  j \in {session'[conn'[j].m_session].request, session'[conn'[j].m_session].socket}
      <4>1. CASE j = k
        BY <2>2, <2>3, <2>4, <4>1
      <4>2. CASE j # k
        <5>1. /\ conn[j].m_session \in SessionIds
              /\ j \in {session[conn[j].m_session].request, session[conn[j].m_session].socket}
          BY <1>1, <2>4, <3>2, <3>4, <4>2 DEF Inv, Answered, ConnType, Live
        <5> QED  BY <1>4, <2>2, <2>3, <3>1, <5>1, Ids
      <4> QED  BY <4>1, <4>2
    <3>5. ASSUME NEW j \in Conns, conn'[j].open, conn'[j].pc \in {"authed", "queueing"}
          PROVE  Live(conn[j].m_session)' /\ session'[conn'[j].m_session].socket = j
      <4>1. j # k /\ Live(conn[j].m_session) /\ session[conn[j].m_session].socket = j
            /\ conn[j].m_session \in SessionIds
        BY <1>1, <2>4, <3>5 DEF Inv, Answered, ConnType, Live
      <4> QED  BY <2>2, <2>3, <3>1, <3>2, <4>1
    <3> QED  BY <3>3, <3>4, <3>5 DEF Answered
  <2>10. Bounded'
    <3>1. \A t \in SessionIds : session'[t].recvQueue = session[t].recvQueue
      BY <2>2, <2>3
    <3> QED  BY <1>1, <1>2, <3>1, BoundKeeps
  <2>11. /\ r.player => s = entry
         /\ ~r.player => r.logoutTime = "none"
         /\ entry # NoSession => players' >= PlayersOf(session'[entry])
    <3>1. entry # NoSession => PlayersOf(session'[entry]) = PlayersOf(session[entry])
      <4>1. CASE entry = s
        BY <2>1, <2>2, <2>3, <4>1 DEF PlayersOf
      <4>2. CASE entry # s
        BY <2>3, <4>2, TypeDef DEF Inv, Types
      <4> QED  BY <4>1, <4>2
    <3> QED  BY <1>2, <2>1, <2>2, <3>1 DEF Inv, Players
  <2>12. UNCHANGED <<entry, m_sessionAddQueue, tick, updating, removing>>
    BY <1>2 DEF world
  <2>13. /\ updating' \in {NoSession, entry} /\ removing' \in {NoSession, entry}
         /\ (removing' # NoSession => updating' = NoSession)
         /\ tick' \in {"sessions", "maps", "inMap"} /\ players' \in Nat /\ holders' \in Nat
         /\ crashed' \in BOOLEAN /\ r.status = "live"
    <3>1. Places /\ Types
      BY TypeDef DEF Inv
    <3>2. players' = players /\ holders' = holders /\ crashed' = crashed
      BY <1>2, <2>1
    <3>3. r.status = "live"
      BY <1>4, <2>2 DEF Live
    <3>4. /\ updating \in {NoSession, entry} /\ removing \in {NoSession, entry}
          /\ (removing # NoSession => updating = NoSession)
      BY <3>1 DEF Places
    <3>5. /\ tick \in {"sessions", "maps", "inMap"} /\ players \in Nat /\ holders \in Nat
          /\ crashed \in BOOLEAN
      BY <1>1, <3>1 DEF Types
    <3> QED  BY <2>12, <3>2, <3>3, <3>4, <3>5
  <2>14. s \in SessionIds /\ Live(s) /\ r \in SessionType /\ session' = [session EXCEPT ![s] = r]
    BY <1>4, <2>1, <2>2, <2>3
  <2>15. crashed' \in BOOLEAN /\ conn' \in [Conns -> ConnType] /\ players' \in Nat /\ holders' \in Nat
    BY <2>4, <2>13
  <2> HIDE DEF s, r
  <2> QED  BY <2>8, <2>9, <2>10, <2>11, <2>12, <2>13, <2>14, <2>15, OneSession
<1>5. ASSUME Live(s), session[s].request # NoConn
      PROVE  Inv'
  <2>1. /\ UNCHANGED <<session, crashed>>
        /\ conn' = [conn EXCEPT ![k].open = FALSE, ![k].pc = "closed"]
    BY <1>5 DEF RequestNewSocket
  <2>2. /\ conn' \in [Conns -> ConnType] /\ \A j \in Conns \ {k} : conn'[j] = conn[j]
        /\ conn'[k].pc = "closed" /\ conn'[k].m_session = s
    BY <1>1, <2>1 DEF ConnType, Positions
  <2>3. \A t \in SessionIds : /\ session[t].socket \in Conns \cup {NoConn}
                            /\ session[t].request \in Conns \cup {NoConn}
                            /\ Live(t)' <=> Live(t)
    BY <1>1, <2>1 DEF SessionType, Live
  <2>4. ASSUME NEW t \in SessionIds, Live(t)
        PROVE  session[t].socket # k /\ session[t].request # k
    BY <1>2, <2>4, Ids DEF Inv, Matched
  <2>5. Matched'
    <3>1. ASSUME NEW t \in SessionIds, Live(t)
          PROVE  /\ session[t].socket # NoConn => conn'[session[t].socket] = conn[session[t].socket]
                 /\ session[t].request # NoConn => conn'[session[t].request] = conn[session[t].request]
      BY <2>2, <2>3, <2>4, <3>1
    <3>2. ASSUME NEW t \in SessionIds, Live(t)'
          PROVE  /\ session'[t].socket # NoConn =>
                      /\ conn'[session'[t].socket].m_session = t
                      /\ conn'[session'[t].socket].pc \in {"waiting", "authed", "queueing", "closed"}
                 /\ session'[t].request # NoConn =>
                      /\ conn'[session'[t].request].m_session = t
                      /\ conn'[session'[t].request].pc \in {"waiting", "closed"}
                      /\ session'[t].request # session'[t].socket
                      /\ session'[t].state = "CREATED"
      <4>0. session' = session
        BY <2>1
      <4>1. Live(t) /\ session'[t] = session[t]
        BY <3>2, <4>0 DEF Live
      <4>2. /\ session[t].socket # NoConn =>
                 /\ conn[session[t].socket].m_session = t
                 /\ conn[session[t].socket].pc \in {"waiting", "authed", "queueing", "closed"}
            /\ session[t].request # NoConn =>
                 /\ conn[session[t].request].m_session = t
                 /\ conn[session[t].request].pc \in {"waiting", "closed"}
                 /\ session[t].request # session[t].socket
                 /\ session[t].state = "CREATED"
        BY <4>1 DEF Inv, Matched
      <4> QED  BY <3>1, <4>1, <4>2
    <3> QED  BY <3>2 DEF Matched
  <2>6. Answered'
    <3>1. \A j \in Conns : conn'[j].m_session = conn[j].m_session
      BY <2>2
    <3>2. \A j \in Conns : Live(conn[j].m_session)' <=> Live(conn[j].m_session)
      BY <2>1, <3>1 DEF Live
    <3> QED  BY <2>1, <2>2, <3>1, <3>2 DEF Inv, Answered
  <2> QED  BY <1>1, <1>2, <2>1, <2>2, <2>5, <2>6, SocketStep
<1> QED  BY <1>3, <1>4, <1>5

LEMMA QueueInv == ASSUME Inv, NEW k \in Conns, QueuePacket(k) PROVE Inv'
<1> DEFINE s == conn[k].m_session
<1>1. conn \in [Conns -> ConnType] /\ session \in [SessionIds -> SessionType] /\ crashed \in BOOLEAN
      /\ players \in Nat /\ holders \in Nat /\ MaxHolders \in Nat
  BY TypeDef, BoundsAssumption DEF Inv, Types
<1>2. conn[k].pc = "queueing" /\ UNCHANGED <<world, holders, players>>
  BY DEF QueuePacket
<1>3. CASE ~Live(s)
  <2>1. UNCHANGED <<session, conn>> /\ crashed' = TRUE
    BY <1>3 DEF QueuePacket
  <2>2. Pairing
    BY <2>1 DEF Pairing
  <2> QED  BY <1>1, <1>2, <2>1, <2>2, PairingKeeps, SocketStep
<1>4. ASSUME Live(s)
      PROVE  Inv'
  <2>1. /\ s \in SessionIds /\ UNCHANGED crashed
        /\ Len(session[s].recvQueue) < MaxQueued
        /\ conn' = [conn EXCEPT ![k].pc = "authed"]
    <3>1. s \in SessionIds
      BY <1>1, <1>4 DEF ConnType, Live
    <3> QED  BY <1>4, <3>1 DEF QueuePacket
  <2>2. PICK kind \in PacketKinds :
          /\ kind = "login" => holders + LoginsWaiting < MaxHolders
          /\ session' = [session EXCEPT ![s].recvQueue = Append(@, kind)]
    BY <1>4 DEF QueuePacket
  <2> DEFINE q == session[s].recvQueue
             r == [session[s] EXCEPT !.recvQueue = Append(q, kind)]
  <2>3. q \in Seq(PacketKinds) /\ Append(q, kind) \in Seq(PacketKinds) /\ Len(Append(q, kind)) = Len(q) + 1
    BY <1>1, <2>1 DEF SessionType
  <2>4. /\ r \in SessionType /\ r.status = session[s].status /\ r.player = session[s].player
        /\ r.logoutTime = session[s].logoutTime /\ r.recvQueue = Append(q, kind)
        /\ r.socket = session[s].socket /\ r.request = session[s].request /\ r.state = session[s].state
    <3>1. session[s] \in SessionType
      BY <1>1, <2>1
    <3> HIDE DEF s
    <3> QED  BY <2>3, <3>1, QueuedType DEF q
  <2>5. session' = [session EXCEPT ![s] = r] /\ session'[s] = r
        /\ \A t \in SessionIds \ {s} : session'[t] = session[t]
    <3>1. session \in [SessionIds -> SessionType] /\ s \in SessionIds
      BY <1>1, <2>1
    <3>2. r = [session[s] EXCEPT !.recvQueue = Append(session[s].recvQueue, kind)]
      OBVIOUS
    <3> HIDE DEF r, q
    <3>3. session' = [session EXCEPT ![s] = [session[s] EXCEPT !.recvQueue = Append(session[s].recvQueue, kind)]]
      BY <2>2
    <3>4. session' = [session EXCEPT ![s] = r]
      BY <3>2, <3>3
    <3> HIDE DEF s
    <3> QED  BY <3>1, <3>4
  <2> HIDE DEF r, q
  <2>6. r.status = "live"
    BY <1>4, <2>4 DEF Live
  <2>7. Matched' /\ Answered' /\ conn' \in [Conns -> ConnType]
    BY <1>2, <1>4, <2>1, <2>4, <2>5, <2>6, SameSockets
  <2>8. Bounded'
    <3>1. LoginsWaiting' <= LoginsWaiting + (IF kind = "login" THEN 1 ELSE 0)
      BY <2>1, <2>2, LoginsGrow DEF Inv
    <3>2. LoginsWaiting \in Nat /\ LoginsWaiting' \in Nat
      BY LoginsFinite
    <3>3. holders' = holders /\ holders + LoginsWaiting <= MaxHolders
      BY <1>2 DEF Inv, Bounded
    <3>4. \A a, b, h, m \in Nat : a <= b + 1 /\ h + b < m => h + a <= m
      OBVIOUS
    <3>5. \A a, b, h, m \in Nat : a <= b + 0 /\ h + b <= m => h + a <= m
      OBVIOUS
    <3>6. holders' + LoginsWaiting' <= MaxHolders
      <4>1. CASE kind = "login"
        BY <1>1, <2>2, <3>1, <3>2, <3>3, <3>4, <4>1
      <4>2. CASE kind # "login"
        BY <1>1, <3>1, <3>2, <3>3, <3>5, <4>2
      <4> QED  BY <4>1, <4>2
    <3>7. ASSUME NEW t \in SessionIds PROVE Len(session'[t].recvQueue) <= MaxQueued
      <4>1. CASE t = s
        <5>1. Len(q) \in Nat /\ Len(q) < MaxQueued /\ MaxQueued \in Nat
          BY <2>1, <2>3, BoundsAssumption DEF q
        <5> QED  BY <2>3, <2>4, <2>5, <4>1, <5>1
      <4>2. CASE t # s
        BY <2>5, <4>2 DEF Inv, Bounded
      <4> QED  BY <4>1, <4>2
    <3> QED  BY <3>6, <3>7 DEF Bounded
  <2>9. /\ r.player => s = entry
        /\ ~r.player => r.logoutTime = "none"
        /\ entry # NoSession => players' >= PlayersOf(session'[entry])
    <3>1. entry # NoSession => PlayersOf(session'[entry]) = PlayersOf(session[entry])
      <4>1. CASE entry = s
        BY <2>1, <2>4, <2>5, <4>1 DEF PlayersOf
      <4>2. CASE entry # s
        BY <2>5, <4>2, TypeDef DEF Inv, Types
      <4> QED  BY <4>1, <4>2
    <3> QED  BY <1>2, <2>1, <2>4, <3>1 DEF Inv, Players
  <2>10. UNCHANGED <<entry, m_sessionAddQueue, tick, updating, removing>>
    BY <1>2 DEF world
  <2>11. /\ updating' \in {NoSession, entry} /\ removing' \in {NoSession, entry}
         /\ (removing' # NoSession => updating' = NoSession)
         /\ tick' \in {"sessions", "maps", "inMap"} /\ players' \in Nat /\ holders' \in Nat
         /\ crashed' \in BOOLEAN
    BY <1>1, <1>2, <2>1, <2>10, TypeDef DEF Inv, Places, Types
  <2> QED
    BY <1>4, <2>1, <2>4, <2>5, <2>6, <2>7, <2>8, <2>9, <2>10, <2>11, OneSession
<1> QED  BY <1>3, <1>4

-----------------------------------------------------------------------------
(* The world thread. *)

\* The account's session is one that was to be added, or the one it has already.
LEMMA AddInv == ASSUME Inv, AddSessions PROVE Inv'
<1> USE DEF AddSessions
<1>1. /\ entry \in SessionIds \cup {NoSession} /\ m_sessionAddQueue \in Seq(SessionIds)
      /\ m_sessionAddQueue # <<>> /\ session \in [SessionIds -> SessionType] /\ players \in Nat
  BY TypeDef DEF Inv, Types
<1>2. /\ Head(m_sessionAddQueue) = m_sessionAddQueue[1] /\ 1 \in 1..Len(m_sessionAddQueue)
      /\ Head(m_sessionAddQueue) \in SessionIds
  BY <1>1, EmptySeq
<1>3. Live(Head(m_sessionAddQueue)) /\ Head(m_sessionAddQueue) # entry
  BY <1>2 DEF Inv, Places
<1>4. entry' \in SessionIds \cup {NoSession} /\ m_sessionAddQueue' \in Seq(SessionIds)
      /\ Len(m_sessionAddQueue') = 0
  BY <1>1, <1>2, EmptySeq
<1>5. Types'
  BY <1>4, TypeDef DEF Inv, Types
<1>6. Born' /\ Matched' /\ Answered' /\ Bounded'
  BY LoginsSame DEF Inv, Born, Matched, Answered, Bounded, Live
<1>7. entry' # NoSession => session[entry'].status = "live"
  BY <1>3 DEF Inv, Places, Live
<1>8. Places'
  BY <1>4, <1>7 DEF Inv, Places, Idle, Live
<1>9. Players'
  <2>1. \A s \in SessionIds : session[s].player => entry # NoSession
    BY Ids DEF Inv, Players
  <2>2. CASE entry # NoSession
    BY <2>2 DEF Inv, Players
  <2>3. CASE entry = NoSession
    <3>1. \A s \in SessionIds : ~session[s].player
      BY <2>1, <2>3
    <3>2. PlayersOf(session[entry']) = 0
      BY <1>2, <2>3, <3>1 DEF PlayersOf
    <3> QED  BY <1>1, <3>1, <3>2 DEF Inv, Players
  <2> QED  BY <2>2, <2>3
<1> QED  BY <1>5, <1>6, <1>8, <1>9, TypeDefNext DEF Inv

LEMMA TakeUpInv == ASSUME Inv, BeginUpdate \/ BeginMapUpdate \/ EndMapUpdate PROVE Inv'
<1>1. /\ UNCHANGED <<session, conn, entry, m_sessionAddQueue, players, removing, holders, crashed>>
      /\ tick' \in {"sessions", "maps", "inMap"} /\ updating' \in {NoSession, entry}
      /\ removing # NoSession => updating' = NoSession
  BY DEF BeginUpdate, BeginMapUpdate, EndMapUpdate, Idle
<1>2. removing \in {NoSession, entry} /\ crashed \in BOOLEAN /\ holders \in 0..holders
  BY TypeDef, BoundsAssumption DEF Inv, Places, Types
<1> QED  BY <1>1, <1>2, NothingElse

\* A step of the account's session.
LEMMA EntryStep ==
    ASSUME Inv, entry # NoSession, NEW r \in SessionType, session' = [session EXCEPT ![entry] = r],
           r.status = session[entry].status, r.socket = session[entry].socket,
           r.request = session[entry].request,
           r.state = session[entry].state \/ r.request = NoConn,
           ~r.player => r.logoutTime = "none", players' \in Nat, players' >= PlayersOf(r),
           UNCHANGED <<entry, m_sessionAddQueue>>,
           updating' \in {NoSession, entry}, removing' \in {NoSession, entry},
           removing' # NoSession => updating' = NoSession,
           tick' \in {"sessions", "maps", "inMap"}, crashed' \in BOOLEAN,
           \/ UNCHANGED conn
           \/ \E k \in Conns : conn' = [conn EXCEPT ![k].open = FALSE],
           holders' \in Nat, Bounded'
    PROVE  Inv'
<1>1. entry \in SessionIds /\ Live(entry) /\ session \in [SessionIds -> SessionType]
  BY TypeDef DEF Inv, Types, Places
<1>2. r.status = "live" /\ session'[entry] = r
  BY <1>1 DEF Live
<1>3. Matched' /\ Answered' /\ conn' \in [Conns -> ConnType]
  BY <1>1, <1>2, SameSockets
<1> QED  BY <1>1, <1>2, <1>3, OneSession

\* What a packet may make of the session that takes it up as r.
Handled(r, r2) ==
    /\ r2 \in SessionType
    /\ r2.status = r.status /\ r2.state = r.state /\ r2.recvQueue = r.recvQueue
    /\ r2.socket = r.socket /\ r2.request = r.request
    /\ r2.player => r.player
    /\ ~r2.player => r2.logoutTime = "none"
    /\ r2.entered /\ ~r2.asked /\ r2.logoutTime # "none"
         => r.entered /\ ~r.asked /\ r.logoutTime # "none"

LEMMA HandledRecords ==
    ASSUME NEW r \in SessionType, ~r.player => r.logoutTime = "none"
    PROVE  /\ Handled(r, r)
           /\ Handled(r, Left(r)) /\ PlayersOf(Left(r)) = 0
           /\ Handled(r, LogoutRequest([r EXCEPT !.asked = FALSE], "none"))
           /\ Handled(r, LogoutRequest([r EXCEPT !.entered = TRUE, !.asked = FALSE], "none"))
           /\ r.player => Handled(r, LogoutRequest([r EXCEPT !.asked = TRUE], "recent"))
           /\ \A r2 : Handled(r, r2) => PlayersOf(r2) <= PlayersOf(r)
<1> USE DEF SessionType, LogoutTimes
<1>1. Handled(r, r)
  BY DEF Handled
<1>2. Handled(r, Left(r)) /\ PlayersOf(Left(r)) = 0
  BY DEF Handled, Left, LogoutRequest, PlayersOf
<1>3. Handled(r, LogoutRequest([r EXCEPT !.asked = FALSE], "none"))
  BY DEF Handled, LogoutRequest
<1>4. Handled(r, LogoutRequest([r EXCEPT !.entered = TRUE, !.asked = FALSE], "none"))
  BY DEF Handled, LogoutRequest
<1>5. r.player => Handled(r, LogoutRequest([r EXCEPT !.asked = TRUE], "recent"))
  BY DEF Handled, LogoutRequest
<1>6. \A r2 : Handled(r, r2) => PlayersOf(r2) <= PlayersOf(r)
  BY DEF Handled, PlayersOf
<1> QED  BY <1>1, <1>2, <1>3, <1>4, <1>5, <1>6

\* A packet: one login less waits, and one more may be in flight, if there is no player.
LEMMA PacketEffect ==
    ASSUME Inv, ProcessPacket
    PROVE  LET q == session[entry].recvQueue
               r == [session[entry] EXCEPT !.recvQueue = Tail(q)]
           IN  /\ entry \in SessionIds /\ updating = entry /\ q \in Seq(PacketKinds) /\ q # <<>>
               /\ \E r2 : /\ Handled(r, r2) /\ session' = [session EXCEPT ![entry] = r2]
                          /\ players' \in Nat /\ players' >= PlayersOf(r2)
                          /\ \/ holders' = holders
                             \/ holders' = holders + 1 /\ Head(q) = "login" /\ ~r2.player
               /\ UNCHANGED <<conn, world, crashed>>
<1> DEFINE q == session[entry].recvQueue
           r == [session[entry] EXCEPT !.recvQueue = Tail(q)]
<1>1. /\ updating = entry /\ entry \in SessionIds /\ entry # NoSession
      /\ session[entry] \in SessionType /\ players \in Nat /\ holders \in Nat
  BY TypeDef, BoundsAssumption DEF Inv, Places, Types, ProcessPacket
<1>2. q \in Seq(PacketKinds) /\ q # <<>> /\ Tail(q) \in Seq(PacketKinds)
      /\ Head(q) \in PacketKinds
  <2>1. q \in Seq(PacketKinds) /\ q # <<>>
    BY <1>1 DEF SessionType, ProcessPacket
  <2> QED  BY <2>1, HeadTailProperties
<1>3. r \in SessionType /\ (~r.player => r.logoutTime = "none") /\ players >= PlayersOf(r)
      /\ PlayersOf(r) \in {0, 1}
  <2>1. r \in SessionType /\ r.player = session[entry].player
        /\ r.logoutTime = session[entry].logoutTime
    BY <1>1, <1>2 DEF SessionType
  <2> QED  BY <1>1, <2>1, RecordTypes DEF Inv, Players, PlayersOf
<1>4. /\ \/ Head(q) = "login" /\ HandlePlayerLoginOpcode(entry, r)
         \/ HandleLogoutRequestOpcode(entry, r)
         \/ HandleLogoutCancelOpcode(entry, r)
      /\ UNCHANGED <<conn, world, crashed>>
  BY <1>1, <1>2
     DEF ProcessPacket, PacketKinds, HandlePlayerLoginOpcode, HandleLogoutRequestOpcode,
         HandleLogoutCancelOpcode
<1> HIDE DEF r, q
<1> DEFINE Effect(r2) == /\ Handled(r, r2) /\ session' = [session EXCEPT ![entry] = r2]
                         /\ players' \in Nat /\ players' >= PlayersOf(r2)
                         /\ \/ holders' = holders
                            \/ holders' = holders + 1 /\ Head(q) = "login" /\ ~r2.player
<1>5. \A r2 : Handled(r, r2) => PlayersOf(r2) \in {0, 1} /\ PlayersOf(r2) <= PlayersOf(r)
  BY <1>3, HandledRecords DEF PlayersOf
<1>6. \A r2 : /\ Handled(r, r2) /\ session' = [session EXCEPT ![entry] = r2]
              /\ UNCHANGED <<players, holders>>
              => Effect(r2)
  <2>1. \A a, b, c \in Nat : a <= b /\ b <= c => c >= a
    OBVIOUS
  <2> QED  BY <1>1, <1>3, <1>5, <2>1
<1>7. \E r2 : Effect(r2)
  <2>1. CASE Head(q) = "login" /\ HandlePlayerLoginOpcode(entry, r)
    <3>1. CASE r.player
      <4>1. CASE r.logoutTime # "none"
        BY <1>3, <1>6, <2>1, <3>1, <4>1, HandledRecords DEF HandlePlayerLoginOpcode, HandlePlayerReconnect
      <4>2. CASE r.logoutTime = "none"
        BY <1>3, <1>6, <2>1, <3>1, <4>2, HandledRecords DEF HandlePlayerLoginOpcode
      <4> QED  BY <4>1, <4>2
    <3>2. CASE ~r.player
      <4>1. session' = [session EXCEPT ![entry] = r] /\ holders' = holders + 1 /\ players' = players
        BY <2>1, <3>2 DEF HandlePlayerLoginOpcode
      <4>2. Effect(r)
        BY <1>1, <1>3, <2>1, <3>2, <4>1, HandledRecords
      <4> QED  BY <4>2
    <3> QED  BY <3>1, <3>2
  <2>2. CASE HandleLogoutRequestOpcode(entry, r)
    <3>1. CASE LogoutPlayer(entry, r) /\ r.player
      <4>1. session' = [session EXCEPT ![entry] = Left(r)] /\ players' = players - PlayersOf(r)
            /\ UNCHANGED holders
        BY <2>2, <3>1 DEF LogoutPlayer, HandleLogoutRequestOpcode
      <4>2. players - PlayersOf(r) \in Nat /\ players - PlayersOf(r) >= 0
        BY <1>1, <1>3
      <4>3. Handled(r, Left(r)) /\ PlayersOf(Left(r)) = 0
        BY <1>3, HandledRecords
      <4>4. Effect(Left(r))
        BY <4>1, <4>2, <4>3
      <4> QED  BY <4>4
    <3>2. CASE ~r.player \/ ~LogoutPlayer(entry, r)
      BY <1>3, <1>6, <2>2, <3>2, HandledRecords DEF HandleLogoutRequestOpcode
    <3> QED  BY <3>1, <3>2
  <2>3. CASE HandleLogoutCancelOpcode(entry, r)
    BY <1>3, <1>6, <2>3, HandledRecords DEF HandleLogoutCancelOpcode
  <2> QED  BY <1>4, <2>1, <2>2, <2>3
<1> QED  BY <1>1, <1>2, <1>4, <1>7 DEF r, q

LEMMA PacketInv == ASSUME Inv, ProcessPacket PROVE Inv'
<1> DEFINE q == session[entry].recvQueue
           r == [session[entry] EXCEPT !.recvQueue = Tail(q)]
<1>1. /\ entry \in SessionIds /\ updating = entry /\ q \in Seq(PacketKinds) /\ q # <<>>
      /\ UNCHANGED <<conn, world, crashed>>
  BY PacketEffect
<1>2. PICK r2 : /\ Handled(r, r2) /\ session' = [session EXCEPT ![entry] = r2]
                /\ players' \in Nat /\ players' >= PlayersOf(r2)
                /\ \/ holders' = holders
                   \/ holders' = holders + 1 /\ Head(q) = "login" /\ ~r2.player
  BY PacketEffect
<1>3. /\ session[entry] \in SessionType /\ session \in [SessionIds -> SessionType]
      /\ holders \in Nat /\ MaxHolders \in Nat
  BY <1>1, TypeDef, BoundsAssumption DEF Inv, Types
<1>4. /\ r.status = session[entry].status /\ r.socket = session[entry].socket
      /\ r.request = session[entry].request /\ r.state = session[entry].state
      /\ r.recvQueue = Tail(q)
  BY <1>3 DEF SessionType
<1> HIDE DEF r
<1>5. /\ session'[entry] = r2 /\ r2 \in SessionType /\ r2.recvQueue = Tail(q)
      /\ session' \in [SessionIds -> SessionType]
      /\ \A t \in SessionIds \ {entry} : session'[t] = session[t]
  BY <1>1, <1>2, <1>3, <1>4 DEF Handled
<1>6. holders' \in Nat
  BY <1>2, <1>3
<1>7. Bounded'
  <2>1. LoginsWaiting' <= LoginsWaiting - (IF Head(q) = "login" THEN 1 ELSE 0)
    BY <1>1, <1>5, LoginsShift DEF Inv
  <2>2. LoginsWaiting \in Nat /\ LoginsWaiting' \in Nat
    BY LoginsFinite
  <2>3. holders' + LoginsWaiting' <= holders + LoginsWaiting
    <3>1. CASE holders' = holders
      <4>1. LoginsWaiting' <= LoginsWaiting
        BY <2>1, <2>2
      <4>2. \A a, b, h \in Nat : a <= b => h + a <= h + b
        OBVIOUS
      <4> QED  BY <1>3, <2>2, <3>1, <4>1, <4>2
    <3>2. CASE holders' = holders + 1 /\ Head(q) = "login"
      <4>1. LoginsWaiting' <= LoginsWaiting - 1
        BY <2>1, <3>2
      <4>2. \A a, b, h \in Nat : a <= b - 1 => (h + 1) + a <= h + b
        OBVIOUS
      <4> QED  BY <1>3, <2>2, <3>2, <4>1, <4>2
    <3> QED  BY <1>2, <3>1, <3>2
  <2>4. ASSUME NEW t \in SessionIds PROVE Len(session'[t].recvQueue) <= MaxQueued
    <3>1. CASE t = entry
      <4>1. Len(Tail(q)) = Len(q) - 1 /\ Len(q) \in Nat /\ Len(q) <= MaxQueued /\ MaxQueued \in Nat
        BY <1>1, BoundsAssumption, HeadTailProperties DEF Inv, Bounded
      <4>2. session'[t].recvQueue = Tail(q)
        BY <1>5, <3>1
      <4> HIDE DEF q
      <4> QED  BY <4>1, <4>2
    <3>2. CASE t # entry
      BY <1>5, <3>2 DEF Inv, Bounded
    <3> QED  BY <3>1, <3>2
  <2> QED  BY <1>6, <2>3, <2>4, BoundHolds
<1>8. /\ entry # NoSession /\ r2.status = session[entry].status
      /\ r2.socket = session[entry].socket /\ r2.request = session[entry].request
      /\ r2.state = session[entry].state /\ (~r2.player => r2.logoutTime = "none")
  BY <1>1, <1>2, <1>4, Ids DEF Handled
<1>9. /\ UNCHANGED <<entry, m_sessionAddQueue, tick, updating, removing>>
      /\ updating \in {NoSession, entry} /\ removing \in {NoSession, entry}
      /\ (removing # NoSession => updating = NoSession)
      /\ tick \in {"sessions", "maps", "inMap"} /\ crashed' \in BOOLEAN
  BY <1>1, TypeDef DEF Inv, Places, Types, world
<1> QED  BY <1>1, <1>2, <1>5, <1>6, <1>7, <1>8, <1>9, EntryStep

\* A session lets its socket go, for the one that asked or for none.
LEMMA ReleaseKeeps ==
    ASSUME Inv, NEW s \in SessionIds, Live(s), NEW r \in SessionType,
           session' = [session EXCEPT ![s] = r], r.status \in {"live", "deleted"},
           r.status = "live" => r.socket = session[s].request /\ r.request = NoConn,
           conn' = Release(session[s].socket)
    PROVE  Matched' /\ Answered' /\ conn' \in [Conns -> ConnType]
<1> DEFINE k == session[s].socket
<1>1. session \in [SessionIds -> SessionType] /\ conn \in [Conns -> ConnType]
  BY TypeDef DEF Inv, Types
<1>2. session'[s] = r /\ \A t \in SessionIds \ {s} : session'[t] = session[t]
  BY <1>1
<1>3. \A t \in SessionIds : /\ session[t].socket \in Conns \cup {NoConn}
                           /\ session[t].request \in Conns \cup {NoConn}
  BY <1>1 DEF SessionType
<1>4. /\ conn' \in [Conns -> ConnType]
      /\ \A j \in Conns \ {k} : conn'[j] = conn[j]
      /\ k # NoConn => ~conn'[k].open /\ conn'[k].m_session = NoSession
  <2>1. CASE k = NoConn
    BY <1>1, <2>1 DEF Release, Finalize, Close
  <2>2. CASE k # NoConn
    <3>0. k \in Conns /\ conn' = Release(k)
      BY <1>3, <2>2
    <3> HIDE DEF k
    <3>1. conn' = [[conn EXCEPT ![k].open = FALSE] EXCEPT ![k].m_session = NoSession]
      BY <2>2, <3>0 DEF Release, Finalize, Close
    <3>2. LET d == [[conn[k] EXCEPT !.open = FALSE] EXCEPT !.m_session = NoSession] IN
          d \in ConnType /\ d.open = FALSE /\ d.m_session = NoSession
      BY <1>1, <3>0, FreedType
    <3>3. /\ conn'[k] = [[conn[k] EXCEPT !.open = FALSE] EXCEPT !.m_session = NoSession]
          /\ \A j \in Conns \ {k} : conn'[j] = conn[j]
      BY <1>1, <3>0, <3>1
    <3>4. conn' = [j \in Conns |-> IF j = k
                       THEN [[conn[k] EXCEPT !.open = FALSE] EXCEPT !.m_session = NoSession] ELSE conn[j]]
      BY <1>1, <3>0, <3>1
    <3> QED  BY <1>1, <3>2, <3>3, <3>4
  <2> QED  BY <2>1, <2>2
<1>5. ASSUME NEW t \in SessionIds, Live(t), t # s
      PROVE  session[t].socket \in Conns => session[t].socket # k
  BY <1>5, Ids DEF Inv, Matched
<1>6. ASSUME NEW t \in SessionIds, Live(t), session[t].request \in Conns
      PROVE  session[t].request # k
  BY <1>6, Ids DEF Inv, Matched
<1> HIDE DEF k
<1>7. ASSUME NEW t \in SessionIds, Live(t)'
      PROVE  /\ session'[t].socket # NoConn =>
                  /\ conn'[session'[t].socket].m_session = t
                  /\ conn'[session'[t].socket].pc \in {"waiting", "authed", "queueing", "closed"}
             /\ session'[t].request # NoConn =>
                  /\ conn'[session'[t].request].m_session = t
                  /\ conn'[session'[t].request].pc \in {"waiting", "closed"}
                  /\ session'[t].request # session'[t].socket
                  /\ session'[t].state = "CREATED"
  <2>1. CASE t = s
    <3>1. session'[t].socket = session[s].request /\ session'[t].request = NoConn
      BY <1>2, <1>7, <2>1 DEF Live
    <3>2. session[s].request # NoConn =>
            /\ conn'[session[s].request] = conn[session[s].request]
            /\ conn[session[s].request].m_session = s
            /\ conn[session[s].request].pc \in {"waiting", "closed"}
      <4>1. session[s].request # NoConn => session[s].request \in Conns \ {k}
        BY <1>3, <1>6
      <4>2. session[s].request # NoConn =>
              /\ conn[session[s].request].m_session = s
              /\ conn[session[s].request].pc \in {"waiting", "closed"}
        BY DEF Inv, Matched
      <4> QED  BY <1>4, <4>1, <4>2
    <3> QED  BY <2>1, <3>1, <3>2
  <2>2. CASE t # s
    <3>1. Live(t) /\ session'[t] = session[t]
      BY <1>2, <1>7, <2>2 DEF Live
    <3>2. /\ session[t].socket # NoConn => conn'[session[t].socket] = conn[session[t].socket]
          /\ session[t].request # NoConn => conn'[session[t].request] = conn[session[t].request]
      <4>1. session[t].socket # NoConn => session[t].socket \in Conns \ {k}
        BY <1>3, <1>5, <2>2, <3>1
      <4>2. session[t].request # NoConn => session[t].request \in Conns \ {k}
        BY <1>3, <1>6, <3>1
      <4> QED  BY <1>4, <4>1, <4>2
    <3>3. /\ session[t].socket # NoConn =>
               /\ conn[session[t].socket].m_session = t
               /\ conn[session[t].socket].pc \in {"waiting", "authed", "queueing", "closed"}
          /\ session[t].request # NoConn =>
               /\ conn[session[t].request].m_session = t
               /\ conn[session[t].request].pc \in {"waiting", "closed"}
               /\ session[t].request # session[t].socket
               /\ session[t].state = "CREATED"
      BY <3>1 DEF Inv, Matched
    <3> QED  BY <3>1, <3>2, <3>3
  <2> QED  BY <2>1, <2>2
<1>8. Matched'
  BY <1>7 DEF Matched
<1>9. ASSUME NEW j \in Conns
      PROVE  /\ conn'[j].m_session # NoSession => session'[conn'[j].m_session].status # "unborn"
             /\ conn'[j].pc = "waiting" /\ Live(conn[j].m_session)' =>
                  j \in {session'[conn'[j].m_session].request, session'[conn'[j].m_session].socket}
             /\ conn'[j].open /\ conn'[j].pc \in {"authed", "queueing"} =>
                  Live(conn[j].m_session)' /\ session'[conn'[j].m_session].socket = j
  <2>1. CASE j = k
    <3>1. ~conn'[j].open /\ conn'[j].m_session = NoSession
      BY <1>4, <2>1, Ids
    <3> QED  BY <3>1 DEF Live
  <2>2. CASE j # k
    <3>1. conn'[j] = conn[j] /\ conn[j].m_session \in SessionIds \cup {NoSession}
      BY <1>1, <1>4, <2>2 DEF ConnType
    <3>2. CASE conn[j].m_session = s
      <4>1. conn[j].pc = "waiting" => j = session[s].request
        BY <2>2, <3>2 DEF Inv, Answered, k
      <4>2. ~(conn[j].open /\ conn[j].pc \in {"authed", "queueing"})
        BY <2>2, <3>2 DEF Inv, Answered, k
      <4>3. Live(conn[j].m_session)' => r.status = "live"
        BY <1>2, <3>1, <3>2 DEF Live
      <4> QED  BY <1>2, <3>1, <3>2, <4>1, <4>2, <4>3
    <3>3. CASE conn[j].m_session # s
      <4>1. conn[j].m_session # NoSession => session'[conn[j].m_session] = session[conn[j].m_session]
        BY <1>2, <3>1, <3>3
      <4>2. Live(conn[j].m_session)' <=> Live(conn[j].m_session)
        BY <3>1, <4>1 DEF Live
      <4> QED  BY <3>1, <4>1, <4>2 DEF Inv, Answered, Live
    <3> QED  BY <3>2, <3>3
  <2> QED  BY <2>1, <2>2
<1> QED  BY <1>4, <1>8, <1>9 DEF Answered

\* The state of the session in its Update: it takes the socket that asks for it, goes
\* offline, logs its player out, or is to be removed.
LEMMA UpdateInv == ASSUME Inv, UpdateState PROVE Inv'
<1> DEFINE r == session[entry]
<1>1. /\ updating = entry /\ entry \in SessionIds /\ entry # NoSession /\ Live(entry)
      /\ r \in SessionType /\ players \in Nat /\ holders \in Nat /\ crashed \in BOOLEAN
      /\ session \in [SessionIds -> SessionType] /\ conn \in [Conns -> ConnType]
  BY TypeDef, BoundsAssumption DEF Inv, Places, Types, UpdateState
<1>2. removing = NoSession
  BY <1>1 DEF Inv, Places
<1>3. /\ UNCHANGED <<entry, m_sessionAddQueue, holders, crashed>> /\ tick' \in {"sessions", "maps", "inMap"}
      /\ UpdateCreated(entry, r) \/ UpdateReady(entry, r) \/ UpdateOffline(entry, r)
  BY <1>1 DEF UpdateState
<1>4. /\ r.status = "live" /\ (~r.player => r.logoutTime = "none")
      /\ players >= PlayersOf(r) /\ PlayersOf(r) \in {0, 1}
  BY <1>1, RecordTypes DEF Inv, Players, Live
<1>5. Stay \/ Remove(entry) =>
        /\ updating' \in {NoSession, entry} /\ removing' \in {NoSession, entry}
        /\ (removing' # NoSession => updating' = NoSession)
  BY <1>2 DEF Stay, Remove
<1>6. holders' \in 0..holders /\ holders' \in Nat /\ crashed' \in BOOLEAN
  BY <1>1, <1>3
<1>7. ASSUME UNCHANGED <<session, conn, players>>, Stay \/ Remove(entry)
      PROVE  Inv'
  BY <1>3, <1>5, <1>6, <1>7, NothingElse
<1> HIDE DEF r
<1>8. ASSUME NEW r2 \in SessionType, session' = [session EXCEPT ![entry] = r2],
             r2.recvQueue = r.recvQueue
      PROVE  Bounded'
  <2>1. \A t \in SessionIds : session'[t].recvQueue = session[t].recvQueue
    BY <1>1, <1>8 DEF r
  <2> QED  BY <1>6, <2>1, BoundKeeps
<1>9. ASSUME LogoutPlayer(entry, r), Stay \/ Remove(entry), UNCHANGED conn
      PROVE  Inv'
  <2>1. session' = [session EXCEPT ![entry] = Left(r)] /\ players' = players - PlayersOf(r)
    BY <1>9 DEF LogoutPlayer
  <2>2. players' \in Nat
    BY <1>1, <1>4, <2>1
  <2>3. /\ Left(r) \in SessionType /\ Left(r).status = r.status /\ Left(r).socket = r.socket
        /\ Left(r).request = r.request /\ Left(r).state = r.state /\ Left(r).logoutTime = "none"
        /\ Left(r).recvQueue = r.recvQueue /\ PlayersOf(Left(r)) = 0
    <3>1. ~r.player => r.logoutTime = "none"
      BY <1>1, <1>4
    <3>2. Handled(r, Left(r)) /\ PlayersOf(Left(r)) = 0
      BY <1>1, <3>1, HandledRecords
    <3>3. ~Left(r).player
      BY <3>2 DEF PlayersOf
    <3> QED  BY <3>2, <3>3 DEF Handled
  <2>4. Bounded'
    BY <1>8, <2>1, <2>3
  <2>5. players' >= PlayersOf(Left(r))
    BY <2>2, <2>3
  <2> HIDE DEF LogoutPlayer
  <2> QED  BY <1>1, <1>3, <1>5, <1>6, <1>9, <2>1, <2>2, <2>3, <2>4, <2>5, EntryStep DEF r
<1>10. ASSUME NEW r2 \in SessionType, session' = [session EXCEPT ![entry] = r2],
              conn' = Release(r.socket), r2.socket = r.request, r2.request = NoConn,
              r2.status = "live", r2.player = r.player, ~r2.player => r2.logoutTime = "none",
              r2.recvQueue = r.recvQueue, Stay, UNCHANGED players
      PROVE  Inv'
  <2>1. Matched' /\ Answered' /\ conn' \in [Conns -> ConnType]
    BY <1>1, <1>10, ReleaseKeeps DEF r
  <2>2. Bounded'
    BY <1>8, <1>10
  <2>3. session'[entry] = r2 /\ players' >= PlayersOf(session'[entry]) /\ players' \in Nat
    BY <1>1, <1>4, <1>10 DEF PlayersOf
  <2> QED  BY <1>1, <1>3, <1>5, <1>6, <1>10, <2>1, <2>2, <2>3, OneSession
<1>11. CASE UpdateCreated(entry, r)
  <2>1. CASE r.request # NoConn
    <3> DEFINE r2 == [SetOffline(r) EXCEPT !.socket = r.request, !.request = NoConn, !.state = "READY"]
    <3>1. /\ session' = [session EXCEPT ![entry] = r2] /\ conn' = Release(r.socket)
          /\ Stay /\ UNCHANGED players
      BY <1>11, <2>1 DEF UpdateCreated, TakeRequestedSocket
    <3>2. /\ SetOffline(r) \in SessionType /\ SetOffline(r).status = r.status
          /\ SetOffline(r).player = r.player /\ SetOffline(r).recvQueue = r.recvQueue
          /\ (~r.player => SetOffline(r).logoutTime = r.logoutTime)
          /\ r.request \in Conns \cup {NoConn}
      BY <1>1, OfflineFields DEF SessionType
    <3>3. /\ r2 \in SessionType /\ r2.socket = r.request /\ r2.request = NoConn
          /\ r2.status = SetOffline(r).status /\ r2.player = SetOffline(r).player
          /\ r2.logoutTime = SetOffline(r).logoutTime /\ r2.recvQueue = SetOffline(r).recvQueue
      BY <3>2 DEF SessionType, States
    <3> HIDE DEF r2
    <3> QED  BY <1>4, <1>10, <3>1, <3>2, <3>3
  <2>2. CASE r.request = NoConn
    <3> DEFINE r2 == [r EXCEPT !.state = "READY"]
    <3>1. session' = [session EXCEPT ![entry] = r2] /\ UNCHANGED <<conn, players>> /\ Stay
      BY <1>1, <1>11, <2>2 DEF UpdateCreated, r
    <3>2. /\ r2 \in SessionType /\ r2.status = r.status /\ r2.socket = r.socket /\ r2.request = r.request
          /\ r2.logoutTime = r.logoutTime /\ r2.recvQueue = r.recvQueue /\ r2.player = r.player
      BY <1>1 DEF SessionType, States
    <3> HIDE DEF r2
    <3>3. Bounded' /\ players' \in Nat /\ players' >= PlayersOf(r2)
      BY <1>1, <1>4, <1>8, <3>1, <3>2 DEF PlayersOf
    <3> QED  BY <1>1, <1>3, <1>4, <1>5, <1>6, <2>2, <3>1, <3>2, <3>3, EntryStep DEF r
  <2> QED  BY <2>1, <2>2
<1>12. CASE UpdateReady(entry, r)
  <2>1. CASE /\ session' = [session EXCEPT ![entry] = SetOffline(r)]
             /\ conn' = Release(r.socket) /\ Stay /\ UNCHANGED players
    <3>1. r.request = NoConn
      <4>1. r.request # NoConn => r.state = "CREATED"
        BY <1>1 DEF Inv, Matched, r
      <4> QED  BY <1>12, <4>1 DEF UpdateReady
    <3>2. /\ SetOffline(r) \in SessionType /\ SetOffline(r).status = r.status
          /\ SetOffline(r).player = r.player /\ SetOffline(r).recvQueue = r.recvQueue
          /\ (~r.player => SetOffline(r).logoutTime = r.logoutTime)
          /\ SetOffline(r).socket = NoConn /\ SetOffline(r).request = r.request
      BY <1>1, OfflineFields
    <3> QED  BY <1>4, <1>10, <2>1, <3>1, <3>2
  <2>2. \/ (Remove(entry) \/ Stay) /\ UNCHANGED <<session, conn, players>>
        \/ /\ session' = [session EXCEPT ![entry] = SetOffline(r)]
           /\ conn' = Release(r.socket) /\ Stay /\ UNCHANGED players
        \/ LogoutPlayer(entry, r) /\ Stay /\ UNCHANGED conn
    BY <1>12 DEF UpdateReady
  <2> QED  BY <1>7, <1>9, <2>1, <2>2
<1>13. CASE UpdateOffline(entry, r)
  <2>1. \/ Stay /\ UNCHANGED <<session, conn, players>>
        \/ LogoutPlayer(entry, r) /\ (Remove(entry) \/ Stay) /\ UNCHANGED conn
    BY <1>13 DEF UpdateOffline
  <2> QED  BY <1>7, <1>9, <2>1
<1> QED  BY <1>3, <1>11, <1>12, <1>13

\* Its player leaves with a session that is deleted.
LEMMA DeleteInv == ASSUME Inv, DeleteSession PROVE Inv'
<1> DEFINE s == removing
           r == [Unborn EXCEPT !.status = "deleted"]
<1>1. /\ s = entry /\ s \in SessionIds /\ s # NoSession /\ Live(s) /\ updating = NoSession
      /\ session[s] \in SessionType /\ players \in Nat /\ holders \in Nat /\ crashed \in BOOLEAN
      /\ session \in [SessionIds -> SessionType] /\ m_sessionAddQueue \in Seq(SessionIds)
  BY TypeDef, BoundsAssumption DEF Inv, Places, Types, DeleteSession
<1>2. /\ session' = [session EXCEPT ![s] = r] /\ players' = players - PlayersOf(session[s])
      /\ conn' = Release(session[s].socket) /\ entry' = NoSession /\ removing' = NoSession
      /\ UNCHANGED <<m_sessionAddQueue, tick, updating, holders, crashed>>
  BY DEF DeleteSession
<1>3. /\ r \in SessionType /\ r.status = "deleted" /\ r.recvQueue = <<>> /\ ~r.player
      /\ r.logoutTime = "none"
  BY UnbornType DEF Unborn
<1> HIDE DEF r, s
<1>4. /\ session'[s] = r /\ \A t \in SessionIds \ {s} : session'[t] = session[t]
      /\ session' \in [SessionIds -> SessionType]
  BY <1>1, <1>2, <1>3
<1>5. Matched' /\ Answered' /\ conn' \in [Conns -> ConnType]
  BY <1>1, <1>2, <1>3, ReleaseKeeps
<1>6. players' \in Nat
  <2>1. players >= PlayersOf(session[s]) /\ PlayersOf(session[s]) \in {0, 1}
    BY <1>1, RecordTypes DEF Inv, Players
  <2> QED  BY <1>1, <1>2, <2>1
<1>7. Types'
  BY <1>2, <1>4, <1>5, <1>6, TypeDef DEF Inv, Types
<1>8. Born'
  BY <1>3, <1>4 DEF Inv, Born
<1>9. Places'
  <2>1. ASSUME NEW i \in 1..Len(m_sessionAddQueue)
        PROVE  Live(m_sessionAddQueue[i])' /\ m_sessionAddQueue[i] # NoSession
    <3>1. m_sessionAddQueue[i] \in SessionIds
      BY <1>1
    <3>2. Live(m_sessionAddQueue[i]) /\ m_sessionAddQueue[i] # s
      BY <1>1 DEF Inv, Places
    <3> QED  BY <1>2, <1>4, <3>1, <3>2, Ids DEF Live
  <2>2. UNCHANGED m_sessionAddQueue /\ updating' = NoSession
    BY <1>1, <1>2
  <2> QED  BY <1>2, <2>1, <2>2 DEF Places
<1>10. Players'
  <2>1. \A t \in SessionIds : ~session'[t].player
    BY <1>1, <1>3, <1>4 DEF Inv, Players
  <2>2. \A t \in SessionIds : session'[t].logoutTime = "none"
    BY <1>1, <1>3, <1>4 DEF Inv, Players
  <2> QED  BY <1>2, <2>1, <2>2 DEF Players
<1>11. Bounded'
  <2>1. \A t \in SessionIds : session'[t].recvQueue = session[t].recvQueue \/ session'[t].recvQueue = <<>>
    BY <1>3, <1>4
  <2> QED  BY <1>1, <1>2, <2>1, BoundKeeps
<1> QED  BY <1>5, <1>7, <1>8, <1>9, <1>10, <1>11, TypeDefNext DEF Inv

\* What the callback of a login does.
LEMMA CallbackEffect ==
    ASSUME Inv, LoginCallback
    PROVE  /\ UNCHANGED <<entry, m_sessionAddQueue, updating, removing, conn>>
           /\ holders \in Nat /\ holders > 0 /\ holders' = holders - 1
           /\ tick' = "sessions" /\ crashed' \in BOOLEAN
           /\ \/ UNCHANGED <<session, players>>
              \/ /\ entry # NoSession /\ players' = players + 1
                 /\ \E e \in BOOLEAN : session' = [session EXCEPT ![entry] =
                        [session[entry] EXCEPT !.player = TRUE, !.entered = e]]
<1>1. holders \in Nat /\ crashed \in BOOLEAN /\ session \in [SessionIds -> SessionType]
      /\ entry \in SessionIds \cup {NoSession}
  BY TypeDef, BoundsAssumption DEF Inv, Types
<1>2. ASSUME entry # NoSession, players' = players + 1,
             session' = [session EXCEPT ![entry].player = TRUE, ![entry].entered =
                                ~IsClosed(session[entry].socket)]
      PROVE  \E e \in BOOLEAN : session' = [session EXCEPT ![entry] =
                        [session[entry] EXCEPT !.player = TRUE, !.entered = e]]
  <2>1. session' = [session EXCEPT ![entry] =
                [session[entry] EXCEPT !.player = TRUE, !.entered = ~IsClosed(session[entry].socket)]]
    BY <1>1, <1>2
  <2>2. (~IsClosed(session[entry].socket)) \in BOOLEAN
    BY DEF IsClosed
  <2> QED  BY <2>1, <2>2
<1> QED  BY <1>1, <1>2 DEF LoginCallback

LEMMA EnteredRecord ==
    ASSUME NEW r \in SessionType, NEW e \in BOOLEAN
    PROVE  LET d == [r EXCEPT !.player = TRUE, !.entered = e] IN
           /\ d \in SessionType /\ d.player = TRUE /\ d.status = r.status /\ d.state = r.state
           /\ d.socket = r.socket /\ d.request = r.request /\ d.recvQueue = r.recvQueue
           /\ d.logoutTime = r.logoutTime /\ PlayersOf(d) = 1
  BY DEF SessionType, PlayersOf

LEMMA CallbackInv == ASSUME Inv, LoginCallback PROVE Inv'
<1>1. /\ UNCHANGED <<entry, m_sessionAddQueue, updating, removing, conn>>
      /\ holders \in Nat /\ holders' \in 0..holders /\ holders' \in Nat
      /\ tick' = "sessions" /\ crashed' \in BOOLEAN
  <2>1. \A n \in Nat : n > 0 => n - 1 \in Nat /\ n - 1 \in 0..n
    OBVIOUS
  <2>2. holders \in Nat /\ holders > 0 /\ holders' = holders - 1
    BY CallbackEffect
  <2>3. holders' \in Nat /\ holders' \in 0..holders
    BY <2>1, <2>2
  <2> QED  BY <2>2, <2>3, CallbackEffect
<1>2. /\ updating \in {NoSession, entry} /\ removing \in {NoSession, entry}
      /\ (removing # NoSession => updating = NoSession) /\ players \in Nat
      /\ session \in [SessionIds -> SessionType] /\ entry \in SessionIds \cup {NoSession}
  BY TypeDef DEF Inv, Places, Types
<1>3. CASE UNCHANGED <<session, players>>
  BY <1>1, <1>2, <1>3, NothingElse
<1>4. ASSUME entry # NoSession, players' = players + 1, NEW e \in BOOLEAN,
             session' = [session EXCEPT ![entry] =
                            [session[entry] EXCEPT !.player = TRUE, !.entered = e]]
      PROVE  Inv'
  <2> DEFINE r == [session[entry] EXCEPT !.player = TRUE, !.entered = e]
  <2>1. /\ r \in SessionType /\ r.player = TRUE /\ r.status = session[entry].status
        /\ r.state = session[entry].state /\ r.socket = session[entry].socket
        /\ r.request = session[entry].request /\ r.recvQueue = session[entry].recvQueue
        /\ PlayersOf(r) = 1
    <3>1. session[entry] \in SessionType
      BY <1>2, <1>4
    <3> QED  BY <1>4, <3>1, EnteredRecord
  <2>2. session' = [session EXCEPT ![entry] = r]
    BY <1>4
  <2> HIDE DEF r
  <2>3. Bounded'
    <3>1. \A t \in SessionIds : session'[t].recvQueue = session[t].recvQueue
      BY <1>2, <1>4, <2>1, <2>2
    <3> QED  BY <1>1, <3>1, BoundKeeps
  <2>4. players' \in Nat /\ players' >= PlayersOf(r)
    BY <1>2, <1>4, <2>1
  <2> QED  BY <1>1, <1>2, <1>4, <2>1, <2>2, <2>3, <2>4, EntryStep
<1> QED  BY <1>3, <1>4, CallbackEffect

-----------------------------------------------------------------------------
(* Kicks and time. *)

LEMMA KickInv == ASSUME Inv, Kick PROVE Inv'
<1> DEFINE r == session[entry]
<1>1. /\ entry # NoSession /\ entry \in SessionIds /\ r \in SessionType /\ players \in Nat
      /\ holders \in Nat /\ session \in [SessionIds -> SessionType] /\ conn \in [Conns -> ConnType]
      /\ UNCHANGED <<entry, m_sessionAddQueue, tick, updating, removing, holders, crashed>>
      /\ updating \in {NoSession, entry} /\ removing \in {NoSession, entry}
      /\ (removing # NoSession => updating = NoSession)
      /\ tick \in {"sessions", "maps", "inMap"} /\ crashed \in BOOLEAN
  BY TypeDef, BoundsAssumption DEF Inv, Types, Places, Kick, world
<1>2. KickPlayer(entry, r)
  BY DEF Kick
<1>3. /\ (~r.player => r.logoutTime = "none") /\ players >= PlayersOf(r) /\ PlayersOf(r) \in {0, 1}
      /\ r.socket \in Conns \cup {NoConn}
  <2>1. r.socket \in Conns \cup {NoConn}
    BY <1>1 DEF SessionType
  <2> QED  BY <1>1, <2>1, RecordTypes DEF Inv, Players
<1> HIDE DEF r
<1> DEFINE r2 == IF r.player THEN Left(r) ELSE r
<1>4. Handled(r, r2) /\ PlayersOf(r2) = 0
  BY <1>1, <1>3, HandledRecords DEF PlayersOf
<1>5. session' = [session EXCEPT ![entry] = r2] /\ players' = players - PlayersOf(r)
  BY <1>2 DEF KickPlayer
<1> HIDE DEF r2
<1>6. \/ UNCHANGED conn
      \/ \E k \in Conns : conn' = [conn EXCEPT ![k].open = FALSE]
  BY <1>2, <1>3 DEF KickPlayer, Close
<1>7. players' \in Nat
  BY <1>1, <1>3, <1>5
<1>8. players' >= PlayersOf(r2)
  BY <1>4, <1>7
<1>9. Bounded'
  <2>1. \A t \in SessionIds : session'[t].recvQueue = session[t].recvQueue
    BY <1>1, <1>4, <1>5 DEF Handled, r
  <2> QED  BY <1>1, <2>1, BoundKeeps
<1> QED  BY <1>1, <1>4, <1>5, <1>6, <1>7, <1>8, <1>9, EntryStep DEF Handled, r

LEMMA AgedRecord ==
    ASSUME NEW r \in SessionType
    PROVE  LET d == [r EXCEPT !.logoutTime = IF @ = "recent" THEN "over20" ELSE "over60"] IN
           /\ d \in SessionType /\ d.player = r.player /\ d.status = r.status /\ d.state = r.state
           /\ d.socket = r.socket /\ d.request = r.request /\ d.recvQueue = r.recvQueue
           /\ d.entered = r.entered /\ d.asked = r.asked /\ PlayersOf(d) = PlayersOf(r)
  BY DEF SessionType, LogoutTimes, PlayersOf

LEMMA AgeInv == ASSUME Inv, Age PROVE Inv'
<1> DEFINE r == session[entry]
           r2 == [r EXCEPT !.logoutTime = IF @ = "recent" THEN "over20" ELSE "over60"]
<1>1. /\ entry # NoSession /\ entry \in SessionIds /\ r \in SessionType /\ players \in Nat
      /\ holders \in Nat /\ session \in [SessionIds -> SessionType]
      /\ UNCHANGED <<entry, m_sessionAddQueue, tick, updating, removing, conn, holders, players, crashed>>
      /\ updating \in {NoSession, entry} /\ removing \in {NoSession, entry}
      /\ (removing # NoSession => updating = NoSession)
      /\ tick \in {"sessions", "maps", "inMap"} /\ crashed \in BOOLEAN
  BY TypeDef, BoundsAssumption DEF Inv, Types, Places, Age, world
<1>2. session' = [session EXCEPT ![entry] = r2] /\ r.logoutTime \in {"recent", "over20"}
  BY <1>1 DEF Age
<1>3. /\ r2 \in SessionType /\ r2.player = r.player /\ r2.status = r.status /\ r2.state = r.state
      /\ r2.socket = r.socket /\ r2.request = r.request /\ r2.recvQueue = r.recvQueue
      /\ PlayersOf(r2) = PlayersOf(r)
  BY <1>1, AgedRecord
<1> HIDE DEF r2
<1>4. r.player /\ players >= PlayersOf(r)
  BY <1>1, <1>2 DEF Inv, Players
<1>5. Bounded'
  <2>1. \A t \in SessionIds : session'[t].recvQueue = session[t].recvQueue
    BY <1>1, <1>2, <1>3
  <2> QED  BY <1>1, <2>1, BoundKeeps
<1> QED  BY <1>1, <1>2, <1>3, <1>4, <1>5, EntryStep

LEMMA StutterInv == ASSUME Inv, UNCHANGED vars PROVE Inv'
<1>1. UNCHANGED <<session, entry, m_sessionAddQueue, tick, updating, removing, conn, holders,
                  players, crashed>>
  BY DEF vars, world
<1>2. /\ updating \in {NoSession, entry} /\ removing \in {NoSession, entry}
      /\ (removing # NoSession => updating = NoSession) /\ holders \in 0..holders
      /\ tick \in {"sessions", "maps", "inMap"} /\ crashed \in BOOLEAN
  BY TypeDef, BoundsAssumption DEF Inv, Places, Types
<1> QED  BY <1>1, <1>2, NothingElse

-----------------------------------------------------------------------------
(* The invariant. *)

LEMMA InitInv == Init => Inv
<1> SUFFICES ASSUME Init PROVE Inv
  OBVIOUS
<1> USE DEF Init
<1>1. session = [s \in SessionIds |-> Unborn] /\ Unborn \in SessionType
  BY UnbornType
<1>2. TypeOK
  <2>1. conn \in [Conns -> ConnType]
    BY DEF ConnType, Positions
  <2>2. holders \in 0..MaxHolders
    BY BoundsAssumption
  <2>3. m_sessionAddQueue \in Seq(SessionIds)
    OBVIOUS
  <2> QED  BY <1>1, <2>1, <2>2, <2>3, TypeDef DEF Types
<1>3. Born /\ Matched /\ Answered
  BY <1>1, Ids DEF Born, Matched, Answered, Live, Unborn
<1>4. Places
  BY DEF Places
<1>5. Players
  BY <1>1 DEF Players, Unborn
<1>6. Bounded
  <2>1. \A s \in SessionIds : session[s].recvQueue = <<>>
    BY <1>1 DEF Unborn
  <2>2. LoginPlaces = {}
    BY <2>1 DEF LoginPlaces
  <2>3. LoginsWaiting = 0
    BY <2>2, LoginsFinite, FS_EmptySet
  <2> QED  BY <2>1, <2>3, BoundsAssumption DEF Bounded
<1> QED  BY <1>2, <1>3, <1>4, <1>5, <1>6 DEF Inv

LEMMA StepInv == Inv /\ [Next]_vars => Inv'
<1> SUFFICES ASSUME Inv, [Next]_vars PROVE Inv'
  OBVIOUS
<1>1. ASSUME NEW k \in Conns, Network(k) PROVE Inv'
  BY <1>1, FindInv, CreateInv, RequestInv, GetStateInv, ReceiveInv, QueueInv DEF Network
<1>2. CASE World
  BY <1>2, AddInv, TakeUpInv, PacketInv, UpdateInv, DeleteInv, CallbackInv DEF World
<1>3. CASE Kick \/ Age
  BY <1>3, KickInv, AgeInv
<1> QED  BY <1>1, <1>2, <1>3, StutterInv DEF Next

\* The invariant of the sessions and sockets of one account, which all theorems below
\* rest on.
THEOREM Invariance == Spec => []Inv
  BY InitInv, StepInv, PTL DEF Spec

\* The sessions, sockets, queues and counters of WorldSession.cpp and World.cpp keep
\* their types.
THEOREM TypeCorrect == Spec => []TypeOK
<1>1. Inv => TypeOK
  BY DEF Inv
<1> QED  BY <1>1, Invariance, PTL

\* Whatever the order in which a client's sockets connect, ask for the session of
\* HandleAuthSession and close, while the world thread updates, kicks and deletes the
\* session: the socket of a live session has that session as its own, and the packets of
\* a connected client go to the session that answers on that very socket.
THEOREM OwnSockets == Spec => []SocketOwnership
<1>1. Inv => SocketOwnership
  BY DEF Inv, Matched, Answered, SocketOwnership
<1> QED  BY <1>1, Invariance, PTL

-----------------------------------------------------------------------------
(* The logout timer, where one login is in flight at most. *)

Stale(r) == r.entered /\ ~r.asked /\ r.logoutTime # "none"

LEMMA TimerKeeps ==
    ASSUME Inv, Timer,
           \A s \in SessionIds : session'[s].status = "live" /\ Stale(session'[s])
                                   => session[s].status = "live" /\ Stale(session[s]),
           holders' > 0 /\ entry' # NoSession => ~session'[entry'].player
    PROVE  Timer'
<1>1. \A s \in SessionIds : ~(session[s].status = "live" /\ Stale(session[s]))
  BY Ids DEF Timer, NoStaleTimer, Live, Stale
<1>2. \A s \in SessionIds : ~(session'[s].status = "live" /\ Stale(session'[s]))
  BY <1>1
<1> QED  BY <1>2 DEF Timer, NoStaleTimer, Live, Stale

\* Sessions whose players, timers and answers are as before.
LEMMA TimerSame ==
    ASSUME Inv, Timer, UNCHANGED <<entry, holders>>,
           \A s \in SessionIds :
              /\ session'[s].player = session[s].player /\ session'[s].asked = session[s].asked
              /\ session'[s].entered = session[s].entered /\ session'[s].status = session[s].status
              /\ session'[s].logoutTime = session[s].logoutTime
    PROVE  Timer'
<1>1. entry \in SessionIds \cup {NoSession}
  BY TypeDef DEF Inv, Types
<1> QED  BY <1>1, TimerKeeps DEF Timer, Stale

LEMMA NetworkTimer == ASSUME Inv, Timer, NEW k \in Conns, Network(k) PROVE Timer'
<1>1. session \in [SessionIds -> SessionType] /\ conn \in [Conns -> ConnType]
      /\ entry \in SessionIds \cup {NoSession}
  BY TypeDef DEF Inv, Types
<1>2. CASE FindSession(k) \/ GetState(k) \/ Receive(k) \/ Disconnect(k)
  <2>1. UNCHANGED <<session, entry, holders>>
    BY <1>2 DEF FindSession, GetState, Receive, Disconnect, world
  <2> QED  BY <2>1, TimerSame
<1>3. CASE RequestNewSocket(k)
  <2>1. UNCHANGED <<entry, holders>>
    BY <1>3 DEF RequestNewSocket, world
  <2>2. \/ UNCHANGED session
        \/ session' = [session EXCEPT ![conn[k].m_session].request = k,
                                      ![conn[k].m_session].state = "CREATED"]
    BY <1>3 DEF RequestNewSocket
  <2>3. ASSUME NEW s \in SessionIds
        PROVE  /\ session'[s].player = session[s].player /\ session'[s].asked = session[s].asked
               /\ session'[s].entered = session[s].entered /\ session'[s].status = session[s].status
               /\ session'[s].logoutTime = session[s].logoutTime
    <3>1. session[s] \in SessionType
      BY <1>1
    <3>2. \/ session'[s] = session[s]
          \/ session'[s] = [[session[s] EXCEPT !.request = k] EXCEPT !.state = "CREATED"]
      BY <1>1, <2>2
    <3> QED  BY <3>1, <3>2 DEF SessionType
  <2> QED  BY <2>1, <2>3, TimerSame
<1>4. CASE QueuePacket(k)
  <2>1. UNCHANGED <<entry, holders>>
    BY <1>4 DEF QueuePacket, world
  <2>2. \/ UNCHANGED session
        \/ \E q : session' = [session EXCEPT ![conn[k].m_session].recvQueue = q]
    <3>1. \A kind : session' = [session EXCEPT ![conn[k].m_session].recvQueue = Append(@, kind)]
            => \E q : session' = [session EXCEPT ![conn[k].m_session].recvQueue = q]
      OBVIOUS
    <3> QED  BY <1>4, <3>1 DEF QueuePacket
  <2>3. ASSUME NEW s \in SessionIds
        PROVE  /\ session'[s].player = session[s].player /\ session'[s].asked = session[s].asked
               /\ session'[s].entered = session[s].entered /\ session'[s].status = session[s].status
               /\ session'[s].logoutTime = session[s].logoutTime
    <3>1. session[s] \in SessionType
      BY <1>1
    <3>2. \/ session'[s] = session[s]
          \/ \E q : session'[s] = [session[s] EXCEPT !.recvQueue = q]
      BY <1>1, <2>2
    <3> QED  BY <3>1, <3>2 DEF SessionType
  <2> QED  BY <2>1, <2>3, TimerSame
<1>5. CASE CreateSession(k)
  <2>1. PICK s \in SessionIds : /\ session[s].status = "unborn"
                                /\ session' = [session EXCEPT ![s].status = "live", ![s].socket = k]
    BY <1>5 DEF CreateSession
  <2>2. UNCHANGED <<entry, holders>>
    BY <1>5 DEF CreateSession
  <2>3. session[s] = Unborn /\ entry # s
    BY <2>1, Ids DEF Inv, Born, Places, Live
  <2>4. /\ session'[s].entered = FALSE
        /\ \A t \in SessionIds \ {s} : session'[t] = session[t]
    BY <1>1, <2>1, <2>3 DEF Unborn
  <2>5. entry # NoSession => session'[entry] = session[entry]
    BY <1>1, <2>3, <2>4
  <2>6. \A t \in SessionIds : session'[t].status = "live" /\ Stale(session'[t])
                                => session[t].status = "live" /\ Stale(session[t])
    BY <2>4 DEF Stale
  <2>7. holders' > 0 /\ entry' # NoSession => ~session'[entry'].player
    BY <2>2, <2>5 DEF Timer
  <2> QED  BY <2>6, <2>7, TimerKeeps
<1> QED  BY <1>2, <1>3, <1>4, <1>5 DEF Network

\* A step of the account's session that starts no timer and brings no player.
LEMMA EntryTimer ==
    ASSUME Inv, Timer, entry \in SessionIds, UNCHANGED entry,
           NEW r, session' = [session EXCEPT ![entry] = r],
           r.status = "live" /\ Stale(r) => Stale(session[entry]),
           holders' > 0 => ~r.player
    PROVE  Timer'
<1>1. session \in [SessionIds -> SessionType]
  BY TypeDef DEF Inv, Types
<1>2. session'[entry] = r /\ \A t \in SessionIds \ {entry} : session'[t] = session[t]
  BY <1>1
<1>3. entry # NoSession /\ session[entry].status = "live"
  BY Ids DEF Inv, Places, Live
<1>4. \A s \in SessionIds : session'[s].status = "live" /\ Stale(session'[s])
                              => session[s].status = "live" /\ Stale(session[s])
  BY <1>2, <1>3
<1>5. holders' > 0 /\ entry' # NoSession => ~session'[entry'].player
  BY <1>2
<1> QED  BY <1>4, <1>5, TimerKeeps

LEMMA UpdateTimer == ASSUME Inv, Timer, UpdateState PROVE Timer'
<1> DEFINE r == session[entry]
<1>1. /\ updating = entry /\ entry \in SessionIds /\ entry # NoSession /\ r \in SessionType
      /\ session \in [SessionIds -> SessionType]
  BY TypeDef DEF Inv, Places, Types, UpdateState
<1>2. /\ UNCHANGED <<entry, holders>>
      /\ UpdateCreated(entry, r) \/ UpdateReady(entry, r) \/ UpdateOffline(entry, r)
  BY <1>1 DEF UpdateState
<1>3. holders > 0 => ~r.player
  BY <1>1 DEF Timer
<1> HIDE DEF r
<1>4. CASE UNCHANGED session
  BY <1>2, <1>4, TimerSame
<1>5. ASSUME NEW r2, session' = [session EXCEPT ![entry] = r2], r2.player => r.player,
             Stale(r2) => Stale(r)
      PROVE  Timer'
  BY <1>1, <1>2, <1>3, <1>5, EntryTimer DEF r
<1>6. CASE session' = [session EXCEPT ![entry] = Left(r)]
  <2>1. ~Left(r).player /\ ~Left(r).entered
    BY <1>1 DEF Left, LogoutRequest, SessionType
  <2> QED  BY <1>5, <1>6, <2>1 DEF Stale
<1>7. CASE session' = [session EXCEPT ![entry] = SetOffline(r)]
  <2>1. SetOffline(r).player = r.player /\ ~SetOffline(r).entered
    BY <1>1, OfflineFields
  <2> QED  BY <1>5, <1>7, <2>1 DEF Stale
<1>8. CASE session' = [session EXCEPT ![entry] =
                [SetOffline(r) EXCEPT !.socket = r.request, !.request = NoConn, !.state = "READY"]]
  <2>1. SetOffline(r) \in SessionType /\ SetOffline(r).player = r.player /\ ~SetOffline(r).entered
    BY <1>1, OfflineFields
  <2> DEFINE r2 == [SetOffline(r) EXCEPT !.socket = r.request, !.request = NoConn, !.state = "READY"]
  <2>2. r2.player = r.player /\ ~r2.entered
    BY <2>1 DEF SessionType
  <2> QED  BY <1>5, <1>8, <2>2 DEF Stale
<1>9. CASE session' = [session EXCEPT ![entry].state = "READY"]
  <2>1. session' = [session EXCEPT ![entry] = [r EXCEPT !.state = "READY"]]
    BY <1>1, <1>9 DEF r
  <2> DEFINE r2 == [r EXCEPT !.state = "READY"]
  <2>2. /\ r2.player = r.player /\ r2.entered = r.entered /\ r2.asked = r.asked
        /\ r2.logoutTime = r.logoutTime
    BY <1>1 DEF SessionType
  <2> QED  BY <1>5, <2>1, <2>2 DEF Stale
<1> QED
  BY <1>2, <1>4, <1>6, <1>7, <1>8, <1>9
     DEF UpdateCreated, TakeRequestedSocket, UpdateReady, UpdateOffline, LogoutPlayer

LEMMA PacketTimer == ASSUME MaxHolders <= 1, Inv, Timer, ProcessPacket PROVE Timer'
<1> DEFINE q == session[entry].recvQueue
           r == [session[entry] EXCEPT !.recvQueue = Tail(q)]
<1>1. /\ entry \in SessionIds /\ UNCHANGED entry
      /\ session[entry] \in SessionType /\ holders \in Nat
  BY PacketEffect, TypeDef, BoundsAssumption DEF Inv, Types, world
<1>2. PICK r2 : /\ Handled(r, r2) /\ session' = [session EXCEPT ![entry] = r2]
                /\ \/ holders' = holders
                   \/ holders' = holders + 1 /\ Head(q) = "login" /\ ~r2.player
  BY PacketEffect
<1>3. /\ r.player = session[entry].player /\ r.entered = session[entry].entered
      /\ r.asked = session[entry].asked /\ r.logoutTime = session[entry].logoutTime
  BY <1>1 DEF SessionType
<1>4. holders > 0 => ~session[entry].player
  BY <1>1, Ids DEF Timer
<1> HIDE DEF r, q
<1>5. Stale(r2) => Stale(session[entry])
  BY <1>2, <1>3 DEF Stale, Handled
<1>6. holders' > 0 => ~r2.player
  BY <1>2, <1>3, <1>4 DEF Handled
<1> QED  BY <1>1, <1>2, <1>5, <1>6, EntryTimer

LEMMA CallbackTimer == ASSUME MaxHolders <= 1, Inv, Timer, LoginCallback PROVE Timer'
<1>1. UNCHANGED entry /\ holders \in Nat /\ holders > 0 /\ holders' = holders - 1
  BY CallbackEffect
<1>2. holders <= MaxHolders /\ MaxHolders \in Nat /\ session \in [SessionIds -> SessionType]
      /\ entry \in SessionIds \cup {NoSession}
  BY TypeDef, BoundsAssumption DEF Inv, Types
<1>3. ~(holders' > 0)
  <2>1. \A h, m \in Nat : h <= m /\ m <= 1 => ~(h - 1 > 0)
    OBVIOUS
  <2> QED  BY <1>1, <1>2, <2>1
<1>4. CASE UNCHANGED session
  BY <1>3, <1>4, TimerKeeps
<1>5. ASSUME entry # NoSession, NEW e \in BOOLEAN,
             session' = [session EXCEPT ![entry] =
                            [session[entry] EXCEPT !.player = TRUE, !.entered = e]]
      PROVE  Timer'
  <2> DEFINE r == [session[entry] EXCEPT !.player = TRUE, !.entered = e]
  <2>1. entry \in SessionIds /\ session[entry] \in SessionType
    BY <1>2, <1>5
  <2>2. session[entry].logoutTime = "none"
    BY <1>1, <1>5, <2>1 DEF Inv, Players, Timer
  <2>3. r.logoutTime = "none"
    BY <2>1, <2>2, <1>5, EnteredRecord
  <2> HIDE DEF r
  <2>4. session' = [session EXCEPT ![entry] = r]
    BY <1>5 DEF r
  <2> QED  BY <1>1, <1>3, <2>1, <2>3, <2>4, EntryTimer DEF Stale
<1> QED  BY <1>4, <1>5, CallbackEffect

LEMMA OtherTimer ==
    ASSUME Inv, Timer,
           \/ AddSessions \/ BeginUpdate \/ BeginMapUpdate \/ EndMapUpdate \/ DeleteSession
           \/ Kick \/ Age \/ UNCHANGED vars
    PROVE  Timer'
<1>1. /\ session \in [SessionIds -> SessionType] /\ entry \in SessionIds \cup {NoSession}
      /\ m_sessionAddQueue \in Seq(SessionIds)
  BY TypeDef DEF Inv, Types
<1>2. CASE BeginUpdate \/ BeginMapUpdate \/ EndMapUpdate \/ UNCHANGED vars
  <2>1. UNCHANGED <<session, entry, holders>>
    BY <1>2 DEF BeginUpdate, BeginMapUpdate, EndMapUpdate, vars, world
  <2> QED  BY <2>1, TimerSame
<1>3. CASE AddSessions
  <2>1. /\ UNCHANGED <<session, holders>> /\ m_sessionAddQueue # <<>>
        /\ entry' = IF entry = NoSession THEN Head(m_sessionAddQueue) ELSE entry
    BY <1>3 DEF AddSessions
  <2>2. entry = NoSession => \A s \in SessionIds : ~session[s].player
    BY Ids DEF Inv, Players
  <2>3. Head(m_sessionAddQueue) \in SessionIds
    BY <1>1, <2>1, EmptySeq
  <2>4. holders' > 0 /\ entry' # NoSession => ~session'[entry'].player
    BY <2>1, <2>2, <2>3 DEF Timer
  <2> QED  BY <2>1, <2>4, TimerKeeps
<1>4. CASE DeleteSession
  <2>1. /\ removing \in SessionIds /\ entry' = NoSession
        /\ session' = [session EXCEPT ![removing] = [Unborn EXCEPT !.status = "deleted"]]
    BY <1>4, TypeDef DEF DeleteSession, Inv, Types
  <2>2. /\ session'[removing].status = "deleted"
        /\ \A t \in SessionIds \ {removing} : session'[t] = session[t]
    BY <1>1, <2>1 DEF Unborn
  <2> QED  BY <2>1, <2>2, TimerKeeps
<1>5. CASE Kick
  <2>1. /\ entry \in SessionIds /\ UNCHANGED <<entry, holders>>
        /\ session' = [session EXCEPT ![entry] =
                          IF session[entry].player THEN Left(session[entry]) ELSE session[entry]]
    BY <1>1, <1>5 DEF Kick, KickPlayer, world
  <2>2. ~Left(session[entry]).player /\ ~Left(session[entry]).entered
    BY <1>1, <2>1 DEF Left, LogoutRequest, SessionType
  <2> DEFINE r == IF session[entry].player THEN Left(session[entry]) ELSE session[entry]
  <2>3. ~r.player /\ (Stale(r) => Stale(session[entry]))
    BY <2>2 DEF Stale
  <2> HIDE DEF r
  <2>4. session' = [session EXCEPT ![entry] = r]
    BY <2>1 DEF r
  <2> QED  BY <2>1, <2>3, <2>4, EntryTimer
<1>6. CASE Age
  <2>1. /\ entry \in SessionIds /\ UNCHANGED <<entry, holders>>
        /\ session[entry].logoutTime \in {"recent", "over20"}
        /\ session' = [session EXCEPT ![entry].logoutTime =
                            IF @ = "recent" THEN "over20" ELSE "over60"]
    BY <1>1, <1>6 DEF Age, world
  <2> DEFINE r == [session[entry] EXCEPT !.logoutTime = IF @ = "recent" THEN "over20" ELSE "over60"]
  <2>2. /\ session' = [session EXCEPT ![entry] = r] /\ session[entry] \in SessionType
    BY <1>1, <2>1
  <2>3. r.player = session[entry].player /\ r.entered = session[entry].entered
        /\ r.asked = session[entry].asked
    BY <2>2, AgedRecord
  <2> HIDE DEF r
  <2>4. Stale(r) => Stale(session[entry])
    BY <2>1, <2>3 DEF Stale
  <2>5. holders' > 0 => ~r.player
    BY <2>1, <2>3, Ids DEF Timer
  <2> QED  BY <2>1, <2>2, <2>4, <2>5, EntryTimer
<1> QED  BY <1>2, <1>3, <1>4, <1>5, <1>6

LEMMA TimerStep == ASSUME MaxHolders <= 1, Inv, Timer, [Next]_vars PROVE Timer'
<1>1. ASSUME NEW k \in Conns, Network(k) PROVE Timer'
  BY <1>1, NetworkTimer
<1>2. CASE World
  BY <1>2, OtherTimer, PacketTimer, UpdateTimer, CallbackTimer DEF World
<1>3. CASE Kick \/ Age \/ UNCHANGED vars
  BY <1>3, OtherTimer
<1> QED  BY <1>1, <1>2, <1>3 DEF Next

\* With one login in flight at most, a player who is back in the world after a lost
\* connection is not logged out by the timer that SetOffline had started, however the
\* loss, the reconnection, the login and the logout packets interleave.  (With two, the
\* callback of the second brings a player in while the timer of the first one runs.)
THEOREM TimerStopped == ASSUME MaxHolders <= 1 PROVE Spec => []NoStaleTimer
<1>1. Init => Timer
  BY DEF Init, Timer, NoStaleTimer, Live, Unborn
<1>2. Inv /\ Timer /\ [Next]_vars => Timer'
  BY TimerStep
<1>3. Spec => []Timer
  BY <1>1, <1>2, Invariance, PTL DEF Spec
<1>4. Timer => NoStaleTimer
  BY DEF Timer
<1> QED  BY <1>3, <1>4, PTL
-----------------------------------------------------------------------------
(* Who owns the Player objects. *)

\* The Player objects that no session will log out or delete.
Orphans == players - (IF entry = NoSession THEN 0 ELSE PlayersOf(session[entry]))

\* A Player is orphaned by the callback of a login that finds its session with a player,
\* then one, and by nothing else.
OrphanedByLogin ==
    Orphans' # Orphans =>
        LoginCallback /\ entry # NoSession /\ session[entry].player /\ Orphans' = Orphans + 1

LEMMA OrphansSame ==
    ASSUME Inv, UNCHANGED <<entry, players>>,
           entry # NoSession => session'[entry].player = session[entry].player
    PROVE  Orphans' = Orphans
  BY DEF Orphans, PlayersOf

\* The account's session becomes r and the Player it gives up is deleted.
LEMMA OrphansKeep ==
    ASSUME Inv, entry \in SessionIds, UNCHANGED entry,
           NEW r, session' = [session EXCEPT ![entry] = r],
           players' = players - PlayersOf(session[entry]) + PlayersOf(r)
    PROVE  Orphans' = Orphans
<1>1. session'[entry] = r /\ players \in Nat /\ entry # NoSession
  BY TypeDef, Ids DEF Inv, Types
<1>2. PlayersOf(r) \in {0, 1} /\ PlayersOf(session[entry]) \in {0, 1}
  BY DEF PlayersOf
<1> QED  BY <1>1, <1>2 DEF Orphans

\* No network thread gives a session a player or takes one from it.
LEMMA NetworkPlayers ==
    ASSUME Inv, NEW k \in Conns, Network(k)
    PROVE  UNCHANGED <<entry, players>>
           /\ \A s \in SessionIds : session'[s].player = session[s].player
<1>1. session \in [SessionIds -> SessionType]
  BY TypeDef DEF Inv, Types
<1>2. CASE FindSession(k) \/ GetState(k) \/ Receive(k) \/ Disconnect(k)
  BY <1>2 DEF FindSession, GetState, Receive, Disconnect, world
<1>3. CASE RequestNewSocket(k)
  <2>1. UNCHANGED <<entry, players>>
    BY <1>3 DEF RequestNewSocket, world
  <2>2. \/ UNCHANGED session
        \/ session' = [session EXCEPT ![conn[k].m_session].request = k,
                                      ![conn[k].m_session].state = "CREATED"]
    BY <1>3 DEF RequestNewSocket
  <2>3. ASSUME NEW s \in SessionIds PROVE session'[s].player = session[s].player
    <3>1. session[s] \in SessionType
      BY <1>1
    <3>2. \/ session'[s] = session[s]
          \/ session'[s] = [[session[s] EXCEPT !.request = k] EXCEPT !.state = "CREATED"]
      BY <1>1, <2>2
    <3> QED  BY <3>1, <3>2 DEF SessionType
  <2> QED  BY <2>1, <2>3
<1>4. CASE QueuePacket(k)
  <2>1. UNCHANGED <<entry, players>>
    BY <1>4 DEF QueuePacket, world
  <2>2. \/ UNCHANGED session
        \/ \E q : session' = [session EXCEPT ![conn[k].m_session].recvQueue = q]
    <3>1. \A kind : session' = [session EXCEPT ![conn[k].m_session].recvQueue = Append(@, kind)]
            => \E q : session' = [session EXCEPT ![conn[k].m_session].recvQueue = q]
      OBVIOUS
    <3> QED  BY <1>4, <3>1 DEF QueuePacket
  <2>3. ASSUME NEW s \in SessionIds PROVE session'[s].player = session[s].player
    <3>1. session[s] \in SessionType
      BY <1>1
    <3>2. \/ session'[s] = session[s]
          \/ \E q : session'[s] = [session[s] EXCEPT !.recvQueue = q]
      BY <1>1, <2>2
    <3> QED  BY <3>1, <3>2 DEF SessionType
  <2> QED  BY <2>1, <2>3
<1>5. CASE CreateSession(k)
  <2>1. PICK s \in SessionIds : /\ session[s].status = "unborn"
                                /\ session' = [session EXCEPT ![s].status = "live", ![s].socket = k]
    BY <1>5 DEF CreateSession
  <2>2. UNCHANGED <<entry, players>>
    BY <1>5 DEF CreateSession
  <2>3. session'[s].player = session[s].player
        /\ \A t \in SessionIds \ {s} : session'[t] = session[t]
    <3>1. session'[s] = [[session[s] EXCEPT !.status = "live"] EXCEPT !.socket = k]
          /\ \A t \in SessionIds \ {s} : session'[t] = session[t]
      BY <1>1, <2>1
    <3>2. session[s] \in SessionType
      BY <1>1
    <3> QED  BY <3>1, <3>2 DEF SessionType
  <2> QED  BY <2>2, <2>3
<1> QED  BY <1>2, <1>3, <1>4, <1>5 DEF Network

\* A handler keeps the player, or logs it out.
LEMMA PacketPlayers ==
    ASSUME Inv, ProcessPacket
    PROVE  \E r : /\ session' = [session EXCEPT ![entry] = r]
                  /\ players' = players - PlayersOf(session[entry]) + PlayersOf(r)
<1> DEFINE q == session[entry].recvQueue
           r == [session[entry] EXCEPT !.recvQueue = Tail(q)]
<1>1. /\ updating = entry /\ entry \in SessionIds /\ session[entry] \in SessionType
      /\ players \in Nat
  BY TypeDef DEF Inv, Places, Types, ProcessPacket
<1>2. r.player = session[entry].player /\ PlayersOf(r) = PlayersOf(session[entry])
      /\ PlayersOf(r) \in {0, 1}
  <2>1. r.player = session[entry].player
    BY <1>1 DEF SessionType
  <2> QED  BY <2>1 DEF PlayersOf
<1>3. \/ HandlePlayerLoginOpcode(entry, r) \/ HandleLogoutRequestOpcode(entry, r)
      \/ HandleLogoutCancelOpcode(entry, r)
  <2>1. q # <<>> /\ q \in Seq(PacketKinds)
    BY <1>1 DEF ProcessPacket, SessionType
  <2>2. Head(q) \in PacketKinds
    BY <2>1, HeadTailProperties
  <2> QED  BY <1>1, <2>2 DEF ProcessPacket, PacketKinds
<1>4. r \in SessionType
  <2>1. q \in Seq(PacketKinds) /\ q # <<>>
    BY <1>1 DEF ProcessPacket, SessionType
  <2>2. Tail(q) \in Seq(PacketKinds)
    BY <2>1, HeadTailProperties
  <2> QED  BY <1>1, <2>2 DEF SessionType
<1> HIDE DEF r, q
<1>5. ASSUME NEW r2, session' = [session EXCEPT ![entry] = r2], UNCHANGED players,
             r2.player = r.player
      PROVE  \E d : /\ session' = [session EXCEPT ![entry] = d]
                    /\ players' = players - PlayersOf(session[entry]) + PlayersOf(d)
  <2>1. PlayersOf(r2) = PlayersOf(r)
    BY <1>5 DEF PlayersOf
  <2>2. players' = players - PlayersOf(session[entry]) + PlayersOf(r2)
    BY <1>1, <1>2, <1>5, <2>1
  <2> QED  BY <1>5, <2>2
<1>6. ASSUME LogoutPlayer(entry, r)
      PROVE  \E d : /\ session' = [session EXCEPT ![entry] = d]
                    /\ players' = players - PlayersOf(session[entry]) + PlayersOf(d)
  <2>1. PlayersOf(Left(r)) = 0
    BY <1>4 DEF PlayersOf, Left, LogoutRequest, SessionType
  <2>2. players' = players - PlayersOf(session[entry]) + PlayersOf(Left(r))
    BY <1>1, <1>2, <1>6, <2>1 DEF LogoutPlayer
  <2>3. session' = [session EXCEPT ![entry] = Left(r)]
    BY <1>6 DEF LogoutPlayer
  <2> QED  BY <2>2, <2>3
<1>7. /\ LogoutRequest([r EXCEPT !.entered = TRUE, !.asked = FALSE], "none").player = r.player
      /\ LogoutRequest([r EXCEPT !.asked = FALSE], "none").player = r.player
      /\ LogoutRequest([r EXCEPT !.asked = TRUE], "recent").player = r.player
  BY <1>4 DEF LogoutRequest, SessionType
<1>8. CASE HandlePlayerLoginOpcode(entry, r)
  BY <1>5, <1>7, <1>8 DEF HandlePlayerLoginOpcode, HandlePlayerReconnect
<1>9. CASE HandleLogoutRequestOpcode(entry, r)
  <2>1. CASE ~r.player
    BY <1>5, <1>9, <2>1 DEF HandleLogoutRequestOpcode
  <2>2. CASE r.player
    BY <1>5, <1>6, <1>7, <1>9, <2>2 DEF HandleLogoutRequestOpcode
  <2> QED  BY <2>1, <2>2
<1>10. CASE HandleLogoutCancelOpcode(entry, r)
  <2>1. CASE ~r.player
    BY <1>5, <1>10, <2>1 DEF HandleLogoutCancelOpcode
  <2>2. CASE r.player
    BY <1>5, <1>7, <1>10, <2>2 DEF HandleLogoutCancelOpcode
  <2> QED  BY <2>1, <2>2
<1> QED  BY <1>3, <1>8, <1>9, <1>10

\* So does the rest of Update.
LEMMA UpdatePlayers ==
    ASSUME Inv, UpdateState
    PROVE  /\ UNCHANGED entry /\ entry \in SessionIds
           /\ \/ UNCHANGED <<session, players>>
              \/ \E r : /\ session' = [session EXCEPT ![entry] = r]
                        /\ players' = players - PlayersOf(session[entry]) + PlayersOf(r)
<1> DEFINE r == session[entry]
<1>1. /\ updating = entry /\ entry \in SessionIds /\ entry # NoSession /\ r \in SessionType
      /\ session \in [SessionIds -> SessionType] /\ players \in Nat
  BY TypeDef DEF Inv, Places, Types, UpdateState
<1>2. /\ UNCHANGED entry
      /\ UpdateCreated(entry, r) \/ UpdateReady(entry, r) \/ UpdateOffline(entry, r)
  BY <1>1 DEF UpdateState
<1>3. PlayersOf(r) \in {0, 1}
  BY DEF PlayersOf
<1> HIDE DEF r
<1>4. ASSUME NEW r2, session' = [session EXCEPT ![entry] = r2], UNCHANGED players,
             r2.player = r.player
      PROVE  \E d : /\ session' = [session EXCEPT ![entry] = d]
                    /\ players' = players - PlayersOf(session[entry]) + PlayersOf(d)
  <2>1. PlayersOf(r2) = PlayersOf(r)
    BY <1>4 DEF PlayersOf
  <2>2. players' = players - PlayersOf(session[entry]) + PlayersOf(r2)
    BY <1>1, <1>3, <1>4, <2>1 DEF r
  <2> QED  BY <1>4, <2>2
<1>5. ASSUME LogoutPlayer(entry, r)
      PROVE  \E d : /\ session' = [session EXCEPT ![entry] = d]
                    /\ players' = players - PlayersOf(session[entry]) + PlayersOf(d)
  <2>1. PlayersOf(Left(r)) = 0
    BY <1>1 DEF PlayersOf, Left, LogoutRequest, SessionType
  <2>2. players' = players - PlayersOf(session[entry]) + PlayersOf(Left(r))
    BY <1>1, <1>3, <1>5, <2>1 DEF LogoutPlayer, r
  <2>3. session' = [session EXCEPT ![entry] = Left(r)]
    BY <1>5 DEF LogoutPlayer
  <2> QED  BY <2>2, <2>3
<1>6. SetOffline(r) \in SessionType /\ SetOffline(r).player = r.player
  BY <1>1, OfflineFields
<1>7. CASE UpdateCreated(entry, r)
  <2>1. CASE r.request # NoConn
    <3> DEFINE r2 == [SetOffline(r) EXCEPT !.socket = r.request, !.request = NoConn, !.state = "READY"]
    <3>1. r2.player = r.player
      BY <1>6 DEF SessionType
    <3>2. session' = [session EXCEPT ![entry] = r2] /\ UNCHANGED players
      BY <1>7, <2>1 DEF UpdateCreated, TakeRequestedSocket
    <3> HIDE DEF r2
    <3> QED  BY <1>2, <1>1, <1>4, <3>1, <3>2
  <2>2. CASE r.request = NoConn
    <3> DEFINE r2 == [r EXCEPT !.state = "READY"]
    <3>1. r2.player = r.player
      BY <1>1 DEF SessionType
    <3>2. session' = [session EXCEPT ![entry] = r2] /\ UNCHANGED players
      BY <1>1, <1>7, <2>2 DEF UpdateCreated, r
    <3> HIDE DEF r2
    <3> QED  BY <1>2, <1>1, <1>4, <3>1, <3>2
  <2> QED  BY <2>1, <2>2
<1>8. CASE UpdateReady(entry, r)
  BY <1>1, <1>2, <1>4, <1>5, <1>6, <1>8 DEF UpdateReady
<1>9. CASE UpdateOffline(entry, r)
  BY <1>1, <1>2, <1>5, <1>9 DEF UpdateOffline
<1> QED  BY <1>2, <1>7, <1>8, <1>9

LEMMA OrphansStep == ASSUME Inv, [Next]_vars PROVE OrphanedByLogin
<1>1. /\ session \in [SessionIds -> SessionType] /\ entry \in SessionIds \cup {NoSession}
      /\ m_sessionAddQueue \in Seq(SessionIds) /\ players \in Nat
  BY TypeDef DEF Inv, Types
<1>2. ASSUME NEW k \in Conns, Network(k) PROVE Orphans' = Orphans
  BY <1>1, <1>2, NetworkPlayers, OrphansSame
<1>3. CASE BeginUpdate \/ BeginMapUpdate \/ EndMapUpdate \/ UNCHANGED vars
  <2>1. UNCHANGED <<session, entry, players>>
    BY <1>3 DEF BeginUpdate, BeginMapUpdate, EndMapUpdate, vars, world
  <2>2. Orphans' = Orphans
    BY <2>1, OrphansSame
  <2> QED  BY <2>2 DEF OrphanedByLogin
<1>4. CASE AddSessions
  <2>1. /\ UNCHANGED <<session, players>> /\ m_sessionAddQueue # <<>>
        /\ entry' = IF entry = NoSession THEN Head(m_sessionAddQueue) ELSE entry
    BY <1>4 DEF AddSessions
  <2>2. entry = NoSession => ~session[Head(m_sessionAddQueue)].player
    <3>1. Head(m_sessionAddQueue) \in SessionIds
      BY <1>1, <2>1, HeadTailProperties
    <3> QED  BY <3>1, Ids DEF Inv, Players
  <2>3. CASE entry = NoSession
    <3>1. Orphans = players - 0
      BY <2>3 DEF Orphans
    <3>2. PlayersOf(session'[entry']) = 0
      BY <2>1, <2>2, <2>3 DEF PlayersOf
    <3>3. Orphans' = players - 0
      BY <2>1, <3>2 DEF Orphans
    <3> QED  BY <3>1, <3>3 DEF OrphanedByLogin
  <2>4. CASE entry # NoSession
    BY <2>1, <2>4, OrphansSame DEF OrphanedByLogin
  <2> QED  BY <2>3, <2>4
<1>5. CASE ProcessPacket
  <2>1. entry \in SessionIds /\ UNCHANGED entry
    BY <1>5, PacketEffect DEF world
  <2>2. Orphans' = Orphans
    BY <1>5, <2>1, PacketPlayers, OrphansKeep
  <2> QED  BY <2>2 DEF OrphanedByLogin
<1>6. CASE UpdateState
  <2>1. Orphans' = Orphans
    BY <1>6, UpdatePlayers, OrphansKeep, OrphansSame
  <2> QED  BY <2>1 DEF OrphanedByLogin
<1>7. CASE DeleteSession
  <2>1. /\ removing = entry /\ entry # NoSession /\ entry' = NoSession
        /\ players' = players - PlayersOf(session[entry])
    BY <1>7 DEF DeleteSession, Inv, Places
  <2>2. PlayersOf(session[entry]) \in {0, 1}
    BY DEF PlayersOf
  <2>3. Orphans' = Orphans
    BY <1>1, <2>1, <2>2 DEF Orphans
  <2> QED  BY <2>3 DEF OrphanedByLogin
<1>8. CASE LoginCallback
  <2>1. CASE UNCHANGED <<session, players>>
    <3>1. Orphans' = Orphans
      BY <1>8, <2>1, CallbackEffect, OrphansSame
    <3> QED  BY <3>1 DEF OrphanedByLogin
  <2>2. ASSUME entry # NoSession, players' = players + 1, NEW e \in BOOLEAN,
               session' = [session EXCEPT ![entry] =
                        [session[entry] EXCEPT !.player = TRUE, !.entered = e]]
        PROVE  OrphanedByLogin
    <3>1. entry \in SessionIds /\ session[entry] \in SessionType /\ UNCHANGED entry
      BY <1>1, <1>8, <2>2, CallbackEffect
    <3>2. session'[entry].player /\ players \in Nat
      BY <1>1, <2>2, <3>1, EnteredRecord
    <3>3. Orphans = players - PlayersOf(session[entry]) /\ Orphans' = players + 1 - 1
      BY <2>2, <3>1, <3>2 DEF Orphans, PlayersOf
    <3>4. CASE session[entry].player
      <4>1. PlayersOf(session[entry]) = 1
        BY <3>4 DEF PlayersOf
      <4> QED  BY <1>1, <1>8, <2>2, <3>3, <3>4, <4>1 DEF OrphanedByLogin
    <3>5. CASE ~session[entry].player
      <4>1. PlayersOf(session[entry]) = 0
        BY <3>5 DEF PlayersOf
      <4> QED  BY <1>1, <3>3, <4>1 DEF OrphanedByLogin
    <3> QED  BY <3>4, <3>5
  <2> QED  BY <1>8, <2>1, <2>2, CallbackEffect
<1>9. CASE Kick
  <2> DEFINE r == IF session[entry].player THEN Left(session[entry]) ELSE session[entry]
  <2>1. /\ entry \in SessionIds /\ UNCHANGED entry /\ session' = [session EXCEPT ![entry] = r]
        /\ players' = players - PlayersOf(session[entry])
    BY <1>1, <1>9 DEF Kick, KickPlayer, world
  <2>2. ~r.player
    BY <1>1, <2>1 DEF Left, LogoutRequest, SessionType
  <2> HIDE DEF r
  <2>3. PlayersOf(r) = 0 /\ PlayersOf(session[entry]) \in {0, 1}
    BY <2>2 DEF PlayersOf
  <2>4. players' = players - PlayersOf(session[entry]) + PlayersOf(r)
    BY <1>1, <2>1, <2>3
  <2>5. Orphans' = Orphans
    BY <2>1, <2>4, OrphansKeep
  <2> QED  BY <2>5 DEF OrphanedByLogin
<1>10. CASE Age
  <2> DEFINE r == [session[entry] EXCEPT !.logoutTime = IF @ = "recent" THEN "over20" ELSE "over60"]
  <2>1. /\ entry \in SessionIds /\ UNCHANGED <<entry, players>>
        /\ session' = [session EXCEPT ![entry] = r] /\ session[entry] \in SessionType
    BY <1>1, <1>10 DEF Age, world
  <2>2. r.player = session[entry].player
    BY <2>1, AgedRecord
  <2> HIDE DEF r
  <2>3. session'[entry] = r
    BY <1>1, <2>1
  <2>4. Orphans' = Orphans
    BY <2>1, <2>2, <2>3, OrphansSame
  <2> QED  BY <2>4 DEF OrphanedByLogin
<1>11. (\E k \in Conns : Network(k)) => OrphanedByLogin
  BY <1>2 DEF OrphanedByLogin
<1> QED  BY <1>3, <1>4, <1>5, <1>6, <1>7, <1>8, <1>9, <1>10, <1>11 DEF Next, World

\* Logouts, kicks, deletions and reconnections delete exactly the Player they take from
\* the session, however they interleave: a Player object without a session is made by
\* HandlePlayerLoginCallback where the session has a player already, one at a time, and
\* nothing removes it later.
THEOREM OrphansOnlyFromLogin == Spec => [][OrphanedByLogin]_vars
  BY Invariance, OrphansStep, PTL DEF Spec

\* With one login in flight at most the Player objects are those of the sessions.  (The
\* handler "means to refuse a try to login again while already in loading stage", but
\* nothing does: PlayersOwned fails with two.)
THEOREM OwnedPlayers == ASSUME MaxHolders <= 1 PROVE Spec => []PlayersOwned
<1> DEFINE Owned == Orphans = 0
<1>1. Init => Timer /\ Owned
  BY DEF Init, Timer, NoStaleTimer, Live, Unborn, Orphans
<1>2. Inv /\ Timer /\ Owned /\ [Next]_vars => Timer' /\ Owned'
  <2> SUFFICES ASSUME Inv, Timer, Owned, [Next]_vars PROVE Timer' /\ Owned'
    OBVIOUS
  <2>1. Timer' /\ OrphanedByLogin
    BY TimerStep, OrphansStep
  <2>2. ~(LoginCallback /\ entry # NoSession /\ session[entry].player)
    BY DEF Timer, LoginCallback
  <2> QED  BY <2>1, <2>2 DEF OrphanedByLogin
<1>3. Inv /\ Owned => PlayersOwned
  <2> SUFFICES ASSUME Inv, Owned PROVE PlayersOwned
    OBVIOUS
  <2> DEFINE S == {s \in SessionIds : session[s].player}
  <2>1. players \in Nat /\ entry \in SessionIds \cup {NoSession}
    BY TypeDef DEF Inv, Types
  <2>2. S \subseteq {entry}
    BY DEF Inv, Players
  <2>3. CASE S = {}
    <3>1. Cardinality(S) = 0
      BY <2>3, FS_EmptySet
    <3>2. entry # NoSession => PlayersOf(session[entry]) = 0
      BY <2>1, <2>3 DEF PlayersOf
    <3>3. players = 0
      BY <2>1, <3>2 DEF Orphans
    <3> QED  BY <3>1, <3>3 DEF PlayersOwned
  <2>4. CASE S = {entry}
    <3>1. Cardinality(S) = 1
      BY <2>4, FS_Singleton
    <3>2. entry # NoSession /\ PlayersOf(session[entry]) = 1
      BY <2>4, Ids DEF PlayersOf
    <3>3. players = 1
      BY <2>1, <3>2 DEF Orphans
    <3> QED  BY <3>1, <3>3 DEF PlayersOwned
  <2> QED  BY <2>2, <2>3, <2>4
<1> HIDE DEF Owned
<1> QED  BY <1>1, <1>2, <1>3, Invariance, PTL DEF Spec
-----------------------------------------------------------------------------
(* Who waits in HandleAuthSession: RequestAnswered without the fairness. *)

\* The network thread of k waits for a session that exists.
Waits(k) == conn[k].pc = "waiting" /\ Live(conn[k].m_session)

\* Its loop ends at the next look.
MayGo(k) == session[conn[k].m_session].state = "READY" \/ ~conn[k].open

\* How many Updates of the session it is from being let go for good.
UpdatesToGo(k) ==
    IF ~conn[k].open THEN 0 ELSE IF session[conn[k].m_session].socket = k THEN 1 ELSE 2

\* Who waits, waits for the account's own session, which every tick updates.
WaitsForEntry ==
    \A k \in Conns : Waits(k) => conn[k].m_session = entry /\ session[entry].state # "OFFLINE"

\* One Update of the session is enough: after it the thread's loop ends at its next look.
\* Another connection can make it wait once more, not twice, and nothing else puts it back.
WaitShrinks ==
    \A k \in Conns :
        Waits(k) /\ conn'[k].pc = "waiting" /\ Live(conn[k].m_session)' =>
            /\ UpdatesToGo(k)' <= UpdatesToGo(k)
            /\ UpdateState => MayGo(k)'
            /\ MayGo(k) /\ ~MayGo(k)' =>
                /\ UpdatesToGo(k) = 1
                /\ \E j \in Conns \ {k} : RequestNewSocket(j)

\* What this needs beside Inv: a session looked up is the account's until it is deleted,
\* and one that is offline has let its socket go.
Attached ==
    /\ \A k \in Conns :
         conn[k].pc \in {"request", "waiting"} /\ Live(conn[k].m_session)
             => conn[k].m_session = entry
    /\ \A s \in SessionIds : Live(s) /\ session[s].state = "OFFLINE" => session[s].socket = NoConn

LEMMA WaitsByAttached == Inv /\ Attached => WaitsForEntry
<1> SUFFICES ASSUME Inv, Attached, NEW k \in Conns, Waits(k)
             PROVE  conn[k].m_session = entry /\ session[entry].state # "OFFLINE"
  BY DEF WaitsForEntry
<1>1. conn[k].m_session = entry /\ Live(entry) /\ k # NoConn
  BY Ids DEF Attached, Waits
<1>2. entry \in SessionIds
  BY <1>1, TypeDef DEF Inv, Types, Live
<1>3. CASE k = session[entry].request
  BY <1>1, <1>2, <1>3 DEF Inv, Matched
<1>4. CASE k = session[entry].socket
  BY <1>1, <1>2, <1>4 DEF Attached
<1>5. k \in {session[entry].request, session[entry].socket}
  BY <1>1 DEF Inv, Answered, Waits
<1> QED  BY <1>1, <1>3, <1>4, <1>5

\* Who waits although it may go is closed, or is its session's socket.
LEMMA MayGoSocket ==
    ASSUME Inv, NEW k \in Conns, Waits(k), MayGo(k), conn[k].open
    PROVE  session[conn[k].m_session].state = "READY" /\ session[conn[k].m_session].socket = k
<1>1. conn[k].m_session \in SessionIds /\ k # NoConn
  BY TypeDef, Ids DEF Inv, Types, ConnType, Waits, Live
<1>2. session[conn[k].m_session].state = "READY"
  BY DEF MayGo
<1>3. k # session[conn[k].m_session].request
  BY <1>1, <1>2 DEF Inv, Matched, Waits
<1> QED  BY <1>2, <1>3 DEF Inv, Answered, Waits

\* Most steps leave the states and sockets of the sessions alone and make nobody wait.
Quiet ==
    /\ \A s \in SessionIds :
         /\ session'[s].status = session[s].status /\ session'[s].state = session[s].state
         /\ session'[s].socket = session[s].socket
    /\ \A k \in Conns :
         /\ conn'[k].m_session = conn[k].m_session
         /\ conn'[k].open => conn[k].open
         /\ conn'[k].pc \in {"request", "waiting"} => conn'[k].pc = conn[k].pc
    /\ entry' = entry \/ entry = NoSession

LEMMA QuietWaits ==
    ASSUME Inv, Attached, Quiet, ~UpdateState
    PROVE  Attached' /\ WaitShrinks
<1>1. /\ \A s : Live(s)' <=> s # NoSession /\ session'[s].status = "live"
      /\ \A k \in Conns : conn[k].m_session \in SessionIds \cup {NoSession}
  BY TypeDef DEF Inv, Types, ConnType, Live
<1>2. \A s \in SessionIds : Live(s)' <=> Live(s)
  BY DEF Live, Quiet
<1>3. ASSUME NEW k \in Conns, conn'[k].pc \in {"request", "waiting"}, Live(conn[k].m_session)'
      PROVE  /\ conn'[k].m_session = conn[k].m_session /\ conn[k].m_session \in SessionIds
             /\ conn'[k].pc = conn[k].pc /\ Live(conn[k].m_session)
  <2>1. conn'[k].m_session = conn[k].m_session /\ conn'[k].pc = conn[k].pc
    BY <1>3 DEF Quiet
  <2>2. conn'[k].m_session # NoSession
    BY <1>3 DEF Live
  <2>3. conn[k].m_session \in SessionIds
    BY <1>1, <2>1, <2>2
  <2>4. Live(conn[k].m_session)
    BY <1>3, <2>1, <2>3 DEF Live, Quiet
  <2> QED  BY <2>1, <2>3, <2>4
<1>4. Attached'
  <2>1. ASSUME NEW k \in Conns, conn'[k].pc \in {"request", "waiting"}, Live(conn[k].m_session)'
        PROVE  conn'[k].m_session = entry'
    <3>1. conn[k].m_session = entry /\ entry # NoSession
      BY <1>3, <2>1 DEF Attached, Live
    <3> QED  BY <1>3, <2>1, <3>1 DEF Quiet
  <2>2. ASSUME NEW s \in SessionIds, Live(s)', session'[s].state = "OFFLINE"
        PROVE  session'[s].socket = NoConn
    BY <1>2, <2>2 DEF Attached, Quiet
  <2> QED  BY <2>1, <2>2 DEF Attached
<1>5. ASSUME NEW k \in Conns, Waits(k), conn'[k].pc = "waiting", Live(conn[k].m_session)'
      PROVE  /\ UpdatesToGo(k)' <= UpdatesToGo(k)
             /\ MayGo(k) => MayGo(k)'
  <2>1. /\ conn'[k].m_session = conn[k].m_session /\ conn[k].m_session \in SessionIds
        /\ conn'[k].open => conn[k].open
    BY <1>3, <1>5 DEF Quiet
  <2>2. /\ session'[conn'[k].m_session].state = session[conn[k].m_session].state
        /\ session'[conn'[k].m_session].socket = session[conn[k].m_session].socket
    BY <2>1 DEF Quiet
  <2> QED  BY <2>1, <2>2 DEF UpdatesToGo, MayGo
<1>6. WaitShrinks
  BY <1>5 DEF WaitShrinks
<1> QED  BY <1>4, <1>6

LEMMA FindWaits ==
    ASSUME Inv, Attached, NEW j \in Conns, FindSession(j), ~UpdateState
    PROVE  Attached' /\ WaitShrinks
<1>1. conn \in [Conns -> ConnType] /\ UNCHANGED <<session, entry>> /\ conn[j].pc = "off"
  BY TypeDef DEF Inv, Types, FindSession, world
<1>2. /\ \A k \in Conns \ {j} : conn'[k] = conn[k]
      /\ conn'[j].m_session = entry /\ conn'[j].pc # "waiting"
  BY <1>1 DEF FindSession
<1>3. Attached'
  <2>1. ASSUME NEW k \in Conns, conn'[k].pc \in {"request", "waiting"}, Live(conn[k].m_session)'
        PROVE  conn'[k].m_session = entry'
    <3>1. CASE k = j
      BY <1>1, <1>2, <3>1
    <3>2. CASE k # j
      <4>1. conn'[k] = conn[k]
        BY <1>2, <3>2
      <4> QED  BY <1>1, <2>1, <4>1 DEF Attached, Live
    <3> QED  BY <3>1, <3>2
  <2>2. ASSUME NEW s \in SessionIds, Live(s)', session'[s].state = "OFFLINE"
        PROVE  session'[s].socket = NoConn
    BY <1>1, <2>2 DEF Attached, Live
  <2> QED  BY <2>1, <2>2 DEF Attached
<1>4. ASSUME NEW k \in Conns, Waits(k), conn'[k].pc = "waiting"
      PROVE  /\ UpdatesToGo(k)' <= UpdatesToGo(k)
             /\ MayGo(k) => MayGo(k)'
  <2>1. conn'[k] = conn[k]
    BY <1>2, <1>4
  <2> QED  BY <1>1, <2>1 DEF UpdatesToGo, MayGo
<1>5. WaitShrinks
  BY <1>4 DEF WaitShrinks
<1> QED  BY <1>3, <1>5

LEMMA CreateWaits ==
    ASSUME Inv, Attached, NEW j \in Conns, CreateSession(j), ~UpdateState
    PROVE  Attached' /\ WaitShrinks
<1>1. PICK s \in SessionIds :
        /\ session[s].status = "unborn"
        /\ session' = [session EXCEPT ![s].status = "live", ![s].socket = j]
        /\ conn' = [conn EXCEPT ![j].m_session = s, ![j].pc = "authed"]
  BY DEF CreateSession
<1>2. /\ conn \in [Conns -> ConnType] /\ session \in [SessionIds -> SessionType]
      /\ UNCHANGED entry
  BY TypeDef DEF Inv, Types, CreateSession
<1>3. /\ \A k \in Conns \ {j} : conn'[k] = conn[k]
      /\ conn'[j].pc = "authed"
  BY <1>1, <1>2 DEF ConnType
<1>4. /\ \A t \in SessionIds \ {s} : session'[t] = session[t]
      /\ session'[s].state = "CREATED"
  <2>1. session[s] = Unborn
    BY <1>1 DEF Inv, Born
  <2> QED  BY <1>1, <1>2, <2>1 DEF Unborn
<1>5. ASSUME NEW k \in Conns, conn'[k].pc \in {"request", "waiting"}, Live(conn[k].m_session)'
      PROVE  /\ conn'[k] = conn[k] /\ Live(conn[k].m_session)
             /\ session'[conn[k].m_session] = session[conn[k].m_session]
  <2>1. conn'[k] = conn[k]
    BY <1>3, <1>5
  <2>2. conn[k].m_session # NoSession
    BY <1>5, <2>1 DEF Live
  <2>3. conn[k].m_session \in SessionIds \ {s}
    BY <1>1, <1>2, <2>2 DEF Inv, Answered, ConnType
  <2>4. session'[conn[k].m_session] = session[conn[k].m_session]
    BY <1>4, <2>3
  <2> QED  BY <1>5, <2>1, <2>4 DEF Live
<1>6. Attached'
  <2>1. ASSUME NEW k \in Conns, conn'[k].pc \in {"request", "waiting"}, Live(conn[k].m_session)'
        PROVE  conn'[k].m_session = entry'
    BY <1>2, <1>5, <2>1 DEF Attached
  <2>2. ASSUME NEW t \in SessionIds, Live(t)', session'[t].state = "OFFLINE"
        PROVE  session'[t].socket = NoConn
    BY <1>4, <2>2 DEF Attached, Live
  <2> QED  BY <2>1, <2>2 DEF Attached
<1>7. ASSUME NEW k \in Conns, Waits(k), conn'[k].pc = "waiting", Live(conn[k].m_session)'
      PROVE  /\ UpdatesToGo(k)' <= UpdatesToGo(k)
             /\ MayGo(k) => MayGo(k)'
  <2>1. conn'[k] = conn[k] /\ session'[conn[k].m_session] = session[conn[k].m_session]
    BY <1>5, <1>7
  <2> QED  BY <2>1 DEF UpdatesToGo, MayGo
<1>8. WaitShrinks
  BY <1>7 DEF WaitShrinks
<1> QED  BY <1>6, <1>8

\* The one step that can put a thread back which might go: the session is CREATED again.
LEMMA RequestWaits ==
    ASSUME Inv, Attached, NEW j \in Conns, RequestNewSocket(j), ~UpdateState
    PROVE  Attached' /\ WaitShrinks
<1> DEFINE m == conn[j].m_session
<1>1. /\ conn \in [Conns -> ConnType] /\ session \in [SessionIds -> SessionType]
      /\ UNCHANGED entry /\ conn[j].pc = "request"
  BY TypeDef DEF Inv, Types, RequestNewSocket, world
<1>2. \/ UNCHANGED session
      \/ /\ Live(m)
         /\ session' = [session EXCEPT ![m].request = j, ![m].state = "CREATED"]
  BY DEF RequestNewSocket
<1>3. /\ \A k \in Conns \ {j} : conn'[k] = conn[k]
      /\ conn'[j].m_session = conn[j].m_session
      /\ conn'[j].open => conn[j].open
  BY <1>1 DEF RequestNewSocket, ConnType
<1>4. ASSUME NEW s \in SessionIds
      PROVE  /\ session'[s].status = session[s].status /\ session'[s].socket = session[s].socket
             /\ session'[s].state \in {session[s].state, "CREATED"}
  <2>1. session[s] \in SessionType
    BY <1>1
  <2>2. \/ session'[s] = session[s]
        \/ session'[s] = [[session[s] EXCEPT !.request = j] EXCEPT !.state = "CREATED"]
    BY <1>1, <1>2
  <2> QED  BY <2>1, <2>2 DEF SessionType, States
<1>5. Attached'
  <2>1. ASSUME NEW k \in Conns, conn'[k].pc \in {"request", "waiting"}, Live(conn[k].m_session)'
        PROVE  conn'[k].m_session = entry'
    <3>1. conn'[k].m_session = conn[k].m_session /\ conn[k].pc \in {"request", "waiting"}
      BY <1>1, <1>3, <2>1
    <3>2. conn[k].m_session \in SessionIds
      BY <1>1, <2>1, <3>1 DEF ConnType, Live
    <3>3. Live(conn[k].m_session)
      BY <1>4, <2>1, <3>1, <3>2 DEF Live
    <3> QED  BY <1>1, <3>1, <3>3 DEF Attached
  <2>2. ASSUME NEW s \in SessionIds, Live(s)', session'[s].state = "OFFLINE"
        PROVE  session'[s].socket = NoConn
    <3>1. session[s].state = "OFFLINE" /\ Live(s)
      BY <1>4, <2>2 DEF Live
    <3> QED  BY <1>4, <3>1 DEF Attached
  <2> QED  BY <2>1, <2>2 DEF Attached
<1>6. ASSUME NEW k \in Conns, Waits(k)
      PROVE  /\ UpdatesToGo(k)' <= UpdatesToGo(k)
             /\ MayGo(k) /\ ~MayGo(k)' =>
                  UpdatesToGo(k) = 1 /\ \E i \in Conns \ {k} : RequestNewSocket(i)
  <2>1. k # j /\ conn'[k] = conn[k] /\ conn[k].m_session \in SessionIds
    BY <1>1, <1>3, <1>6 DEF Waits, Live, ConnType
  <2>2. UpdatesToGo(k)' <= UpdatesToGo(k)
    BY <1>4, <2>1 DEF UpdatesToGo
  <2>3. ASSUME MayGo(k), ~MayGo(k)' PROVE UpdatesToGo(k) = 1
    <3>1. conn[k].open
      BY <2>1, <2>3 DEF MayGo
    <3>2. session[conn[k].m_session].socket = k
      BY <1>6, <2>3, <3>1, MayGoSocket
    <3> QED  BY <3>1, <3>2 DEF UpdatesToGo
  <2> QED  BY <2>1, <2>2, <2>3
<1>7. WaitShrinks
  BY <1>6 DEF WaitShrinks
<1> QED  BY <1>5, <1>7

LEMMA ReleaseEffect ==
    ASSUME Inv, NEW c \in Conns \cup {NoConn}, conn' = Release(c)
    PROVE  /\ \A k \in Conns \ {c} : conn'[k] = conn[k]
           /\ c \in Conns => conn'[c].m_session = NoSession
<1>1. conn \in [Conns -> ConnType]
  BY TypeDef DEF Inv, Types
<1>2. CASE c = NoConn
  BY <1>2, Ids DEF Release, Finalize, Close
<1>3. CASE c # NoConn
  <2>1. conn' = [[conn EXCEPT ![c].open = FALSE] EXCEPT ![c].m_session = NoSession] /\ c \in Conns
    BY <1>3 DEF Release, Finalize, Close
  <2>2. conn'[c] = [[conn[c] EXCEPT !.open = FALSE] EXCEPT !.m_session = NoSession]
        /\ \A k \in Conns \ {c} : conn'[k] = conn[k]
    BY <1>1, <2>1
  <2> QED  BY <1>1, <2>1, <2>2, FreedType
<1> QED  BY <1>2, <1>3

\* A session in its Update takes the socket that asks for it, is READY with the one it
\* has, lets it go or stays offline.
LEMMA UpdateEffect ==
    ASSUME Inv, UpdateState
    PROVE  LET r == session[entry]  d == session'[entry] IN
           /\ entry \in SessionIds /\ Live(entry) /\ UNCHANGED entry
           /\ d.status = r.status /\ \A t \in SessionIds \ {entry} : session'[t] = session[t]
           /\ \/ /\ r.state = "CREATED" /\ r.request # NoConn
                 /\ d.state = "READY" /\ d.socket = r.request /\ conn' = Release(r.socket)
              \/ r.state # "OFFLINE" /\ d.state = "READY" /\ d.socket = r.socket /\ UNCHANGED conn
              \/ /\ r.state = "READY" /\ d.state = "OFFLINE" /\ d.socket = NoConn
                 /\ conn' = Release(r.socket)
              \/ r.state = "OFFLINE" /\ d.state = "OFFLINE" /\ d.socket = r.socket /\ UNCHANGED conn
<1> DEFINE r == session[entry]
<1>1. /\ updating = entry /\ entry \in SessionIds /\ entry # NoSession /\ Live(entry)
      /\ r \in SessionType /\ session \in [SessionIds -> SessionType]
  BY TypeDef DEF Inv, Places, Types, UpdateState
<1>2. /\ UNCHANGED entry
      /\ UpdateCreated(entry, r) \/ UpdateReady(entry, r) \/ UpdateOffline(entry, r)
  BY <1>1 DEF UpdateState
<1>3. \A d : session' = [session EXCEPT ![entry] = d] =>
              session'[entry] = d /\ \A t \in SessionIds \ {entry} : session'[t] = session[t]
  BY <1>1
<1>4. UNCHANGED session =>
              session'[entry] = r /\ \A t \in SessionIds \ {entry} : session'[t] = session[t]
  OBVIOUS
<1> HIDE DEF r
<1>5. /\ Left(r).status = r.status /\ Left(r).state = r.state /\ Left(r).socket = r.socket
  BY <1>1 DEF Left, LogoutRequest, SessionType
<1>6. /\ SetOffline(r) \in SessionType /\ SetOffline(r).status = r.status
      /\ SetOffline(r).socket = NoConn
  BY <1>1, OfflineFields
<1>7. SetOffline(r).state = "OFFLINE"
  <2> DEFINE d == IF r.player THEN LogoutRequest(r, "recent") ELSE r
  <2>1. d \in SessionType
    BY <1>1 DEF LogoutRequest, LogoutTimes, SessionType
  <2>2. SetOffline(r) = [d EXCEPT !.socket = NoConn, !.state = "OFFLINE", !.entered = FALSE, !.asked = FALSE]
    BY DEF SetOffline
  <2> HIDE DEF d
  <2> QED  BY <2>1, <2>2 DEF SessionType
<1> DEFINE d == session'[entry]
<1>8. CASE UpdateCreated(entry, r)
  <2>1. CASE r.request # NoConn
    <3> DEFINE r2 == [SetOffline(r) EXCEPT !.socket = r.request, !.request = NoConn, !.state = "READY"]
    <3>1. r2.status = r.status /\ r2.state = "READY" /\ r2.socket = r.request
      BY <1>6 DEF SessionType
    <3>2. session' = [session EXCEPT ![entry] = r2] /\ conn' = Release(r.socket) /\ r.state = "CREATED"
      BY <1>8, <2>1 DEF UpdateCreated, TakeRequestedSocket
    <3> HIDE DEF r2
    <3>3. d = r2 /\ \A t \in SessionIds \ {entry} : session'[t] = session[t]
      BY <1>3, <3>2
    <3> QED  BY <1>1, <1>2, <2>1, <3>1, <3>2, <3>3 DEF r
  <2>2. CASE r.request = NoConn
    <3> DEFINE r2 == [r EXCEPT !.state = "READY"]
    <3>1. r2.status = r.status /\ r2.state = "READY" /\ r2.socket = r.socket
      BY <1>1 DEF SessionType
    <3>2. session' = [session EXCEPT ![entry] = r2] /\ UNCHANGED conn /\ r.state = "CREATED"
      BY <1>1, <1>8, <2>2 DEF UpdateCreated, r
    <3> HIDE DEF r2
    <3>3. d = r2 /\ \A t \in SessionIds \ {entry} : session'[t] = session[t]
      BY <1>3, <3>2
    <3> QED  BY <1>1, <1>2, <2>2, <3>1, <3>2, <3>3 DEF r
  <2> QED  BY <2>1, <2>2
<1>9. CASE UpdateReady(entry, r)
  <2>1. CASE UNCHANGED <<session, conn>>
    BY <1>1, <1>2, <1>4, <1>9, <2>1 DEF UpdateReady, r
  <2>2. CASE session' = [session EXCEPT ![entry] = Left(r)] /\ UNCHANGED conn
    <3>1. d = Left(r) /\ \A t \in SessionIds \ {entry} : session'[t] = session[t]
      BY <1>3, <2>2
    <3> QED  BY <1>1, <1>2, <1>5, <1>9, <2>2, <3>1 DEF UpdateReady, r
  <2>3. CASE session' = [session EXCEPT ![entry] = SetOffline(r)] /\ conn' = Release(r.socket)
    <3>1. d = SetOffline(r) /\ \A t \in SessionIds \ {entry} : session'[t] = session[t]
      BY <1>3, <2>3
    <3> QED  BY <1>1, <1>2, <1>6, <1>7, <1>9, <2>3, <3>1 DEF UpdateReady, r
  <2> QED  BY <1>9, <2>1, <2>2, <2>3 DEF UpdateReady, LogoutPlayer
<1>10. CASE UpdateOffline(entry, r)
  <2>1. CASE UNCHANGED session
    BY <1>1, <1>2, <1>4, <1>10, <2>1 DEF UpdateOffline, r
  <2>2. CASE session' = [session EXCEPT ![entry] = Left(r)]
    <3>1. d = Left(r) /\ \A t \in SessionIds \ {entry} : session'[t] = session[t]
      BY <1>3, <2>2
    <3> QED  BY <1>1, <1>2, <1>5, <1>10, <2>2, <3>1 DEF UpdateOffline, r
  <2> QED  BY <1>10, <2>1, <2>2 DEF UpdateOffline, LogoutPlayer
<1> QED  BY <1>2, <1>8, <1>9, <1>10

\* After it who waited may go, or was let go with the session's old socket.
LEMMA UpdateWaits == ASSUME Inv, Attached, UpdateState PROVE Attached' /\ WaitShrinks
<1> DEFINE r == session[entry]
           d == session'[entry]
<1>1. /\ entry \in SessionIds /\ entry # NoSession /\ Live(entry) /\ UNCHANGED entry
      /\ d.status = r.status /\ \A t \in SessionIds \ {entry} : session'[t] = session[t]
  BY UpdateEffect, Ids
<1>2. /\ session \in [SessionIds -> SessionType] /\ conn \in [Conns -> ConnType]
  BY TypeDef DEF Inv, Types
<1>3. r.socket \in Conns \cup {NoConn} /\ r.request \in Conns \cup {NoConn}
  BY <1>1, <1>2 DEF SessionType
<1>4. r.request # NoConn => r.state = "CREATED" /\ r.request # r.socket
  BY <1>1 DEF Inv, Matched
<1>5. \/ /\ r.state = "CREATED" /\ r.request # NoConn
         /\ d.state = "READY" /\ d.socket = r.request /\ conn' = Release(r.socket)
      \/ r.state # "OFFLINE" /\ d.state = "READY" /\ d.socket = r.socket /\ UNCHANGED conn
      \/ /\ r.state = "READY" /\ d.state = "OFFLINE" /\ d.socket = NoConn
         /\ conn' = Release(r.socket)
      \/ r.state = "OFFLINE" /\ d.state = "OFFLINE" /\ d.socket = r.socket /\ UNCHANGED conn
  BY UpdateEffect
<1> HIDE DEF r, d
<1>6. ASSUME NEW k \in Conns
      PROVE  \/ conn'[k] = conn[k] /\ (conn' = Release(r.socket) => k # r.socket)
             \/ conn'[k].m_session = NoSession
  <2>1. CASE UNCHANGED conn /\ conn' # Release(r.socket)
    BY <2>1
  <2>2. CASE conn' = Release(r.socket)
    BY <1>3, <2>2, ReleaseEffect
  <2> QED  BY <1>5, <2>1, <2>2
<1>7. ASSUME NEW s \in SessionIds PROVE Live(s)' <=> Live(s)
  <2>1. session'[s].status = session[s].status
    BY <1>1 DEF r, d
  <2> QED  BY <2>1 DEF Live
<1>8. Attached'
  <2>1. ASSUME NEW k \in Conns, conn'[k].pc \in {"request", "waiting"}, Live(conn[k].m_session)'
        PROVE  conn'[k].m_session = entry'
    <3>1. conn'[k] = conn[k]
      BY <1>6, <2>1 DEF Live
    <3>2. conn[k].m_session \in SessionIds
      BY <1>2, <2>1, <3>1 DEF ConnType, Live
    <3>3. session'[conn[k].m_session].status = session[conn[k].m_session].status
      BY <1>1, <3>2 DEF r, d
    <3>4. Live(conn[k].m_session)
      BY <2>1, <3>1, <3>3 DEF Live
    <3> QED  BY <1>1, <2>1, <3>1, <3>4 DEF Attached
  <2>2. ASSUME NEW s \in SessionIds, Live(s)', session'[s].state = "OFFLINE"
        PROVE  session'[s].socket = NoConn
    <3>1. CASE s = entry
      <4>1. r.state = "OFFLINE" => r.socket = NoConn
        BY <1>1 DEF Attached, r
      <4> QED  BY <1>5, <2>2, <3>1, <4>1 DEF d
    <3>2. CASE s # entry
      BY <1>1, <1>7, <2>2, <3>2 DEF Attached
    <3> QED  BY <3>1, <3>2
  <2> QED  BY <2>1, <2>2 DEF Attached
<1>9. ASSUME NEW k \in Conns, Waits(k), conn'[k].pc = "waiting", Live(conn[k].m_session)'
      PROVE  UpdatesToGo(k)' <= UpdatesToGo(k) /\ MayGo(k)'
  <2>1. conn[k].m_session = entry /\ r.state # "OFFLINE"
    BY <1>9, WaitsByAttached DEF WaitsForEntry, r
  <2>2. conn'[k] = conn[k] /\ (conn' = Release(r.socket) => k # r.socket)
    BY <1>6, <1>9 DEF Live
  <2>3. k \in {r.request, r.socket} /\ k # NoConn
    BY <1>9, <2>1, Ids DEF Inv, Answered, Waits, r
  <2>4. d.state = "READY" /\ (k = r.socket => d.socket = k)
    BY <1>4, <1>5, <2>1, <2>2, <2>3
  <2>5. /\ conn'[k].open = conn[k].open
        /\ session'[conn'[k].m_session].state = d.state
        /\ session'[conn'[k].m_session].socket = d.socket
        /\ session[conn[k].m_session].socket = r.socket
    BY <2>1, <2>2 DEF r, d
  <2>6. MayGo(k)'
    BY <2>4, <2>5 DEF MayGo
  <2>7. UpdatesToGo(k)' <= UpdatesToGo(k)
    BY <2>4, <2>5 DEF UpdatesToGo
  <2> QED  BY <2>6, <2>7
<1>10. WaitShrinks
  BY <1>9 DEF WaitShrinks
<1> QED  BY <1>8, <1>10

\* With the session goes everybody's wait for it.
LEMMA DeleteWaits ==
    ASSUME Inv, Attached, DeleteSession, ~UpdateState
    PROVE  Attached' /\ WaitShrinks
<1>1. /\ removing \in SessionIds /\ entry = removing /\ entry' = NoSession
      /\ session' = [session EXCEPT ![removing] = [Unborn EXCEPT !.status = "deleted"]]
      /\ conn' = Release(session[removing].socket)
  BY TypeDef DEF DeleteSession, Inv, Types, Places
<1>2. /\ session \in [SessionIds -> SessionType] /\ conn \in [Conns -> ConnType]
      /\ session[removing].socket \in Conns \cup {NoConn}
  BY <1>1, TypeDef DEF Inv, Types, SessionType
<1>3. /\ session'[removing].status = "deleted"
      /\ \A t \in SessionIds \ {removing} : session'[t] = session[t]
  BY <1>1, <1>2 DEF Unborn
<1>4. ASSUME NEW k \in Conns
      PROVE  conn'[k] = conn[k] \/ conn'[k].m_session = NoSession
  BY <1>1, <1>2, ReleaseEffect
<1>5. ASSUME NEW k \in Conns, conn'[k].pc \in {"request", "waiting"}, Live(conn[k].m_session)'
      PROVE  FALSE
  <2>1. conn'[k] = conn[k]
    BY <1>4, <1>5 DEF Live
  <2>2. conn[k].m_session \in SessionIds \ {removing}
    BY <1>2, <1>3, <1>5, <2>1 DEF ConnType, Live
  <2>3. session'[conn[k].m_session] = session[conn[k].m_session]
    BY <1>3, <2>2
  <2>4. Live(conn[k].m_session)
    BY <1>5, <2>1, <2>3 DEF Live
  <2> QED  BY <1>1, <1>5, <2>1, <2>2, <2>4 DEF Attached
<1>6. ASSUME NEW s \in SessionIds, Live(s)', session'[s].state = "OFFLINE"
      PROVE  session'[s].socket = NoConn
  <2>1. s # removing
    BY <1>3, <1>6 DEF Live
  <2> QED  BY <1>3, <1>6, <2>1 DEF Attached, Live
<1> QED  BY <1>5, <1>6 DEF Attached, WaitShrinks

\* A step of the account's session that leaves its state and its socket alone.
LEMMA EntryQuiet ==
    ASSUME Inv, entry \in SessionIds, UNCHANGED entry,
           NEW r, session' = [session EXCEPT ![entry] = r],
           r.status = session[entry].status, r.state = session[entry].state,
           r.socket = session[entry].socket,
           \A k \in Conns : /\ conn'[k].m_session = conn[k].m_session
                            /\ conn'[k].open => conn[k].open
                            /\ conn'[k].pc = conn[k].pc
    PROVE  Quiet
<1>1. session'[entry] = r /\ \A t \in SessionIds \ {entry} : session'[t] = session[t]
  BY TypeDef DEF Inv, Types
<1> QED  BY <1>1 DEF Quiet

LEMMA NetworkQuiet ==
    ASSUME Inv, NEW k \in Conns,
           GetState(k) \/ Receive(k) \/ QueuePacket(k) \/ Disconnect(k)
    PROVE  Quiet
<1>1. conn \in [Conns -> ConnType] /\ session \in [SessionIds -> SessionType]
      /\ UNCHANGED entry
  BY TypeDef DEF Inv, Types, GetState, Receive, QueuePacket, Disconnect, world
<1>2. \/ UNCHANGED conn
      \/ \E p \in {"authed", "queueing", "closed"} : conn' = [conn EXCEPT ![k].pc = p]
      \/ conn' = [conn EXCEPT ![k].open = FALSE, ![k].pc = "closed"]
  BY DEF GetState, Receive, QueuePacket, Disconnect
<1>3. ASSUME NEW j \in Conns
      PROVE  /\ conn'[j].m_session = conn[j].m_session
             /\ conn'[j].open => conn[j].open
             /\ conn'[j].pc \in {"request", "waiting"} => conn'[j].pc = conn[j].pc
  <2>1. CASE UNCHANGED conn
    BY <2>1
  <2>2. ASSUME NEW p \in {"authed", "queueing", "closed"}, conn' = [conn EXCEPT ![k].pc = p]
        PROVE  /\ conn'[j].m_session = conn[j].m_session
               /\ conn'[j].open => conn[j].open
               /\ conn'[j].pc \in {"request", "waiting"} => conn'[j].pc = conn[j].pc
    BY <1>1, <2>2 DEF ConnType
  <2>3. CASE conn' = [conn EXCEPT ![k].open = FALSE, ![k].pc = "closed"]
    BY <1>1, <2>3 DEF ConnType
  <2> QED  BY <1>2, <2>1, <2>2, <2>3
<1>4. \/ UNCHANGED session
      \/ \E q : session' = [session EXCEPT ![conn[k].m_session].recvQueue = q]
  <2>1. \A kind : session' = [session EXCEPT ![conn[k].m_session].recvQueue = Append(@, kind)]
            => \E q : session' = [session EXCEPT ![conn[k].m_session].recvQueue = q]
    OBVIOUS
  <2> QED  BY <2>1 DEF GetState, Receive, QueuePacket, Disconnect
<1>5. ASSUME NEW s \in SessionIds
      PROVE  /\ session'[s].status = session[s].status /\ session'[s].state = session[s].state
             /\ session'[s].socket = session[s].socket
  <2>1. session[s] \in SessionType
    BY <1>1
  <2>2. \/ session'[s] = session[s]
        \/ \E q : session'[s] = [session[s] EXCEPT !.recvQueue = q]
    BY <1>1, <1>4
  <2> QED  BY <2>1, <2>2 DEF SessionType
<1> QED  BY <1>1, <1>3, <1>5 DEF Quiet

LEMMA WorldQuiet ==
    ASSUME Inv,
           \/ AddSessions \/ BeginUpdate \/ BeginMapUpdate \/ EndMapUpdate
           \/ ProcessPacket \/ LoginCallback \/ Kick \/ Age \/ UNCHANGED vars
    PROVE  Quiet
<1>1. conn \in [Conns -> ConnType] /\ session \in [SessionIds -> SessionType]
      /\ entry \in SessionIds \cup {NoSession}
  BY TypeDef DEF Inv, Types
<1>2. CASE AddSessions \/ BeginUpdate \/ BeginMapUpdate \/ EndMapUpdate \/ UNCHANGED vars
  <2>1. UNCHANGED <<session, conn>> /\ (entry' = entry \/ entry = NoSession)
    BY <1>2 DEF AddSessions, BeginUpdate, BeginMapUpdate, EndMapUpdate, vars, world
  <2> QED  BY <2>1 DEF Quiet
<1>3. CASE ProcessPacket
  <2> DEFINE q == session[entry].recvQueue
             r == [session[entry] EXCEPT !.recvQueue = Tail(q)]
  <2>1. entry \in SessionIds /\ UNCHANGED <<entry, conn>>
    BY <1>3, PacketEffect DEF world
  <2>2. PICK r2 : Handled(r, r2) /\ session' = [session EXCEPT ![entry] = r2]
    BY <1>3, PacketEffect
  <2>3. r.status = session[entry].status /\ r.state = session[entry].state
        /\ r.socket = session[entry].socket
    BY <1>1, <2>1 DEF SessionType
  <2> HIDE DEF r
  <2>4. r2.status = session[entry].status /\ r2.state = session[entry].state
        /\ r2.socket = session[entry].socket
    BY <2>2, <2>3 DEF Handled
  <2> QED  BY <2>1, <2>2, <2>4, EntryQuiet
<1>4. CASE LoginCallback
  <2>1. UNCHANGED <<entry, conn>>
    BY <1>4, CallbackEffect
  <2>2. CASE UNCHANGED session
    BY <2>1, <2>2 DEF Quiet
  <2>3. ASSUME entry # NoSession, NEW e \in BOOLEAN,
               session' = [session EXCEPT ![entry] =
                        [session[entry] EXCEPT !.player = TRUE, !.entered = e]]
        PROVE  Quiet
    <3> DEFINE r == [session[entry] EXCEPT !.player = TRUE, !.entered = e]
    <3>1. entry \in SessionIds /\ session[entry] \in SessionType
      BY <1>1, <2>3
    <3>2. /\ r.status = session[entry].status /\ r.state = session[entry].state
          /\ r.socket = session[entry].socket
      BY <3>1, <2>3, EnteredRecord
    <3>3. session' = [session EXCEPT ![entry] = r]
      BY <2>3
    <3> HIDE DEF r
    <3> QED  BY <2>1, <3>1, <3>2, <3>3, EntryQuiet
  <2> QED  BY <1>4, <2>2, <2>3, CallbackEffect
<1>5. CASE Kick
  <2> DEFINE r == IF session[entry].player THEN Left(session[entry]) ELSE session[entry]
  <2>1. /\ entry \in SessionIds /\ UNCHANGED entry /\ session' = [session EXCEPT ![entry] = r]
        /\ conn' = Close(session[entry].socket, conn)
    BY <1>1, <1>5 DEF Kick, KickPlayer, world
  <2>2. /\ r.status = session[entry].status /\ r.state = session[entry].state
        /\ r.socket = session[entry].socket
    BY <1>1, <2>1 DEF Left, LogoutRequest, SessionType
  <2> HIDE DEF r
  <2>3. ASSUME NEW k \in Conns
        PROVE  /\ conn'[k].m_session = conn[k].m_session
               /\ conn'[k].open => conn[k].open
               /\ conn'[k].pc = conn[k].pc
    <3>1. \/ conn' = conn
          \/ conn' = [conn EXCEPT ![session[entry].socket].open = FALSE]
      BY <2>1 DEF Close
    <3> QED  BY <1>1, <3>1 DEF ConnType
  <2> QED  BY <2>1, <2>2, <2>3, EntryQuiet
<1>6. CASE Age
  <2> DEFINE r == [session[entry] EXCEPT !.logoutTime = IF @ = "recent" THEN "over20" ELSE "over60"]
  <2>1. /\ entry \in SessionIds /\ UNCHANGED <<entry, conn>>
        /\ session' = [session EXCEPT ![entry] = r] /\ session[entry] \in SessionType
    BY <1>1, <1>6 DEF Age, world
  <2>2. /\ r.status = session[entry].status /\ r.state = session[entry].state
        /\ r.socket = session[entry].socket
    BY <2>1, AgedRecord
  <2> HIDE DEF r
  <2> QED  BY <2>1, <2>2, EntryQuiet
<1> QED  BY <1>2, <1>3, <1>4, <1>5, <1>6

LEMMA WaitStep == ASSUME Inv, Attached, [Next]_vars PROVE Attached' /\ WaitShrinks
<1>1. CASE UpdateState
  BY <1>1, UpdateWaits
<1>2. CASE ~UpdateState
  <2>1. ASSUME NEW k \in Conns, Network(k) PROVE Attached' /\ WaitShrinks
    BY <1>2, <2>1, FindWaits, CreateWaits, RequestWaits, NetworkQuiet, QuietWaits DEF Network
  <2>2. CASE World
    BY <1>2, <2>2, DeleteWaits, WorldQuiet, QuietWaits DEF World
  <2>3. CASE Kick \/ Age \/ UNCHANGED vars
    BY <1>2, <2>3, WorldQuiet, QuietWaits
  <2> QED  BY <2>1, <2>2, <2>3 DEF Next
<1> QED  BY <1>1, <1>2

LEMMA AttachedAlways == Spec => []Attached
<1>1. Init => Attached
  BY DEF Init, Attached, Live, Unborn
<1>2. Inv /\ Attached /\ [Next]_vars => Attached'
  BY WaitStep
<1> QED  BY <1>1, <1>2, Invariance, PTL DEF Spec

\* While HandleAuthSession waits for a session that exists, that is the session of its
\* account in m_sessions, which every tick of the world updates, and one that an Update
\* makes READY: nobody waits for a session that is offline or out of the tick's reach.
THEOREM WaitersOfEntry == Spec => []WaitsForEntry
  BY AttachedAlways, Invariance, WaitsByAttached, PTL

\* RequestAnswered without its fairness: each Update of the session lets every thread that
\* waits for it go at its next look, and of all the steps of the other sockets and of the
\* world only RequestNewSocket of another connection can make one wait again, whose
\* socket the next Update closes and takes out of the session.
THEOREM WaitOnlyShrinks == Spec => [][WaitShrinks]_vars
<1>1. Inv /\ Attached /\ [Next]_vars => WaitShrinks
  BY WaitStep
<1> QED  BY <1>1, AttachedAlways, Invariance, PTL DEF Spec
-----------------------------------------------------------------------------
(* Who leaves the world: PlayerLeaves without the fairness. *)

\* The account's player is in the world and its client is gone.
Gone == entry # NoSession /\ session[entry].player /\ IsClosed(session[entry].socket)

\* How many Updates and periods of time the player is from being logged out.
StepsToLeave ==
    LET r == session[entry] IN
    IF r.state = "CREATED" THEN 5
    ELSE IF r.state = "READY" THEN 4
    ELSE IF r.logoutTime = "recent" THEN 3
    ELSE IF r.logoutTime = "over20" THEN 2
    ELSE IF r.logoutTime = "over60" THEN 1
    ELSE 0

\* While the player is there some are left; an Update of a session that is not offline,
\* the end of the period of one that is, and time passing there bring its leave nearer.
\* Only another connection that asks for the session puts it off.
LeaveAdvances ==
    Gone =>
        /\ StepsToLeave \in 1..5
        /\ Gone' /\ ~(\E k \in Conns : RequestNewSocket(k)) => StepsToLeave' <= StepsToLeave
        /\ UpdateState /\ (session[entry].state # "OFFLINE" \/ session[entry].logoutTime = "over60")
             => ~Gone' \/ StepsToLeave' < StepsToLeave
        /\ Age /\ session[entry].state = "OFFLINE" => StepsToLeave' < StepsToLeave

\* What this needs beside the rest: only the account's session goes offline, with the
\* timer of its player running, and while no login is in flight; one that has no socket
\* is offline or is about to get one.
Parting ==
    /\ \A s \in SessionIds : Live(s) /\ session[s].state = "OFFLINE" =>
          s = entry /\ (session[s].player => session[s].logoutTime # "none")
    /\ \A s \in SessionIds : Live(s) /\ session[s].socket = NoConn =>
          session[s].state = "OFFLINE" \/ session[s].request # NoConn
    /\ holders > 0 /\ entry # NoSession => session[entry].state # "OFFLINE"

LEMMA LeaveRange == ASSUME Inv, Parting, Gone PROVE StepsToLeave \in 1..5
<1>1. entry \in SessionIds /\ Live(entry)
  BY TypeDef DEF Inv, Types, Places, Gone
<1>2. session[entry] \in SessionType
  BY <1>1, TypeDef DEF Inv, Types
<1>3. session[entry].state = "OFFLINE" => session[entry].logoutTime # "none"
  BY <1>1 DEF Parting, Gone
<1> QED  BY <1>2, <1>3 DEF StepsToLeave, SessionType, States, LogoutTimes

\* Sessions whose players, timers, states and sockets are as before, but for a new one.
LEMMA LeaveSame ==
    ASSUME Inv, Parting, ~UpdateState, ~Age, UNCHANGED <<entry, holders>>,
           \A s \in SessionIds :
              \/ /\ session'[s].status = session[s].status /\ session'[s].state = session[s].state
                 /\ session'[s].player = session[s].player
                 /\ session'[s].logoutTime = session[s].logoutTime
                 /\ session'[s].socket = session[s].socket
                 /\ session'[s].request = session[s].request
              \/ s # entry /\ session'[s].state = "CREATED" /\ session'[s].socket # NoConn
    PROVE  Parting' /\ LeaveAdvances
<1>1. entry \in SessionIds \cup {NoSession}
  BY TypeDef DEF Inv, Types
<1>2. Parting'
  <2>1. ASSUME NEW s \in SessionIds, Live(s)', session'[s].state = "OFFLINE"
        PROVE  s = entry' /\ (session'[s].player => session'[s].logoutTime # "none")
    <3>1. Live(s)
      BY <2>1 DEF Live
    <3> QED  BY <2>1, <3>1 DEF Parting
  <2>2. ASSUME NEW s \in SessionIds, Live(s)', session'[s].socket = NoConn
        PROVE  session'[s].state = "OFFLINE" \/ session'[s].request # NoConn
    <3>1. Live(s)
      BY <2>2 DEF Live
    <3> QED  BY <2>2, <3>1 DEF Parting
  <2>3. holders' > 0 /\ entry' # NoSession => session'[entry'].state # "OFFLINE"
    BY <1>1 DEF Parting
  <2> QED  BY <2>1, <2>2, <2>3 DEF Parting
<1>3. ASSUME Gone PROVE StepsToLeave' = StepsToLeave /\ StepsToLeave \in 1..5
  <2>1. /\ session'[entry].state = session[entry].state
        /\ session'[entry].logoutTime = session[entry].logoutTime
    BY <1>1, <1>3 DEF Gone
  <2> QED  BY <1>3, <2>1, LeaveRange DEF StepsToLeave
<1> QED  BY <1>2, <1>3 DEF LeaveAdvances

LEMMA NetworkLeave ==
    ASSUME Inv, Parting, NEW k \in Conns, Network(k), ~UpdateState, ~Age
    PROVE  Parting' /\ LeaveAdvances
<1>1. session \in [SessionIds -> SessionType] /\ conn \in [Conns -> ConnType]
      /\ entry \in SessionIds \cup {NoSession}
  BY TypeDef DEF Inv, Types
<1>2. CASE FindSession(k) \/ GetState(k) \/ Receive(k) \/ Disconnect(k)
  <2>1. UNCHANGED <<session, entry, holders>>
    BY <1>2 DEF FindSession, GetState, Receive, Disconnect, world
  <2> QED  BY <2>1, LeaveSame
<1>3. CASE QueuePacket(k)
  <2>1. UNCHANGED <<entry, holders>>
    BY <1>3 DEF QueuePacket, world
  <2>2. \/ UNCHANGED session
        \/ \E q : session' = [session EXCEPT ![conn[k].m_session].recvQueue = q]
    <3>1. \A kind : session' = [session EXCEPT ![conn[k].m_session].recvQueue = Append(@, kind)]
            => \E q : session' = [session EXCEPT ![conn[k].m_session].recvQueue = q]
      OBVIOUS
    <3> QED  BY <1>3, <3>1 DEF QueuePacket
  <2>3. ASSUME NEW s \in SessionIds
        PROVE  /\ session'[s].status = session[s].status /\ session'[s].state = session[s].state
               /\ session'[s].player = session[s].player
               /\ session'[s].logoutTime = session[s].logoutTime
               /\ session'[s].socket = session[s].socket
               /\ session'[s].request = session[s].request
    <3>1. session[s] \in SessionType
      BY <1>1
    <3>2. \/ session'[s] = session[s]
          \/ \E q : session'[s] = [session[s] EXCEPT !.recvQueue = q]
      BY <1>1, <2>2
    <3> QED  BY <3>1, <3>2 DEF SessionType
  <2> QED  BY <2>1, <2>3, LeaveSame
<1>4. CASE CreateSession(k)
  <2>1. PICK s \in SessionIds : /\ session[s].status = "unborn"
                                /\ session' = [session EXCEPT ![s].status = "live", ![s].socket = k]
    BY <1>4 DEF CreateSession
  <2>2. UNCHANGED <<entry, holders>>
    BY <1>4 DEF CreateSession
  <2>3. session[s] = Unborn /\ entry # s
    BY <2>1, Ids DEF Inv, Born, Places, Live
  <2>4. /\ session'[s].state = "CREATED" /\ session'[s].socket # NoConn
        /\ \A t \in SessionIds \ {s} : session'[t] = session[t]
    BY <1>1, <2>1, <2>3, Ids DEF Unborn
  <2> QED  BY <2>2, <2>3, <2>4, LeaveSame
<1>5. CASE RequestNewSocket(k)
  <2>1. UNCHANGED <<entry, holders>>
    BY <1>5 DEF RequestNewSocket, world
  <2>2. \/ UNCHANGED session
        \/ session' = [session EXCEPT ![conn[k].m_session].request = k,
                                      ![conn[k].m_session].state = "CREATED"]
    BY <1>5 DEF RequestNewSocket
  <2>3. ASSUME NEW s \in SessionIds
        PROVE  \/ session'[s] = session[s]
               \/ /\ session'[s].status = session[s].status
                  /\ session'[s].state = "CREATED" /\ session'[s].request # NoConn
    <3>1. session[s] \in SessionType
      BY <1>1
    <3>2. \/ session'[s] = session[s]
          \/ session'[s] = [[session[s] EXCEPT !.request = k] EXCEPT !.state = "CREATED"]
      BY <1>1, <2>2
    <3> QED  BY <3>1, <3>2, Ids DEF SessionType
  <2>4. Parting'
    <3>1. ASSUME NEW s \in SessionIds, Live(s)', session'[s].state = "OFFLINE"
          PROVE  s = entry' /\ (session'[s].player => session'[s].logoutTime # "none")
      BY <2>1, <2>3, <3>1 DEF Parting, Live
    <3>2. ASSUME NEW s \in SessionIds, Live(s)', session'[s].socket = NoConn
          PROVE  session'[s].state = "OFFLINE" \/ session'[s].request # NoConn
      BY <2>3, <3>2 DEF Parting, Live
    <3>3. holders' > 0 /\ entry' # NoSession => session'[entry'].state # "OFFLINE"
      BY <1>1, <2>1, <2>3 DEF Parting
    <3> QED  BY <3>1, <3>2, <3>3 DEF Parting
  <2>5. LeaveAdvances
    BY <1>5, LeaveRange DEF LeaveAdvances
  <2> QED  BY <2>4, <2>5
<1> QED  BY <1>2, <1>3, <1>4, <1>5 DEF Network

\* A step of the account's session that leaves its state and its sockets alone.
LEMMA EntryParting ==
    ASSUME Inv, Parting, entry \in SessionIds, UNCHANGED entry,
           NEW r, session' = [session EXCEPT ![entry] = r],
           r.status = session[entry].status, r.state = session[entry].state,
           r.socket = session[entry].socket, r.request = session[entry].request,
           r.state = "OFFLINE" => holders' = holders /\ (r.player => r.logoutTime # "none")
    PROVE  Parting'
<1>1. session'[entry] = r /\ \A t \in SessionIds \ {entry} : session'[t] = session[t]
  BY TypeDef DEF Inv, Types
<1>2. ASSUME NEW s \in SessionIds, Live(s)', session'[s].state = "OFFLINE"
      PROVE  s = entry' /\ (session'[s].player => session'[s].logoutTime # "none")
  BY <1>1, <1>2 DEF Parting, Live
<1>3. ASSUME NEW s \in SessionIds, Live(s)', session'[s].socket = NoConn
      PROVE  session'[s].state = "OFFLINE" \/ session'[s].request # NoConn
  BY <1>1, <1>3 DEF Parting, Live
<1>4. holders' > 0 /\ entry' # NoSession => session'[entry'].state # "OFFLINE"
  BY <1>1 DEF Parting
<1> QED  BY <1>2, <1>3, <1>4 DEF Parting

LEMMA AgeLeave ==
    ASSUME Inv, Parting, Age
    PROVE  Parting' /\ LeaveAdvances
<1> DEFINE r == session[entry]
           d == [r EXCEPT !.logoutTime = IF @ = "recent" THEN "over20" ELSE "over60"]
<1>1. /\ entry \in SessionIds /\ UNCHANGED <<entry, holders, updating, tick>>
      /\ r.logoutTime \in {"recent", "over20"}
      /\ session' = [session EXCEPT ![entry] = d] /\ r \in SessionType
  BY TypeDef DEF Inv, Types, Age, world
<1>2. /\ d.player = r.player /\ d.status = r.status /\ d.state = r.state
      /\ d.socket = r.socket /\ d.request = r.request
      /\ d.logoutTime = IF r.logoutTime = "recent" THEN "over20" ELSE "over60"
  BY <1>1, AgedRecord DEF SessionType
<1>3. session'[entry] = d
  BY <1>1, TypeDef DEF Inv, Types
<1> HIDE DEF d
<1>4. Parting'
  BY <1>1, <1>2, EntryParting
<1>5. /\ StepsToLeave' <= StepsToLeave
      /\ r.state = "OFFLINE" => StepsToLeave' < StepsToLeave
  <2> HIDE DEF r
  <2>1. StepsToLeave = IF r.state = "CREATED" THEN 5 ELSE IF r.state = "READY" THEN 4
                       ELSE IF r.logoutTime = "recent" THEN 3 ELSE 2
    BY <1>1 DEF StepsToLeave, r
  <2>2. StepsToLeave' = IF d.state = "CREATED" THEN 5 ELSE IF d.state = "READY" THEN 4
                       ELSE IF d.logoutTime = "over20" THEN 2 ELSE 1
    BY <1>1, <1>2, <1>3 DEF StepsToLeave
  <2> QED  BY <1>1, <1>2, <2>1, <2>2
<1>6. ~UpdateState
  <2>1. ASSUME UpdateState PROVE FALSE
    <3>1. updating = entry /\ entry # NoSession
      BY <2>1, <1>1, Ids DEF UpdateState, Inv, Places
    <3>2. session'[entry] # session[entry]
      <4>1. d.logoutTime # r.logoutTime
        BY <1>1, <1>2
      <4> QED  BY <1>3, <4>1
    <3>3. updating' = NoSession
      BY <2>1 DEF UpdateState, UpdateCreated, UpdateReady, UpdateOffline, Stay, Remove
    <3> QED  BY <1>1, <3>1, <3>3
  <2> QED  BY <2>1
<1> QED  BY <1>4, <1>5, <1>6, LeaveRange DEF LeaveAdvances

\* What an Update makes of the account's session, with its player and timer.
LEMMA UpdateOutcome ==
    ASSUME Inv, UpdateState
    PROVE  LET r == session[entry]  d == session'[entry] IN
           /\ entry \in SessionIds /\ Live(entry) /\ UNCHANGED <<entry, holders>>
           /\ d.status = r.status /\ \A t \in SessionIds \ {entry} : session'[t] = session[t]
           /\ \/ /\ r.state = "CREATED" /\ d.state = "READY"
                 /\ d.socket = IF r.request # NoConn THEN r.request ELSE r.socket
              \/ d = r /\ r.state = "READY"
                 /\ (~r.player \/ r.socket = NoConn \/ ~IsClosed(r.socket))
              \/ /\ r.state = "READY" /\ d.state = "OFFLINE"
                 /\ r.player /\ d.player /\ d.logoutTime = "recent"
              \/ /\ r.state \in {"READY", "OFFLINE"} /\ d.state = r.state /\ ~d.player
                 /\ d.socket = r.socket /\ d.request = r.request
              \/ d = r /\ r.state = "OFFLINE" /\ r.logoutTime # "over60"
<1> DEFINE r == session[entry]
           d == session'[entry]
<1>1. /\ updating = entry /\ entry \in SessionIds /\ entry # NoSession /\ Live(entry)
      /\ r \in SessionType /\ session \in [SessionIds -> SessionType]
  BY TypeDef DEF Inv, Places, Types, UpdateState
<1>2. /\ UNCHANGED <<entry, holders>>
      /\ UpdateCreated(entry, r) \/ UpdateReady(entry, r) \/ UpdateOffline(entry, r)
  BY <1>1 DEF UpdateState
<1>3. d.status = r.status /\ \A t \in SessionIds \ {entry} : session'[t] = session[t]
  BY UpdateEffect
<1>4. \A e : session' = [session EXCEPT ![entry] = e] => d = e
  BY <1>1
<1>5. UNCHANGED session => d = r
  OBVIOUS
<1> HIDE DEF r, d
<1>6. /\ ~Left(r).player /\ Left(r).state = r.state /\ Left(r).socket = r.socket
      /\ Left(r).request = r.request
  BY <1>1 DEF Left, LogoutRequest, SessionType
<1>7. CASE UpdateCreated(entry, r)
  <2>1. CASE r.request # NoConn
    <3> DEFINE r2 == [SetOffline(r) EXCEPT !.socket = r.request, !.request = NoConn, !.state = "READY"]
    <3>1. r2.state = "READY" /\ r2.socket = r.request
      BY <1>1, OfflineFields DEF SessionType
    <3>2. session' = [session EXCEPT ![entry] = r2] /\ r.state = "CREATED"
      BY <1>7, <2>1 DEF UpdateCreated, TakeRequestedSocket
    <3> HIDE DEF r2
    <3>3. d = r2
      BY <1>4, <3>2
    <3> QED  BY <1>1, <1>2, <1>3, <2>1, <3>1, <3>2, <3>3 DEF r, d
  <2>2. CASE r.request = NoConn
    <3> DEFINE r2 == [r EXCEPT !.state = "READY"]
    <3>1. r2.state = "READY" /\ r2.socket = r.socket
      BY <1>1 DEF SessionType
    <3>2. session' = [session EXCEPT ![entry] = r2] /\ r.state = "CREATED"
      BY <1>1, <1>7, <2>2 DEF UpdateCreated, r
    <3> HIDE DEF r2
    <3>3. d = r2
      BY <1>4, <3>2
    <3> QED  BY <1>1, <1>2, <1>3, <2>2, <3>1, <3>2, <3>3 DEF r, d
  <2> QED  BY <2>1, <2>2
<1>8. CASE UpdateReady(entry, r)
  <2>1. r.state = "READY"
    BY <1>8 DEF UpdateReady
  <2>2. CASE r.socket # NoConn /\ IsClosed(r.socket) /\ ~r.player
    <3>1. UNCHANGED session
      BY <1>8, <2>2 DEF UpdateReady
    <3> QED  BY <1>1, <1>2, <1>3, <1>5, <2>1, <2>2, <3>1 DEF r, d
  <2>3. CASE r.socket # NoConn /\ IsClosed(r.socket) /\ r.player
    <3>1. session' = [session EXCEPT ![entry] = SetOffline(r)]
      BY <1>8, <2>3 DEF UpdateReady
    <3>2. SetOffline(r).state = "OFFLINE" /\ SetOffline(r).player
          /\ SetOffline(r).logoutTime = "recent"
      <4> DEFINE e == LogoutRequest(r, "recent")
      <4>1. e \in SessionType /\ e.player = r.player /\ e.logoutTime = "recent"
        BY <1>1 DEF LogoutRequest, LogoutTimes, SessionType
      <4>2. SetOffline(r) = [e EXCEPT !.socket = NoConn, !.state = "OFFLINE", !.entered = FALSE, !.asked = FALSE]
        BY <2>3 DEF SetOffline
      <4> HIDE DEF e
      <4> QED  BY <2>3, <4>1, <4>2 DEF SessionType
    <3>3. d = SetOffline(r)
      BY <1>4, <3>1
    <3> QED  BY <1>1, <1>2, <1>3, <2>1, <2>3, <3>2, <3>3 DEF r, d
  <2>4. CASE ~(r.socket # NoConn /\ IsClosed(r.socket))
    <3>1. \/ session' = [session EXCEPT ![entry] = Left(r)]
          \/ UNCHANGED session
      BY <1>8, <2>4 DEF UpdateReady, LogoutPlayer
    <3>2. CASE session' = [session EXCEPT ![entry] = Left(r)]
      <4>1. d = Left(r)
        BY <1>4, <3>2
      <4> QED  BY <1>1, <1>2, <1>3, <1>6, <2>1, <4>1 DEF r, d
    <3>3. CASE UNCHANGED session
      BY <1>1, <1>2, <1>3, <1>5, <2>1, <2>4, <3>3 DEF r, d
    <3> QED  BY <3>1, <3>2, <3>3
  <2> QED  BY <2>2, <2>3, <2>4
<1>9. CASE UpdateOffline(entry, r)
  <2>1. r.state = "OFFLINE"
    BY <1>9 DEF UpdateOffline
  <2>2. CASE r.logoutTime = "over60"
    <3>1. d = Left(r)
      BY <1>4, <1>9, <2>2 DEF UpdateOffline, LogoutPlayer
    <3> QED  BY <1>1, <1>2, <1>3, <1>6, <2>1, <3>1 DEF r, d
  <2>3. CASE r.logoutTime # "over60"
    <3>1. UNCHANGED session
      BY <1>9, <2>3 DEF UpdateOffline
    <3> QED  BY <1>1, <1>2, <1>3, <1>5, <2>1, <2>3, <3>1 DEF r, d
  <2> QED  BY <2>2, <2>3
<1> QED  BY <1>2, <1>7, <1>8, <1>9

LEMMA UpdateLeave ==
    ASSUME Inv, Timer, Parting, UpdateState
    PROVE  Parting' /\ LeaveAdvances
<1> DEFINE r == session[entry]
           d == session'[entry]
<1>1. /\ entry \in SessionIds /\ Live(entry) /\ UNCHANGED <<entry, holders>> /\ entry # NoSession
      /\ d.status = r.status /\ \A t \in SessionIds \ {entry} : session'[t] = session[t]
  BY UpdateOutcome, Ids
<1>2. \/ /\ r.state = "CREATED" /\ d.state = "READY"
         /\ d.socket = IF r.request # NoConn THEN r.request ELSE r.socket
      \/ d = r /\ r.state = "READY"
         /\ (~r.player \/ r.socket = NoConn \/ ~IsClosed(r.socket))
      \/ /\ r.state = "READY" /\ d.state = "OFFLINE"
         /\ r.player /\ d.player /\ d.logoutTime = "recent"
      \/ /\ r.state \in {"READY", "OFFLINE"} /\ d.state = r.state /\ ~d.player
         /\ d.socket = r.socket /\ d.request = r.request
      \/ d = r /\ r.state = "OFFLINE" /\ r.logoutTime # "over60"
  BY UpdateOutcome
<1>3. /\ r.state = "OFFLINE" => (r.player => r.logoutTime # "none") /\ ~(holders > 0)
      /\ r.socket = NoConn => r.state = "OFFLINE" \/ r.request # NoConn
      /\ holders > 0 => ~r.player
      /\ r.request # NoConn => r.state = "CREATED"
  BY <1>1 DEF Parting, Timer, Inv, Matched
<1>4. StepsToLeave = IF r.state = "CREATED" THEN 5 ELSE IF r.state = "READY" THEN 4
                     ELSE IF r.logoutTime = "recent" THEN 3
                     ELSE IF r.logoutTime = "over20" THEN 2
                     ELSE IF r.logoutTime = "over60" THEN 1 ELSE 0
  BY DEF StepsToLeave
<1>5. StepsToLeave' = IF d.state = "CREATED" THEN 5 ELSE IF d.state = "READY" THEN 4
                     ELSE IF d.logoutTime = "recent" THEN 3
                     ELSE IF d.logoutTime = "over20" THEN 2
                     ELSE IF d.logoutTime = "over60" THEN 1 ELSE 0
  BY <1>1 DEF StepsToLeave
<1>6. Gone => r.player /\ IsClosed(r.socket)
  BY DEF Gone
<1>7. Gone' => d.player
  BY <1>1 DEF Gone
<1>8. Parting'
  <2>1. ASSUME NEW s \in SessionIds, s # entry, Live(s)'
        PROVE  session'[s] = session[s] /\ Live(s)
    BY <1>1, <2>1 DEF Live
  <2>2. d.state = "OFFLINE" => (d.player => d.logoutTime # "none") /\ ~(holders > 0)
    BY <1>2, <1>3
  <2>3. d.socket = NoConn => d.state = "OFFLINE" \/ d.request # NoConn
    BY <1>2, <1>3
  <2>4. ASSUME NEW s \in SessionIds, Live(s)', session'[s].state = "OFFLINE"
        PROVE  s = entry' /\ (session'[s].player => session'[s].logoutTime # "none")
    BY <1>1, <2>1, <2>2, <2>4 DEF Parting
  <2>5. ASSUME NEW s \in SessionIds, Live(s)', session'[s].socket = NoConn
        PROVE  session'[s].state = "OFFLINE" \/ session'[s].request # NoConn
    BY <2>1, <2>3, <2>5 DEF Parting
  <2>6. holders' > 0 /\ entry' # NoSession => session'[entry'].state # "OFFLINE"
    BY <1>1, <2>2
  <2> QED  BY <2>4, <2>5, <2>6 DEF Parting
<1> HIDE DEF r, d
<1>9. ~Age
  <2>1. ASSUME Age PROVE FALSE
    <3>1. UNCHANGED updating
      BY <2>1 DEF Age, world
    <3>2. updating # NoSession /\ updating' = NoSession
      BY DEF UpdateState, UpdateCreated, UpdateReady, UpdateOffline, Stay, Remove
    <3> QED  BY <3>1, <3>2
  <2> QED  BY <2>1
<1>10. ASSUME Gone, Gone'
       PROVE  /\ StepsToLeave' <= StepsToLeave
              /\ r.state # "OFFLINE" \/ r.logoutTime = "over60" => StepsToLeave' < StepsToLeave
  BY <1>2, <1>3, <1>4, <1>5, <1>6, <1>7, <1>10
<1> QED  BY <1>8, <1>9, <1>10, LeaveRange DEF LeaveAdvances, r

LEMMA WorldLeave ==
    ASSUME Inv, Timer, Attached, Parting, ~UpdateState, ~Age,
           \/ AddSessions \/ BeginUpdate \/ BeginMapUpdate \/ EndMapUpdate \/ DeleteSession
           \/ ProcessPacket \/ LoginCallback \/ Kick \/ UNCHANGED vars
    PROVE  Parting' /\ LeaveAdvances
<1>1. session \in [SessionIds -> SessionType] /\ entry \in SessionIds \cup {NoSession}
      /\ m_sessionAddQueue \in Seq(SessionIds)
  BY TypeDef DEF Inv, Types
<1>2. ~Gone \/ ~Gone' => LeaveAdvances
  BY LeaveRange DEF LeaveAdvances
<1>3. CASE BeginUpdate \/ BeginMapUpdate \/ EndMapUpdate \/ UNCHANGED vars
  <2>1. UNCHANGED <<session, entry, holders>>
    BY <1>3 DEF BeginUpdate, BeginMapUpdate, EndMapUpdate, vars, world
  <2> QED  BY <2>1, LeaveSame
<1>4. CASE AddSessions
  <2>1. /\ UNCHANGED <<session, holders>> /\ m_sessionAddQueue # <<>>
        /\ entry' = IF entry = NoSession THEN Head(m_sessionAddQueue) ELSE entry
    BY <1>4 DEF AddSessions
  <2>2. CASE entry # NoSession
    BY <2>1, <2>2, LeaveSame
  <2>3. CASE entry = NoSession
    <3>1. \A s \in SessionIds : Live(s) => session[s].state # "OFFLINE"
      BY <2>3, Ids DEF Parting
    <3>2. Head(m_sessionAddQueue) \in SessionIds /\ Live(Head(m_sessionAddQueue))
      <4>1. Len(m_sessionAddQueue) > 0 /\ Len(m_sessionAddQueue) \in Nat
            /\ Head(m_sessionAddQueue) = m_sessionAddQueue[1]
        BY <1>1, <2>1, EmptySeq, HeadTailProperties
      <4>2. 1 \in 1..Len(m_sessionAddQueue)
        BY <4>1
      <4> QED  BY <1>1, <4>1, <4>2 DEF Inv, Places
    <3>3. session[entry'].state # "OFFLINE"
      BY <2>1, <2>3, <3>1, <3>2
    <3>4. Parting'
      BY <2>1, <3>1, <3>3 DEF Parting, Live
    <3>5. ~Gone
      BY <2>3 DEF Gone
    <3> QED  BY <1>2, <3>4, <3>5
  <2> QED  BY <2>2, <2>3
<1>5. CASE DeleteSession
  <2>1. /\ entry = removing /\ removing \in SessionIds /\ entry' = NoSession
        /\ session' = [session EXCEPT ![removing] = [Unborn EXCEPT !.status = "deleted"]]
    BY <1>5, TypeDef DEF DeleteSession, Inv, Types, Places
  <2>2. /\ session'[removing].status = "deleted"
        /\ \A t \in SessionIds \ {removing} : session'[t] = session[t]
    BY <1>1, <2>1 DEF Unborn
  <2>3. ASSUME NEW s \in SessionIds, Live(s)'
        PROVE  s # entry /\ session'[s] = session[s] /\ Live(s)
    BY <2>1, <2>2, <2>3 DEF Live
  <2>4. Parting'
    BY <2>1, <2>3 DEF Parting
  <2>5. ~Gone'
    BY <2>1 DEF Gone
  <2> QED  BY <1>2, <2>4, <2>5
<1>6. CASE ProcessPacket
  <2> DEFINE q == session[entry].recvQueue
             r == [session[entry] EXCEPT !.recvQueue = Tail(q)]
  <2>1. entry \in SessionIds /\ UNCHANGED entry /\ updating = entry
    BY <1>6, PacketEffect DEF world
  <2>2. PICK r2 : Handled(r, r2) /\ session' = [session EXCEPT ![entry] = r2]
    BY <1>6, PacketEffect
  <2>3. r.status = session[entry].status /\ r.state = session[entry].state
        /\ r.socket = session[entry].socket /\ r.request = session[entry].request
    BY <1>1, <2>1 DEF SessionType
  <2>4. ~IsClosed(r.socket)
    BY <1>6, <2>1 DEF ProcessPacket
  <2> HIDE DEF r
  <2>5. /\ r2.status = session[entry].status /\ r2.state = session[entry].state
        /\ r2.socket = session[entry].socket /\ r2.request = session[entry].request
    BY <2>2, <2>3 DEF Handled
  <2>6. ~IsClosed(session[entry].socket) /\ session[entry].socket # NoConn
    BY <2>3, <2>4, Ids DEF IsClosed
  <2>7. session[entry].state # "OFFLINE"
    <3>1. Live(entry)
      BY <2>1, Ids DEF Inv, Places
    <3> QED  BY <2>1, <2>6, <3>1 DEF Attached
  <2>8. Parting'
    BY <2>1, <2>2, <2>5, <2>7, EntryParting
  <2>9. ~Gone
    BY <2>6 DEF Gone
  <2> QED  BY <1>2, <2>8, <2>9
<1>7. CASE LoginCallback
  <2>1. UNCHANGED entry /\ holders \in Nat /\ holders > 0 /\ holders' = holders - 1
    BY <1>7, CallbackEffect
  <2>2. ~Gone
    BY <2>1 DEF Timer, Gone
  <2>3. CASE UNCHANGED session
    <3>1. Parting'
      BY <2>1, <2>3 DEF Parting, Live
    <3> QED  BY <1>2, <2>2, <3>1
  <2>4. ASSUME entry # NoSession, NEW e \in BOOLEAN,
               session' = [session EXCEPT ![entry] =
                        [session[entry] EXCEPT !.player = TRUE, !.entered = e]]
        PROVE  Parting'
    <3> DEFINE r == [session[entry] EXCEPT !.player = TRUE, !.entered = e]
    <3>1. entry \in SessionIds /\ session[entry] \in SessionType
      BY <1>1, <2>4
    <3>2. /\ r.status = session[entry].status /\ r.state = session[entry].state
          /\ r.socket = session[entry].socket /\ r.request = session[entry].request
      BY <3>1, <2>4, EnteredRecord
    <3>3. session[entry].state # "OFFLINE"
      BY <2>1, <2>4 DEF Parting
    <3>4. session' = [session EXCEPT ![entry] = r]
      BY <2>4
    <3> HIDE DEF r
    <3> QED  BY <2>1, <3>1, <3>2, <3>3, <3>4, EntryParting
  <2> QED  BY <1>2, <1>7, <2>2, <2>3, <2>4, CallbackEffect
<1>8. CASE Kick
  <2> DEFINE r == IF session[entry].player THEN Left(session[entry]) ELSE session[entry]
  <2>1. /\ entry \in SessionIds /\ UNCHANGED <<entry, holders>>
        /\ session' = [session EXCEPT ![entry] = r]
    BY <1>1, <1>8 DEF Kick, KickPlayer, world
  <2>2. /\ r.status = session[entry].status /\ r.state = session[entry].state
        /\ r.socket = session[entry].socket /\ r.request = session[entry].request
        /\ ~r.player
    BY <1>1, <2>1 DEF Left, LogoutRequest, SessionType
  <2> HIDE DEF r
  <2>3. Parting'
    BY <2>1, <2>2, EntryParting
  <2>4. ~Gone'
    <3>1. session'[entry] = r
      BY <1>1, <2>1
    <3> QED  BY <2>1, <2>2, <3>1 DEF Gone
  <2> QED  BY <1>2, <2>3, <2>4
<1> QED  BY <1>3, <1>4, <1>5, <1>6, <1>7, <1>8

LEMMA LeaveStep ==
    ASSUME Inv, Timer, Attached, Parting, [Next]_vars
    PROVE  Parting' /\ LeaveAdvances
<1>1. CASE UpdateState
  BY <1>1, UpdateLeave
<1>2. CASE Age
  BY <1>2, AgeLeave
<1>3. CASE ~UpdateState /\ ~Age
  <2>1. ASSUME NEW k \in Conns, Network(k) PROVE Parting' /\ LeaveAdvances
    BY <1>3, <2>1, NetworkLeave
  <2>2. CASE World \/ Kick \/ UNCHANGED vars
    BY <1>3, <2>2, WorldLeave DEF World
  <2> QED  BY <1>3, <2>1, <2>2 DEF Next
<1> QED  BY <1>1, <1>2, <1>3

\* PlayerLeaves without its fairness, with one login in flight at most: a player whose
\* client is gone is five Updates and periods of time from being logged out, or fewer;
\* each of them counts, and no packet, callback or other step puts it off, but for a
\* connection that asks for the session, whose socket is then the client's.  (With two
\* logins in flight the callback of the second may bring a player into a session that is
\* offline with no timer running.)
THEOREM LeaveOnlyAdvances == ASSUME MaxHolders <= 1 PROVE Spec => [][LeaveAdvances]_vars
<1>1. Init => Timer /\ Parting
  BY DEF Init, Timer, NoStaleTimer, Live, Unborn, Parting
<1>2. Inv /\ Attached /\ Timer /\ Parting /\ [Next]_vars => Timer' /\ Parting'
  BY TimerStep, LeaveStep
<1>3. Inv /\ Attached /\ Timer /\ Parting /\ [Next]_vars => LeaveAdvances
  BY LeaveStep
<1> QED  BY <1>1, <1>2, <1>3, AttachedAlways, Invariance, PTL DEF Spec

=============================================================================
