---------------------------- MODULE WorldSession ----------------------------
(***************************************************************************)
(* The sessions of one account (src/src/game/Server/WorldSession.cpp,      *)
(* src/src/game/World/World.cpp) and the sockets of its client: login,     *)
(* logout, loss of the connection, reconnection, and kicks.                *)
(*                                                                         *)
(* The world thread updates the sessions, runs the callbacks of the login  *)
(* queries and kicks.  A map's update too, in its own thread while the     *)
(* world thread waits (see MapUpdate), runs the packet loop of a session.  *)
(* Each socket has its network thread, which finds or creates a session in *)
(* HandleAuthSession and queues packets for it.                            *)
(* m_recvQueueLock is held by WorldSession::Update and by the two calls of *)
(* the network thread, QueuePacket and RequestNewSocket.                   *)
(*                                                                         *)
(* A session that was deleted stays in `session` as such: using it is      *)
(* undefined behaviour, and the model stops there (crashed).               *)
(***************************************************************************)
EXTENDS Naturals, Sequences, FiniteSets

CONSTANTS
    MaxConns,       \* bound: connections the client makes, one after or beside the other
    MaxSessions,    \* bound: WorldSession objects created
    MaxQueued,      \* bound: packets waiting in one session
    MaxHolders      \* bound: login query holders in flight

ASSUME BoundsAssumption ==
    MaxConns \in Nat /\ MaxSessions \in Nat /\ MaxQueued \in Nat /\ MaxHolders \in Nat

\* Numbered in the order in which they are made.
NoConn == 0
Conns == 1..MaxConns
NoSession == 0
SessionIds == 1..MaxSessions

VARIABLES
    session,            \* the session objects
    entry,              \* m_sessions[account]
    m_sessionAddQueue,
    tick,               \* next are the sessions or the maps, or a map has the session
    updating,           \* the session in its Update, or NoSession
    removing,           \* the session whose Update returned false, not yet deleted
    conn,               \* the sockets
    holders,            \* LoginQueryHolders delayed and not yet called back
    players,            \* Player objects that exist
    crashed

world == <<entry, m_sessionAddQueue, tick, updating, removing>>
vars == <<session, world, conn, holders, players, crashed>>

PacketKinds == {"login", "logout", "cancel"}
LogoutTimes == {"none", "recent", "over20", "over60"}

\* entered and asked are history: the client of m_Socket entered the world, and
\* asked to leave it.
Unborn == [status |-> "unborn", state |-> "CREATED", socket |-> NoConn, request |-> NoConn,
           player |-> FALSE, logoutTime |-> "none", recvQueue |-> <<>>,
           entered |-> FALSE, asked |-> FALSE]

Init ==
    /\ session = [s \in SessionIds |-> Unborn]
    /\ entry = NoSession
    /\ m_sessionAddQueue = <<>>
    /\ tick = "sessions"
    /\ updating = NoSession
    /\ removing = NoSession
    /\ conn = [k \in Conns |-> [open |-> FALSE, pc |-> "off", m_session |-> NoSession]]
    /\ holders = 0
    /\ players = 0
    /\ crashed = FALSE

Live(s) == s # NoSession /\ session[s].status = "live"
IsClosed(k) == k \notin {c \in Conns : conn[c].open}

\* What the calls below do to a session record.
LogoutRequest(r, time) == [r EXCEPT !.logoutTime = time]
Left(r) == LogoutRequest([r EXCEPT !.player = FALSE, !.entered = FALSE, !.asked = FALSE], "none")
PlayersOf(r) == IF r.player THEN 1 ELSE 0

\* Close and FinalizeSession of a socket, if there is one.
Close(k, cs) == IF k = NoConn THEN cs ELSE [cs EXCEPT ![k].open = FALSE]
Finalize(k, cs) == IF k = NoConn THEN cs ELSE [cs EXCEPT ![k].m_session = NoSession]

-----------------------------------------------------------------------------
(* The network thread of socket k. *)

\* The client connects, passes authentication, and FindSession looks it up.
FindSession(k) ==
    /\ conn[k].pc = "off"
    /\ \A j \in 1..(k - 1) : conn[j].pc # "off"
    /\ conn' = [conn EXCEPT ![k] =
                    [open |-> TRUE, m_session |-> entry,
                     pc |-> IF entry = NoSession THEN "create" ELSE "request"]]
    /\ UNCHANGED <<session, world, holders, players, crashed>>

\* new WorldSession and AddSession.
CreateSession(k) ==
    /\ conn[k].pc = "create"
    /\ \E s \in SessionIds :
        /\ session[s].status = "unborn"
        /\ \A t \in 1..(s - 1) : session[t].status # "unborn"
        /\ session' = [session EXCEPT ![s].status = "live", ![s].socket = k]
        /\ m_sessionAddQueue' = Append(m_sessionAddQueue, s)
        /\ conn' = [conn EXCEPT ![k].m_session = s, ![k].pc = "authed"]
    /\ UNCHANGED <<entry, tick, updating, removing, holders, players, crashed>>

\* Mutant: the session goes on in the state it is in.
RequestNewSocket_KeepsState(k) ==
    LET s == conn[k].m_session IN
    /\ conn[k].pc = "request"
    /\ IF ~Live(s)
       THEN crashed' = TRUE /\ UNCHANGED <<session, conn>>
       ELSE /\ updating # s
            /\ UNCHANGED crashed
            /\ IF session[s].request = NoConn
               THEN /\ session' = [session EXCEPT ![s].request = k]
                    /\ conn' = [conn EXCEPT ![k].pc = "waiting"]
               ELSE /\ conn' = [conn EXCEPT ![k].open = FALSE, ![k].pc = "closed"]
                    /\ UNCHANGED session
    /\ UNCHANGED <<world, holders, players>>

\* RequestNewSocket, which refuses a second request.
RequestNewSocket(k) ==
    LET s == conn[k].m_session IN
    /\ conn[k].pc = "request"
    /\ IF ~Live(s)
       THEN crashed' = TRUE /\ UNCHANGED <<session, conn>>
       ELSE /\ updating # s
            /\ UNCHANGED crashed
            /\ IF session[s].request = NoConn
               THEN /\ session' = [session EXCEPT ![s].request = k, ![s].state = "CREATED"]
                    /\ conn' = [conn EXCEPT ![k].pc = "waiting"]
               ELSE /\ conn' = [conn EXCEPT ![k].open = FALSE, ![k].pc = "closed"]
                    /\ UNCHANGED session
    /\ UNCHANGED <<world, holders, players>>

\* One round of while (m_session->GetState() != READY) { sleep;
\* if (IsClosed()) return false; } that changes something: it ends by the second
\* test or by the first, which looks into a session that may be gone.
GetState(k) ==
    LET s == conn[k].m_session IN
    /\ conn[k].pc = "waiting"
    /\ \/ /\ ~conn[k].open
          /\ conn' = [conn EXCEPT ![k].pc = "closed"]
          /\ UNCHANGED crashed
       \/ /\ Live(s)
          /\ session[s].state = "READY"
          /\ conn' = [conn EXCEPT ![k].pc = "authed"]
          /\ UNCHANGED crashed
       \/ /\ ~Live(s)
          /\ crashed' = TRUE
          /\ UNCHANGED conn
    /\ UNCHANGED <<session, world, holders, players>>

\* ProcessIncomingData: m_session is tested here and used in the next step.
Receive(k) ==
    /\ conn[k].pc = "authed"
    /\ conn[k].open
    /\ conn' = IF conn[k].m_session = NoSession
               THEN [conn EXCEPT ![k].open = FALSE, ![k].pc = "closed"]
               ELSE [conn EXCEPT ![k].pc = "queueing"]
    /\ UNCHANGED <<session, world, holders, players, crashed>>

\* Logins queued and not yet processed.
LoginsWaiting ==
    Cardinality({p \in SessionIds \X (1..MaxQueued) :
        p[2] \in DOMAIN session[p[1]].recvQueue /\ session[p[1]].recvQueue[p[2]] = "login"})

QueuePacket(k) ==
    LET s == conn[k].m_session IN
    /\ conn[k].pc = "queueing"
    /\ IF ~Live(s)
       THEN crashed' = TRUE /\ UNCHANGED <<session, conn>>
       ELSE /\ updating # s
            /\ Len(session[s].recvQueue) < MaxQueued
            /\ \E kind \in PacketKinds :
                /\ kind = "login" => holders + LoginsWaiting < MaxHolders
                /\ session' = [session EXCEPT ![s].recvQueue = Append(@, kind)]
            /\ conn' = [conn EXCEPT ![k].pc = "authed"]
            /\ UNCHANGED crashed
    /\ UNCHANGED <<world, holders, players>>

\* The network thread sees that the client is gone, unless it waits for the
\* session in HandleAuthSession.
Disconnect(k) ==
    /\ conn[k].pc = "authed"
    /\ conn[k].open
    /\ conn' = [conn EXCEPT ![k].open = FALSE, ![k].pc = "closed"]
    /\ UNCHANGED <<session, world, holders, players, crashed>>

-----------------------------------------------------------------------------
(* The world thread. *)

Idle == updating = NoSession /\ removing = NoSession

\* The packet loop ends.
PacketsDone(r) == IsClosed(r.socket) \/ r.recvQueue = <<>>

\* The first half of UpdateSessions: AddSession_ of each queued session, which
\* gives up when the account has one.
AddSessions ==
    /\ Idle
    /\ m_sessionAddQueue # <<>>
    /\ entry' = IF entry = NoSession THEN Head(m_sessionAddQueue) ELSE entry
    /\ m_sessionAddQueue' = <<>>
    /\ tick' = "sessions"
    /\ UNCHANGED <<session, updating, removing, conn, holders, players, crashed>>

BeginUpdate ==
    /\ Idle
    /\ entry # NoSession
    /\ updating' = entry
    /\ tick' = "sessions"
    /\ UNCHANGED <<session, entry, m_sessionAddQueue, removing, conn, holders, players, crashed>>

\* Map::Update has the session of a player who is in the world run its packets;
\* ProcessLogout() of its filter keeps it from what UpdateState does.  Where
\* no packet is waiting nothing would change.
BeginMapUpdate ==
    /\ Idle
    /\ tick = "maps"
    /\ entry # NoSession
    /\ session[entry].player
    /\ ~PacketsDone(session[entry])
    /\ updating' = entry
    /\ tick' = "inMap"
    /\ UNCHANGED <<session, entry, m_sessionAddQueue, removing, conn, holders, players, crashed>>

EndMapUpdate ==
    /\ tick = "inMap"
    /\ PacketsDone(session[updating])
    /\ updating' = NoSession
    /\ tick' = "sessions"
    /\ UNCHANGED <<session, entry, m_sessionAddQueue, removing, conn, holders, players, crashed>>

\* LogoutPlayer of the session whose record is r.
LogoutPlayer(s, r) ==
    /\ session' = [session EXCEPT ![s] = Left(r)]
    /\ players' = players - PlayersOf(r)

KickPlayer(s, r) ==
    /\ session' = [session EXCEPT ![s] = IF r.player THEN Left(r) ELSE r]
    /\ players' = players - PlayersOf(r)
    /\ conn' = Close(r.socket, conn)

\* Mutant: the timer of the disconnection survives the reconnection.
HandlePlayerReconnect_KeepsTimer(s, r) ==
    session' = [session EXCEPT ![s] = [r EXCEPT !.entered = TRUE, !.asked = FALSE]]

HandlePlayerReconnect(s, r) ==
    session' = [session EXCEPT ![s] =
                    LogoutRequest([r EXCEPT !.entered = TRUE, !.asked = FALSE], "none")]

\* CMSG_PLAYER_LOGIN.  PlayerLoading() is never true here: m_playerLoading is
\* set and reset within HandlePlayerLogin and HandlePlayerReconnect.
HandlePlayerLoginOpcode(s, r) ==
    /\ IF r.player
       THEN /\ IF r.logoutTime # "none"
               THEN HandlePlayerReconnect(s, r)
               ELSE session' = [session EXCEPT ![s] = r]
            /\ UNCHANGED holders
       ELSE /\ session' = [session EXCEPT ![s] = r]
            /\ holders' = holders + 1
    /\ UNCHANGED <<conn, players>>

\* CMSG_LOGOUT_REQUEST: refused in combat, at once where the player rests,
\* else in 20 seconds.
HandleLogoutRequestOpcode(s, r) ==
    /\ IF ~r.player
       THEN session' = [session EXCEPT ![s] = r] /\ UNCHANGED players
       ELSE \/ /\ session' = [session EXCEPT ![s] =
                                LogoutRequest([r EXCEPT !.asked = FALSE], "none")]
               /\ UNCHANGED players
            \/ LogoutPlayer(s, r)
            \/ /\ session' = [session EXCEPT ![s] =
                                LogoutRequest([r EXCEPT !.asked = TRUE], "recent")]
               /\ UNCHANGED players
    /\ UNCHANGED <<conn, holders>>

HandleLogoutCancelOpcode(s, r) ==
    /\ session' = [session EXCEPT ![s] =
                    IF r.player THEN LogoutRequest([r EXCEPT !.asked = FALSE], "none") ELSE r]
    /\ UNCHANGED <<conn, holders, players>>

\* The loop of WorldSession::Update.
ProcessPacket ==
    /\ updating # NoSession
    /\ session[updating].recvQueue # <<>>
    /\ LET s == updating
           queue == session[s].recvQueue
           r == [session[s] EXCEPT !.recvQueue = Tail(queue)]
       IN  /\ ~IsClosed(r.socket)
           /\ CASE Head(queue) = "login" -> HandlePlayerLoginOpcode(s, r)
                [] Head(queue) = "logout" -> HandleLogoutRequestOpcode(s, r)
                [] Head(queue) = "cancel" -> HandleLogoutCancelOpcode(s, r)
    /\ UNCHANGED <<world, crashed>>

\* SetOffline: the timer starts for a player, the socket is closed and let go.
SetOffline(r) ==
    [(IF r.player THEN LogoutRequest(r, "recent") ELSE r)
        EXCEPT !.socket = NoConn, !.state = "OFFLINE", !.entered = FALSE, !.asked = FALSE]
Release(k) == Finalize(k, Close(k, conn))

\* Mutant: the socket that is replaced keeps its session.
TakeRequestedSocket_NoSetOffline(s, r) ==
    /\ session' = [session EXCEPT ![s] =
                    [r EXCEPT !.socket = r.request, !.request = NoConn, !.state = "READY"]]
    /\ UNCHANGED conn

\* CREATED with m_requestSocket: SetOffline, for the state is not OFFLINE, then
\* the new socket.
TakeRequestedSocket(s, r) ==
    /\ session' = [session EXCEPT ![s] =
                    [SetOffline(r) EXCEPT !.socket = r.request, !.request = NoConn,
                                          !.state = "READY"]]
    /\ conn' = Release(r.socket)

Stay == updating' = NoSession /\ UNCHANGED removing
Remove(s) == updating' = NoSession /\ removing' = s

UpdateCreated(s, r) ==
    /\ r.state = "CREATED"
    /\ IF r.request # NoConn
       THEN TakeRequestedSocket(s, r)
       ELSE session' = [session EXCEPT ![s].state = "READY"] /\ UNCHANGED conn
    /\ Stay
    /\ UNCHANGED players

UpdateReady(s, r) ==
    /\ r.state = "READY"
    /\ CASE r.socket # NoConn /\ IsClosed(r.socket) /\ ~r.player ->
                Remove(s) /\ UNCHANGED <<session, conn, players>>
         [] r.socket # NoConn /\ IsClosed(r.socket) /\ r.player ->
                /\ session' = [session EXCEPT ![s] = SetOffline(r)]
                /\ conn' = Release(r.socket)
                /\ Stay
                /\ UNCHANGED players
         [] ~IsClosed(r.socket) /\ r.logoutTime \in {"over20", "over60"} ->
                LogoutPlayer(s, r) /\ Stay /\ UNCHANGED conn
         [] OTHER -> Stay /\ UNCHANGED <<session, conn, players>>

\* Mutant: an offline session waits for its client however long it takes.
UpdateOffline_Waits(s, r) ==
    /\ r.state = "OFFLINE"
    /\ Stay
    /\ UNCHANGED <<session, conn, players>>

UpdateOffline(s, r) ==
    /\ r.state = "OFFLINE"
    /\ IF r.logoutTime = "over60"
       THEN /\ LogoutPlayer(s, r)
            /\ IF r.request = NoConn /\ IsClosed(r.socket) THEN Remove(s) ELSE Stay
       ELSE Stay /\ UNCHANGED <<session, players>>
    /\ UNCHANGED conn

\* The rest of WorldSession::Update once the packets are done, by the state.
UpdateState ==
    LET s == updating IN
    /\ s # NoSession
    /\ tick = "sessions"
    /\ PacketsDone(session[s])
    /\ \/ UpdateCreated(s, session[s])
       \/ UpdateReady(s, session[s])
       \/ UpdateOffline(s, session[s])
    /\ tick' = IF session'[s].player THEN "maps" ELSE "sessions"
    /\ UNCHANGED <<entry, m_sessionAddQueue, holders, crashed>>

\* Mutant: the destructor unloads a player that is not there.
DeleteSession_UnloadsAlways ==
    LET s == removing  r == session[s] IN
    /\ s # NoSession
    /\ session' = [session EXCEPT ![s] = [Unborn EXCEPT !.status = "deleted"]]
    /\ players' = players - 1
    /\ conn' = Release(r.socket)
    /\ entry' = NoSession
    /\ removing' = NoSession
    /\ UNCHANGED <<m_sessionAddQueue, tick, updating, holders, crashed>>

\* erase, delete: m_Socket is closed and let go, m_requestSocket is not.
DeleteSession ==
    LET s == removing  r == session[s] IN
    /\ s # NoSession
    /\ session' = [session EXCEPT ![s] = [Unborn EXCEPT !.status = "deleted"]]
    /\ players' = players - PlayersOf(r)
    /\ conn' = Release(r.socket)
    /\ entry' = NoSession
    /\ removing' = NoSession
    /\ UNCHANGED <<m_sessionAddQueue, tick, updating, holders, crashed>>

\* HandlePlayerLoginCallback, run by UpdateResultQueue.  A new Player replaces
\* whatever _player was.  If LoadFromDB fails it is deleted by KickPlayer, to
\* which SetPlayer has already given it, and once more after it.
LoginCallback ==
    /\ Idle
    /\ holders > 0
    /\ holders' = holders - 1
    /\ IF entry = NoSession
       THEN UNCHANGED <<session, players, crashed>>
       ELSE \/ /\ session' = [session EXCEPT ![entry].player = TRUE, ![entry].entered =
                                ~IsClosed(session[entry].socket)]
               /\ players' = players + 1
               /\ UNCHANGED crashed
            \/ crashed' = TRUE /\ UNCHANGED <<session, players>>
    /\ tick' = "sessions"
    /\ UNCHANGED <<entry, m_sessionAddQueue, updating, removing, conn>>

\* A command, a ban, the end of the world; within Update, a packet that does
\* not parse or a handler.
Kick ==
    /\ removing = NoSession
    /\ entry # NoSession
    /\ KickPlayer(entry, session[entry])
    /\ UNCHANGED <<world, holders, crashed>>

\* Time passes.
Age ==
    /\ entry # NoSession
    /\ session[entry].logoutTime \in {"recent", "over20"}
    /\ session' = [session EXCEPT ![entry].logoutTime = IF @ = "recent" THEN "over20" ELSE "over60"]
    /\ UNCHANGED <<world, conn, holders, players, crashed>>

-----------------------------------------------------------------------------
Network(k) ==
    \/ FindSession(k) \/ CreateSession(k) \/ RequestNewSocket(k)
    \/ GetState(k)
    \/ Receive(k) \/ QueuePacket(k) \/ Disconnect(k)

World ==
    \/ AddSessions \/ BeginUpdate \/ ProcessPacket \/ UpdateState \/ DeleteSession
    \/ BeginMapUpdate \/ EndMapUpdate
    \/ LoginCallback

Next ==
    /\ ~crashed
    /\ (\E k \in Conns : Network(k)) \/ World \/ Kick \/ Age

\* The world thread goes round its loop, the network threads that wait for a
\* session wake up, and time passes.  Clients need not do anything.
Fairness ==
    /\ WF_vars(AddSessions) /\ WF_vars(BeginUpdate)
    /\ WF_vars(ProcessPacket) /\ WF_vars(UpdateState) /\ WF_vars(DeleteSession)
    /\ WF_vars(EndMapUpdate)
    /\ WF_vars(LoginCallback)
    /\ \A k \in Conns : WF_vars(GetState(k))
    /\ WF_vars(Age)

Spec == Init /\ [][Next]_vars /\ Fairness

-----------------------------------------------------------------------------
(* Properties. *)

\* Every variable holds a value of its type.
TypeOK ==
    /\ session \in [SessionIds ->
            [status : {"unborn", "live", "deleted"}, state : {"CREATED", "READY", "OFFLINE"},
             socket : Conns \cup {NoConn}, request : Conns \cup {NoConn}, player : BOOLEAN,
             logoutTime : LogoutTimes, recvQueue : Seq(PacketKinds),
             entered : BOOLEAN, asked : BOOLEAN]]
    /\ tick \in {"sessions", "maps", "inMap"}
    /\ {entry, updating, removing} \subseteq SessionIds \cup {NoSession}
    /\ m_sessionAddQueue \in Seq(SessionIds)
    /\ conn \in [Conns ->
            [open : BOOLEAN, m_session : SessionIds \cup {NoSession},
             pc : {"off", "create", "request", "waiting", "authed", "queueing", "closed"}]]
    /\ holders \in 0..MaxHolders
    /\ players \in Nat
    /\ crashed \in BOOLEAN

\* Sessions and sockets point at each other: the packets of a client that is
\* connected go to the session that answers it, and no two sessions share one
\* socket.
SocketOwnership ==
    /\ \A s \in SessionIds :
        Live(s) /\ session[s].socket # NoConn => conn[session[s].socket].m_session = s
    /\ \A k \in Conns :
        conn[k].open /\ conn[k].pc \in {"authed", "queueing"}
            => Live(conn[k].m_session) /\ session[conn[k].m_session].socket = k

\* A player who is back in the world after a lost connection is not logged out
\* by the timer which that loss had started.
NoStaleTimer ==
    \A s \in SessionIds :
        Live(s) /\ session[s].entered /\ ~session[s].asked => session[s].logoutTime = "none"

\* A player whose client is gone leaves the world, unless the client returns.
PlayerLeaves ==
    (entry # NoSession /\ session[entry].player /\ IsClosed(session[entry].socket))
        ~> \/ crashed \/ entry = NoSession
           \/ ~session[entry].player \/ ~IsClosed(session[entry].socket)

\* The network thread that waits for a session to take its socket does not
\* wait for ever.
RequestAnswered ==
    \A k \in Conns :
        (conn[k].pc = "waiting") ~> (conn[k].pc \in {"authed", "queueing", "closed"} \/ crashed)

\* "session not removed at kick and will removed in next update tick"
\* (World.cpp:1815): a session without player whose socket is closed, as a kick
\* leaves it, does not stay.
EmptyLeaves ==
    (entry # NoSession /\ ~session[entry].player /\ IsClosed(session[entry].socket))
        ~> \/ crashed \/ entry = NoSession
           \/ session[entry].player \/ ~IsClosed(session[entry].socket)

\* Every Player object belongs to a session.  The login handler means to refuse
\* a "try to login again while already in loading stage" (CharacterHandler.cpp:583).
PlayersOwned == players = Cardinality({s \in SessionIds : session[s].player})
=============================================================================
