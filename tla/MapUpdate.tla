------------------------------ MODULE MapUpdate ------------------------------
(***************************************************************************)
(* The update of the maps by a pool of threads: MapManager::Update and     *)
(* UnloadAll (src/src/game/Maps/MapManager.cpp), MapUpdater, the workers   *)
(* of MapWorkers.h, and the ProducerConsumerQueue between them.            *)
(*                                                                         *)
(* One step is one critical section of _lock or m_queueLock; wait() and    *)
(* WaitAndPop() give the lock up when they sleep.  schedule_update holds   *)
(* both locks, and no thread holds the second while it waits for the       *)
(* first, so it is one step.  The pool has at least one thread: without    *)
(* any, MapManager::Update updates the maps itself.                        *)
(*                                                                         *)
(* A map's update runs the handlers of packets its players have sent.      *)
(* Only those marked PROCESS_THREADUNSAFE are modelled.                    *)
(***************************************************************************)
EXTENDS Naturals, Sequences, FiniteSets

CONSTANTS
    Maps,       \* bound: the maps that can exist
    Workers,    \* the threads of the pool
    NoMap

ASSUME PoolAssumption ==
    /\ IsFiniteSet(Maps) /\ NoMap \notin Maps
    /\ IsFiniteSet(Workers) /\ Workers # {}

VARIABLES
    i_maps,             \* the maps that exist
    world,              \* where the world thread is
    toSchedule,         \* what is left of its loop over i_maps
    pending_requests,
    queue,              \* _queue.m_queue
    m_shutdown,         \* of the queue
    cancelationToken,
    pc,                 \* per worker: where it is
    request,            \* per worker: the map of its request, or NoMap for a null pointer
    updated,            \* history: the maps whose Update has returned in this tick
    unsafePackets       \* maps with a thread-unsafe packet in the queue of a player

schedule == <<i_maps, world, toSchedule>>
pool == <<pending_requests, queue, m_shutdown, cancelationToken>>
worker == <<pc, request>>
vars == <<schedule, pool, worker, updated, unsafePackets>>

Init ==
    /\ i_maps = {}
    /\ world = "sessions"
    /\ toSchedule = {}
    /\ pending_requests = 0
    /\ queue = <<>>
    /\ m_shutdown = FALSE
    /\ cancelationToken = FALSE
    /\ pc = [w \in Workers |-> "pop"]
    /\ request = [w \in Workers |-> NoMap]
    /\ updated = {}
    /\ unsafePackets = {}

InUpdate(w) == pc[w] \in {"execute", "handler"}

-----------------------------------------------------------------------------
(* The network threads and the world thread outside MapManager::Update. *)

\* QueuePacket: the lock of the queue is held while a session is updated.
QueuePacket(m) ==
    /\ world # "stopped"
    /\ m \in i_maps
    /\ \A w \in Workers : InUpdate(w) => request[w] # m
    /\ unsafePackets' = unsafePackets \cup {m}
    /\ UNCHANGED <<schedule, pool, worker, updated>>

\* UpdateSessions runs the handlers of whatever is queued.
UpdateSessions ==
    /\ world = "sessions"
    /\ unsafePackets # {}
    /\ unsafePackets' = {}
    /\ UNCHANGED <<schedule, pool, worker, updated>>

CreateMap(m) ==
    /\ world = "sessions"
    /\ m \notin i_maps
    /\ i_maps' = i_maps \cup {m}
    /\ UNCHANGED <<world, toSchedule, pool, worker, updated, unsafePackets>>

-----------------------------------------------------------------------------
(* MapManager::Update, world thread. *)

\* The timer has passed.
BeginTick ==
    /\ world = "sessions"
    /\ world' = "schedule"
    /\ toSchedule' = i_maps
    /\ updated' = {}
    /\ UNCHANGED <<i_maps, pool, worker, unsafePackets>>

Asleep == {w \in Workers : pc[w] = "asleep"}

\* Mutant: Push wakes nobody.
NotifyOne_Never == UNCHANGED pc

\* notify_one of the queue: one of those asleep looks at the queue again.
NotifyOne ==
    IF Asleep = {} THEN UNCHANGED pc ELSE \E w \in Asleep : pc' = [pc EXCEPT ![w] = "pop"]

\* schedule_update and, inside it, Push.
ScheduleUpdate ==
    /\ world = "schedule"
    /\ \E m \in toSchedule :
        /\ toSchedule' = toSchedule \ {m}
        /\ queue' = Append(queue, m)
    /\ pending_requests' = pending_requests + 1
    /\ NotifyOne
    /\ UNCHANGED <<i_maps, world, m_shutdown, cancelationToken, request, updated, unsafePackets>>

EndSchedule ==
    /\ world = "schedule"
    /\ toSchedule = {}
    /\ world' = "wait"
    /\ UNCHANGED <<i_maps, toSchedule, pool, worker, updated, unsafePackets>>

\* Mutant: the tick goes on when the queue is empty.
Wait_QueueEmpty ==
    /\ world = "wait"
    /\ world' = IF queue = <<>> THEN "unload" ELSE "blocked"
    /\ UNCHANGED <<i_maps, toSchedule, pool, worker, updated, unsafePackets>>

\* wait(): pending_requests is read with _lock held.
Wait ==
    /\ world = "wait"
    /\ world' = IF pending_requests > 0 THEN "blocked" ELSE "unload"
    /\ UNCHANGED <<i_maps, toSchedule, pool, worker, updated, unsafePackets>>

\* The transports are updated, and the maps that CanUnload are deleted.
UnloadMaps ==
    /\ world = "unload"
    /\ \E gone \in SUBSET i_maps :
        /\ i_maps' = i_maps \ gone
        /\ unsafePackets' = unsafePackets \ gone
    /\ world' = "sessions"
    /\ UNCHANGED <<toSchedule, pool, worker, updated>>

-----------------------------------------------------------------------------
(* A thread of the pool. *)

\* Mutant: the request stays in the queue.
WaitAndPop_KeepsRequest(w) ==
    /\ pc[w] = "pop"
    /\ IF queue = <<>> \/ m_shutdown
       THEN /\ pc' = [pc EXCEPT ![w] = IF m_shutdown THEN "popped" ELSE "asleep"]
            /\ UNCHANGED <<request, queue>>
       ELSE /\ pc' = [pc EXCEPT ![w] = "popped"]
            /\ request' = [request EXCEPT ![w] = Head(queue)]
            /\ UNCHANGED queue
    /\ UNCHANGED <<schedule, pending_requests, m_shutdown, cancelationToken, updated, unsafePackets>>

\* WaitAndPop from its lock to its sleep or its return, and again from its
\* wakeup.  After the shutdown it returns with the null pointer.
WaitAndPop(w) ==
    /\ pc[w] = "pop"
    /\ IF queue = <<>> \/ m_shutdown
       THEN /\ pc' = [pc EXCEPT ![w] = IF m_shutdown THEN "popped" ELSE "asleep"]
            /\ UNCHANGED <<request, queue>>
       ELSE /\ pc' = [pc EXCEPT ![w] = "popped"]
            /\ request' = [request EXCEPT ![w] = Head(queue)]
            /\ queue' = Tail(queue)
    /\ UNCHANGED <<schedule, pending_requests, m_shutdown, cancelationToken, updated, unsafePackets>>

\* A condition variable may wake a thread for no reason.
SpuriousWakeup ==
    /\ \/ /\ \E w \in Asleep : pc' = [pc EXCEPT ![w] = "pop"]
          /\ UNCHANGED world
       \/ /\ world = "blocked"
          /\ world' = "wait"
          /\ UNCHANGED pc
    /\ UNCHANGED <<i_maps, toSchedule, pool, request, updated, unsafePackets>>

\* if (_cancelationToken) { delete request; return; } request->execute();
Execute(w) ==
    /\ pc[w] = "popped"
    /\ pc' = [pc EXCEPT ![w] = IF cancelationToken THEN "ended" ELSE "execute"]
    /\ UNCHANGED <<schedule, pool, request, updated, unsafePackets>>

\* WorldSession::Update within Map::Update takes the packets one after the
\* other and asks no PacketFilter which of them to leave alone.
BeginHandler(w) ==
    /\ pc[w] = "execute"
    /\ request[w] \in unsafePackets
    /\ pc' = [pc EXCEPT ![w] = "handler"]
    /\ unsafePackets' = unsafePackets \ {request[w]}
    /\ UNCHANGED <<schedule, pool, request, updated>>

EndHandler(w) ==
    /\ pc[w] = "handler"
    /\ pc' = [pc EXCEPT ![w] = "execute"]
    /\ UNCHANGED <<schedule, pool, request, updated, unsafePackets>>

\* Map::Update returns.
MapUpdated(w) ==
    /\ pc[w] = "execute"
    /\ request[w] \notin unsafePackets
    /\ pc' = [pc EXCEPT ![w] = "finish"]
    /\ updated' = updated \cup {request[w]}
    /\ UNCHANGED <<schedule, pool, request, unsafePackets>>

\* update_finished, and the worker object is deleted.
UpdateFinished(w) ==
    /\ pc[w] = "finish"
    /\ pending_requests' = pending_requests - 1
    /\ world' = IF world = "blocked" THEN "wait" ELSE world
    /\ pc' = [pc EXCEPT ![w] = "pop"]
    /\ request' = [request EXCEPT ![w] = NoMap]
    /\ UNCHANGED <<i_maps, toSchedule, queue, m_shutdown, cancelationToken, updated, unsafePackets>>

-----------------------------------------------------------------------------
(* Shutdown: MapManager::UnloadAll, then MapUpdater::deactivate. *)

UnloadAll ==
    /\ world = "sessions"
    /\ i_maps' = {}
    /\ unsafePackets' = {}
    /\ world' = "deactivate"
    /\ UNCHANGED <<toSchedule, pool, worker, updated>>

\* Mutant: the token is not set.
SetToken_Forgotten ==
    /\ world = "deactivate"
    /\ world' = "cancel"
    /\ UNCHANGED <<i_maps, toSchedule, pool, worker, updated, unsafePackets>>

SetToken ==
    /\ world = "deactivate"
    /\ cancelationToken' = TRUE
    /\ world' = "cancel"
    /\ UNCHANGED <<i_maps, toSchedule, pending_requests, queue, m_shutdown, worker, updated,
                   unsafePackets>>

\* Mutant: it notifies nobody.
Cancel_NoNotify ==
    /\ world = "cancel"
    /\ queue' = <<>>
    /\ m_shutdown' = TRUE
    /\ world' = "join"
    /\ UNCHANGED <<i_maps, toSchedule, pending_requests, cancelationToken, worker, updated,
                   unsafePackets>>

\* ProducerConsumerQueue::Cancel, which notifies all.
Cancel ==
    /\ world = "cancel"
    /\ queue' = <<>>
    /\ m_shutdown' = TRUE
    /\ pc' = [w \in Workers |-> IF w \in Asleep THEN "pop" ELSE pc[w]]
    /\ world' = "join"
    /\ UNCHANGED <<i_maps, toSchedule, pending_requests, cancelationToken, request, updated,
                   unsafePackets>>

Join ==
    /\ world = "join"
    /\ \A w \in Workers : pc[w] = "ended"
    /\ world' = "stopped"
    /\ UNCHANGED <<i_maps, toSchedule, pool, worker, updated, unsafePackets>>

-----------------------------------------------------------------------------
UpdateMaps == BeginTick \/ ScheduleUpdate \/ EndSchedule \/ Wait \/ UnloadMaps

Deactivate == UnloadAll \/ SetToken \/ Cancel \/ Join

WorkerThread(w) ==
    \/ WaitAndPop(w) \/ Execute(w)
    \/ BeginHandler(w) \/ EndHandler(w) \/ MapUpdated(w)
    \/ UpdateFinished(w)

Next ==
    \/ \E m \in Maps : QueuePacket(m) \/ CreateMap(m)
    \/ UpdateSessions
    \/ UpdateMaps
    \/ \E w \in Workers : WorkerThread(w)
    \/ SpuriousWakeup
    \/ Deactivate

\* Every thread that is not asleep runs, and a map's update returns: its loop
\* takes packets only while none can be added.  Nobody has to begin a tick or a
\* shutdown, and no thread wakes up unless it is notified.
Fairness ==
    /\ WF_vars(ScheduleUpdate \/ EndSchedule \/ Wait \/ UnloadMaps)
    /\ WF_vars(SetToken \/ Cancel \/ Join)
    /\ \A w \in Workers : WF_vars(WorkerThread(w))

Spec == Init /\ [][Next]_vars /\ Fairness

-----------------------------------------------------------------------------
(* Properties. *)

\* Every variable holds a value of its type.
TypeOK ==
    /\ i_maps \subseteq Maps /\ toSchedule \subseteq Maps
    /\ updated \subseteq Maps /\ unsafePackets \subseteq Maps
    /\ world \in {"sessions", "schedule", "wait", "blocked", "unload",
                  "deactivate", "cancel", "join", "stopped"}
    /\ pending_requests \in Nat
    /\ queue \in Seq(Maps)
    /\ m_shutdown \in BOOLEAN /\ cancelationToken \in BOOLEAN
    /\ pc \in [Workers -> {"pop", "asleep", "popped", "execute", "handler", "finish", "ended"}]
    /\ request \in [Workers -> Maps \cup {NoMap}]

Busy == {w \in Workers : request[w] # NoMap}

\* pending_requests, which has no sign, counts what is queued or in the hands of
\* a worker, and a worker never executes a null request: not on a spurious
\* wakeup, and not when the shutdown wakes it.
RequestsCounted ==
    /\ pending_requests = Len(queue) + Cardinality(Busy)
    /\ \A w \in Workers : InUpdate(w) => request[w] # NoMap

\* One tick updates every map once, in one thread, and nothing of it is left
\* when the world thread goes on to the transports, to delete maps, and to the
\* sessions.
Tick == INSTANCE WorldTick WITH
    Threads <- Workers,
    maps <- i_maps,
    inTick <- world \in {"schedule", "wait", "blocked"},
    updating <- {wm \in Workers \X Maps : InUpdate(wm[1]) /\ request[wm[1]] = wm[2]}
TickSpec == Tick!Spec

\* A tick ends: the wakeups of workers and of the world thread are not lost.
TickEnds == (world = "schedule") ~> (world = "sessions")

\* A shutdown ends: every worker sees the token, asleep or not, and is joined.
ShutdownEnds == (world = "deactivate") ~> (world = "stopped")

\* "packet is not thread-safe - process it in World::UpdateSessions()"
\* (Opcodes.h:1365): its handler does not run beside the update of a map in
\* another thread.
UnsafeAlone ==
    \A w \in Workers : pc[w] = "handler" => \A v \in Workers \ {w} : ~InUpdate(v)
=============================================================================
