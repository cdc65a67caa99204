-------------------------- MODULE MapUpdate_proofs --------------------------
(***************************************************************************)
(* Theorems about MapUpdate for any finite pool and any maps: the type     *)
(* invariant, the count of requests, that the pool implements WorldTick,   *)
(* that no wakeup is lost and nobody waits for a thread that can not go    *)
(* on, and that a tick and a shutdown only come nearer to their ends.      *)
(* All rest on the inductive invariant IInv.                               *)
(***************************************************************************)
EXTENDS MapUpdate, FiniteSetTheorems, TLAPS

InTick == world \in {"schedule", "wait", "blocked"}

\* Who has a request in hand.  A worker that took the null pointer got it from
\* the shutdown, when the token was already set.
Hands ==
    \A w \in Workers :
        /\ pc[w] \in {"pop", "asleep", "ended"} => request[w] = NoMap
        /\ InUpdate(w) \/ pc[w] = "finish" => request[w] # NoMap
        /\ pc[w] = "popped" => request[w] # NoMap \/ cancelationToken

\* The order of the shutdown: the token, then the queue.
Order ==
    /\ cancelationToken <=> world \in {"cancel", "join", "stopped"}
    /\ m_shutdown => cancelationToken

Counted == pending_requests = Len(queue) + Cardinality(Busy)

\* Outside the tick the pool has nothing to do.
Quiet == ~InTick => pending_requests = 0

QueuedMaps == {queue[i] : i \in 1..Len(queue)}
HeldMaps == {request[w] : w \in Busy}

\* Within the tick every map is in one place: to be scheduled, queued, in the
\* hands of one worker, or updated, where it may still be in those hands.
Places ==
    /\ world # "schedule" => toSchedule = {}
    /\ InTick =>
        /\ i_maps = toSchedule \cup QueuedMaps \cup HeldMaps \cup updated
        /\ toSchedule \cap (QueuedMaps \cup HeldMaps \cup updated) = {}
        /\ QueuedMaps \cap (HeldMaps \cup updated) = {}
        /\ \A i, j \in 1..Len(queue) : i # j => queue[i] # queue[j]
        /\ \A w \in Busy : request[w] \in updated <=> pc[w] = "finish"
        /\ \A v, w \in Busy : v # w => request[v] # request[w]

IInv == TypeOK /\ Hands /\ Order /\ Counted /\ Quiet /\ Places

-----------------------------------------------------------------------------
(* The queue and the hands of the workers. *)

\* What Push does to the queue.
LEMMA Pushed ==
    ASSUME NEW S, NEW q \in Seq(S), NEW x \in S
    PROVE  LET r == Append(q, x) IN
           /\ r \in Seq(S)
           /\ Len(r) = Len(q) + 1
           /\ \A i \in 1..Len(q) : r[i] = q[i]
           /\ r[Len(q) + 1] = x
  OBVIOUS

\* What pop does to it.
LEMMA Popped ==
    ASSUME NEW S, NEW q \in Seq(S), q # <<>>
    PROVE  /\ Head(q) \in S /\ Head(q) = q[1] /\ Len(q) \in Nat /\ Len(q) >= 1
           /\ Tail(q) \in Seq(S)
           /\ Len(Tail(q)) = Len(q) - 1
           /\ \A i \in 1..(Len(q) - 1) : Tail(q)[i] = q[i + 1]
  OBVIOUS

\* The workers that are busy can be counted.
LEMMA BusyFinite ==
    ASSUME TypeOK
    PROVE  IsFiniteSet(Busy) /\ Cardinality(Busy) \in Nat
<1>1. Busy \in SUBSET Workers
  BY DEF Busy
<1> QED  BY <1>1, FS_Subset, FS_CardinalityType, PoolAssumption

\* When nothing is counted, nothing is queued and nobody holds a request.
LEMMA NothingLeft ==
    ASSUME TypeOK, Counted, pending_requests = 0
    PROVE  /\ queue = <<>> /\ QueuedMaps = {}
           /\ Busy = {} /\ HeldMaps = {}
           /\ \A w \in Workers : request[w] = NoMap
<1>1. Len(queue) = 0 /\ Cardinality(Busy) = 0
  BY BusyFinite DEF TypeOK, Counted
<1>2. queue = <<>>
  BY <1>1 DEF TypeOK
<1>3. Busy = {}
  BY <1>1, BusyFinite, FS_EmptySet
<1> QED  BY <1>1, <1>2, <1>3 DEF QueuedMaps, HeldMaps, Busy

-----------------------------------------------------------------------------
(* The inductive invariant. *)

\* The pool before the first map: all workers look at an empty queue.
LEMMA InitIInv == Init => IInv
<1> SUFFICES ASSUME Init PROVE IInv
  OBVIOUS
<1>1. Busy = {}
  BY DEF Init, Busy
<1>2. TypeOK
  <2>1. queue \in Seq(Maps)
    BY DEF Init
  <2>2. request \in [Workers -> Maps \cup {NoMap}]
    BY DEF Init
  <2>3. pc \in [Workers -> {"pop", "asleep", "popped", "execute", "handler", "finish", "ended"}]
    BY DEF Init
  <2> QED  BY <2>1, <2>2, <2>3 DEF Init, TypeOK
<1>3. Counted
  BY <1>1, FS_EmptySet DEF Init, Counted
<1> QED  BY <1>2, <1>3, PoolAssumption DEF IInv, Init, Hands, Order, Quiet, Places, InTick, InUpdate

\* Packets that arrive and are handled by UpdateSessions leave the pool alone.
LEMMA PacketsIInv ==
    ASSUME IInv, (\E m \in Maps : QueuePacket(m)) \/ UpdateSessions
    PROVE  IInv'
<1>1. UNCHANGED <<schedule, pool, worker, updated>> /\ unsafePackets' \subseteq Maps
  BY DEF QueuePacket, UpdateSessions, IInv, TypeOK
<1> USE <1>1 DEF schedule, pool, worker
<1>2. TypeOK'
  BY DEF IInv, TypeOK
<1>3. Hands' /\ Order' /\ Counted' /\ Quiet' /\ Places'
  BY DEF IInv, Hands, InUpdate, Order, Counted, Busy, Quiet, InTick, Places, QueuedMaps, HeldMaps
<1> QED  BY <1>2, <1>3 DEF IInv

\* Maps made and deleted outside the tick, and the start of a shutdown.
LEMMA ChangeIInv ==
    ASSUME IInv, (\E m \in Maps : CreateMap(m)) \/ UnloadMaps \/ UnloadAll
    PROVE  IInv'
<1>1. /\ UNCHANGED <<toSchedule, pool, worker, updated>>
      /\ ~InTick /\ ~InTick'
      /\ world \in {"sessions", "unload"} /\ world' \in {"sessions", "deactivate"}
      /\ i_maps' \subseteq Maps /\ unsafePackets' \subseteq Maps
  BY DEF CreateMap, UnloadMaps, UnloadAll, IInv, TypeOK, InTick
<1> USE <1>1 DEF pool, worker
<1>2. TypeOK'
  BY DEF IInv, TypeOK
<1>3. Hands' /\ Order' /\ Counted' /\ Quiet'
  BY DEF IInv, Hands, InUpdate, Order, Counted, Busy, Quiet
<1>4. Places'
  BY DEF IInv, Places
<1> QED  BY <1>2, <1>3, <1>4 DEF IInv

\* The tick starts with every map to be scheduled and none anywhere else.
LEMMA BeginTickIInv ==
    ASSUME IInv, BeginTick
    PROVE  IInv'
<1> USE DEF BeginTick, pool, worker
<1>1. TypeOK'
  BY DEF IInv, TypeOK
<1>2. Hands' /\ Order' /\ Counted' /\ Quiet'
  BY DEF IInv, Hands, InUpdate, Order, Counted, Busy, Quiet, InTick
<1>3. queue = <<>> /\ QueuedMaps = {} /\ Busy = {} /\ HeldMaps = {}
  BY NothingLeft DEF IInv, Quiet, InTick
<1>4. queue' = <<>> /\ QueuedMaps' = {} /\ Busy' = {} /\ HeldMaps' = {}
  BY <1>3 DEF Busy, HeldMaps, QueuedMaps
<1>5. Places'
  BY <1>4 DEF Places
<1> QED  BY <1>1, <1>2, <1>5 DEF IInv

\* notify_one moves a worker that sleeps, who has no request, and no other.
LEMMA Notified ==
    ASSUME TypeOK, NotifyOne
    PROVE  /\ pc' \in [Workers -> {"pop", "asleep", "popped", "execute", "handler",
                                  "finish", "ended"}]
           /\ \A w \in Workers : \/ pc'[w] = pc[w]
                                 \/ pc[w] = "asleep" /\ pc'[w] = "pop"
  BY DEF TypeOK, NotifyOne, Asleep

\* schedule_update moves a map from the loop of the world thread to the queue,
\* and counts it.
LEMMA ScheduleUpdateIInv ==
    ASSUME IInv, ScheduleUpdate
    PROVE  IInv'
<1>1. PICK m \in toSchedule : toSchedule' = toSchedule \ {m} /\ queue' = Append(queue, m)
  BY DEF ScheduleUpdate
<1>2. /\ UNCHANGED <<i_maps, world, m_shutdown, cancelationToken, request, updated, unsafePackets>>
      /\ world = "schedule" /\ NotifyOne /\ pending_requests' = pending_requests + 1
  BY DEF ScheduleUpdate
<1>3. m \in Maps /\ queue \in Seq(Maps) /\ TypeOK
  BY DEF IInv, TypeOK
<1>4. /\ queue' \in Seq(Maps) /\ Len(queue') = Len(queue) + 1
      /\ \A i \in 1..Len(queue) : queue'[i] = queue[i]
      /\ queue'[Len(queue) + 1] = m
  BY <1>1, <1>3, Pushed
<1>5. Len(queue) \in Nat
  BY <1>3
<1>6. TypeOK'
  BY <1>1, <1>2, <1>3, <1>4, Notified DEF TypeOK
<1>7. Hands'
  BY <1>2, <1>3, Notified DEF IInv, Hands, InUpdate
<1>8. Busy' = Busy /\ HeldMaps' = HeldMaps
  BY <1>2 DEF Busy, HeldMaps
<1>9. Order' /\ Quiet'
  BY <1>2 DEF IInv, Order, Quiet, InTick
<1>10. Counted'
  BY <1>2, <1>3, <1>4, <1>5, <1>8, BusyFinite DEF IInv, Counted
<1>11. QueuedMaps' = QueuedMaps \cup {m}
  BY <1>4, <1>5 DEF QueuedMaps
<1>12. Places'
  <2>1. /\ i_maps = toSchedule \cup QueuedMaps \cup HeldMaps \cup updated
        /\ toSchedule \cap (QueuedMaps \cup HeldMaps \cup updated) = {}
        /\ QueuedMaps \cap (HeldMaps \cup updated) = {}
        /\ \A i, j \in 1..Len(queue) : i # j => queue[i] # queue[j]
        /\ \A w \in Busy : request[w] \in updated <=> pc[w] = "finish"
        /\ \A v, w \in Busy : v # w => request[v] # request[w]
    BY <1>2 DEF IInv, Places, InTick
  <2>2. /\ i_maps' = toSchedule' \cup QueuedMaps' \cup HeldMaps' \cup updated'
        /\ toSchedule' \cap (QueuedMaps' \cup HeldMaps' \cup updated') = {}
        /\ QueuedMaps' \cap (HeldMaps' \cup updated') = {}
    BY <1>1, <1>2, <1>8, <1>11, <2>1
  <2>3. ASSUME NEW i \in 1..Len(queue'), NEW j \in 1..Len(queue'), i # j
        PROVE  queue'[i] # queue'[j]
    <3>1. \A k \in 1..Len(queue) : queue[k] # m
      BY <2>1 DEF QueuedMaps
    <3>2. i \in 1..Len(queue) \/ i = Len(queue) + 1
      BY <1>4, <1>5
    <3>3. j \in 1..Len(queue) \/ j = Len(queue) + 1
      BY <1>4, <1>5
    <3> QED  BY <1>4, <2>1, <2>3, <3>1, <3>2, <3>3
  <2>4. \A w \in Busy' : request'[w] \in updated' <=> pc'[w] = "finish"
    BY <1>2, <1>3, <1>8, <2>1, Notified DEF Busy
  <2>5. \A v, w \in Busy' : v # w => request'[v] # request'[w]
    BY <1>2, <1>8, <2>1
  <2>6. world' = "schedule"
    BY <1>2
  <2> QED  BY <2>2, <2>3, <2>4, <2>5, <2>6 DEF Places
<1> QED  BY <1>6, <1>7, <1>9, <1>10, <1>12 DEF IInv

\* The world thread on its way to wait(), and out of it when nothing is
\* pending.
LEMMA WaitIInv ==
    ASSUME IInv, EndSchedule \/ Wait
    PROVE  IInv'
<1>1. /\ UNCHANGED <<i_maps, toSchedule, pool, worker, updated, unsafePackets>>
      /\ world \in {"schedule", "wait"} /\ toSchedule = {}
      /\ world' \in {"wait", "blocked", "unload"}
      /\ world' = "unload" => ~(pending_requests > 0)
  BY DEF EndSchedule, Wait, IInv, Places
<1> USE <1>1 DEF pool, worker
<1>2. TypeOK'
  BY DEF IInv, TypeOK
<1>3. Hands' /\ Order' /\ Counted'
  BY DEF IInv, Hands, InUpdate, Order, Counted, Busy
<1>4. Quiet'
  BY DEF IInv, TypeOK, Quiet, InTick
<1>5. Places'
  BY DEF IInv, Places, InTick, QueuedMaps, HeldMaps, Busy
<1> QED  BY <1>2, <1>3, <1>4, <1>5 DEF IInv

\* WaitAndPop hands the head of the queue to one worker, or puts it to sleep,
\* or sends it to its end.
LEMMA WaitAndPopIInv ==
    ASSUME IInv, NEW w \in Workers, WaitAndPop(w)
    PROVE  IInv'
<1>1. /\ UNCHANGED <<schedule, pending_requests, m_shutdown, cancelationToken, updated, unsafePackets>>
      /\ pc[w] = "pop" /\ request[w] = NoMap
  BY DEF WaitAndPop, IInv, Hands
<1> USE <1>1 DEF schedule
<1>2. CASE queue = <<>> \/ m_shutdown
  <2>1. /\ UNCHANGED <<request, queue>>
        /\ pc' = [pc EXCEPT ![w] = IF m_shutdown THEN "popped" ELSE "asleep"]
    BY <1>2 DEF WaitAndPop
  <2>2. TypeOK'
    BY <2>1 DEF IInv, TypeOK
  <2>3. Hands'
    BY <2>1 DEF IInv, TypeOK, Hands, InUpdate, Order
  <2>4. Busy' = Busy /\ HeldMaps' = HeldMaps /\ QueuedMaps' = QueuedMaps
    BY <2>1 DEF Busy, HeldMaps, QueuedMaps
  <2>5. Order' /\ Counted' /\ Quiet'
    BY <2>1, <2>4 DEF IInv, Order, Counted, Quiet, InTick
  <2>6. \A v \in Busy : pc'[v] = pc[v]
    BY <2>1 DEF IInv, TypeOK, Busy
  <2>7. Places'
    BY <2>1, <2>4, <2>6 DEF IInv, Places, InTick
  <2> QED  BY <2>2, <2>3, <2>5, <2>7 DEF IInv
<1>3. CASE queue # <<>> /\ ~m_shutdown
  <2>1. /\ pc' = [pc EXCEPT ![w] = "popped"]
        /\ request' = [request EXCEPT ![w] = Head(queue)]
        /\ queue' = Tail(queue)
    BY <1>3 DEF WaitAndPop
  <2> DEFINE m == Head(queue)
  <2>2. queue \in Seq(Maps)
    BY DEF IInv, TypeOK
  <2>3. /\ m \in Maps /\ m = queue[1] /\ Len(queue) \in Nat /\ Len(queue) >= 1
        /\ queue' \in Seq(Maps)
        /\ Len(queue') = Len(queue) - 1
        /\ \A i \in 1..(Len(queue) - 1) : queue'[i] = queue[i + 1]
    BY <1>3, <2>1, <2>2, Popped
  <2>4. m # NoMap
    BY <2>3, PoolAssumption
  <2>5. TypeOK'
    BY <2>1, <2>3 DEF IInv, TypeOK
  <2>6. /\ request' = [v \in Workers |-> IF v = w THEN m ELSE request[v]]
        /\ pc' = [v \in Workers |-> IF v = w THEN "popped" ELSE pc[v]]
    BY <2>1 DEF IInv, TypeOK
  <2>7. Hands'
    BY <2>4, <2>6 DEF IInv, Hands, InUpdate
  <2>8. w \notin Busy /\ Busy' = Busy \cup {w}
    BY <2>4, <2>6 DEF Busy
  <2>9. Cardinality(Busy') = Cardinality(Busy) + 1 /\ Cardinality(Busy) \in Nat
    BY <2>8, BusyFinite, FS_AddElement DEF IInv
  <2>10. Counted'
    BY <2>3, <2>9 DEF IInv, TypeOK, Counted
  <2>11. Order' /\ Quiet'
    BY DEF IInv, Order, Quiet, InTick
  <2>12. InTick
    <3> SUFFICES ASSUME ~InTick PROVE FALSE
      OBVIOUS
    <3> QED  BY <1>3, NothingLeft DEF IInv, Quiet
  <2>13. /\ i_maps = toSchedule \cup QueuedMaps \cup HeldMaps \cup updated
         /\ toSchedule \cap (QueuedMaps \cup HeldMaps \cup updated) = {}
         /\ QueuedMaps \cap (HeldMaps \cup updated) = {}
         /\ \A i, j \in 1..Len(queue) : i # j => queue[i] # queue[j]
         /\ \A v \in Busy : request[v] \in updated <=> pc[v] = "finish"
         /\ \A u, v \in Busy : u # v => request[u] # request[v]
         /\ world # "schedule" => toSchedule = {}
    BY <2>12 DEF IInv, Places
  <2>14. QueuedMaps' = QueuedMaps \ {m} /\ m \in QueuedMaps
    <3>1. \A i \in 1..Len(queue) : i = 1 \/ (i - 1 \in 1..Len(queue') /\ queue'[i - 1] = queue[i])
      BY <2>3
    <3>2. \A i \in 1..Len(queue') : i + 1 \in 1..Len(queue) /\ queue'[i] = queue[i + 1] /\ i + 1 # 1
      BY <2>3
    <3>3. 1 \in 1..Len(queue)
      BY <2>3
    <3>4. \A i \in 1..Len(queue) : i # 1 => queue[i] # m
      BY <2>3, <2>13, <3>3
    <3>5. QueuedMaps' \subseteq QueuedMaps \ {m}
      BY <3>2, <3>4 DEF QueuedMaps
    <3>6. QueuedMaps \ {m} \subseteq QueuedMaps'
      BY <2>3, <3>1 DEF QueuedMaps
    <3> QED  BY <2>3, <3>3, <3>5, <3>6 DEF QueuedMaps
  <2>15. HeldMaps' = HeldMaps \cup {m}
    BY <2>6, <2>8 DEF HeldMaps, Busy
  <2>16. \A i, j \in 1..Len(queue') : i # j => queue'[i] # queue'[j]
    <3> SUFFICES ASSUME NEW i \in 1..Len(queue'), NEW j \in 1..Len(queue'), i # j
                 PROVE  queue'[i] # queue'[j]
      OBVIOUS
    <3>1. i + 1 \in 1..Len(queue) /\ j + 1 \in 1..Len(queue) /\ i + 1 # j + 1
      BY <2>3
    <3> QED  BY <2>3, <2>13, <3>1
  <2>17. \A v \in Busy' : request'[v] \in updated' <=> pc'[v] = "finish"
    BY <2>6, <2>8, <2>13, <2>14 DEF Busy
  <2>18. \A u, v \in Busy' : u # v => request'[u] # request'[v]
    <3>1. \A v \in Busy : request[v] # m
      BY <2>13, <2>14 DEF HeldMaps
    <3> QED  BY <2>6, <2>8, <2>13, <3>1 DEF Busy
  <2>19. Places'
    BY <2>13, <2>14, <2>15, <2>16, <2>17, <2>18 DEF Places
  <2> QED  BY <2>5, <2>7, <2>10, <2>11, <2>19 DEF IInv
<1> QED  BY <1>2, <1>3

\* A wakeup for no reason changes who looks at what, and nothing else.
LEMMA SpuriousWakeupIInv ==
    ASSUME IInv, SpuriousWakeup
    PROVE  IInv'
<1> DEFINE Pc == {"pop", "asleep", "popped", "execute", "handler", "finish", "ended"}
<1>1. /\ UNCHANGED <<i_maps, toSchedule, pool, request, updated, unsafePackets>>
      /\ pc' \in [Workers -> Pc]
      /\ \A v \in Workers : pc'[v] = pc[v] \/ (pc[v] = "asleep" /\ pc'[v] = "pop")
      /\ world' = world \/ (world = "blocked" /\ world' = "wait")
  <2>1. pc \in [Workers -> Pc]
    BY DEF IInv, TypeOK
  <2>2. CASE \E v \in Asleep : pc' = [pc EXCEPT ![v] = "pop"]
    BY <2>1, <2>2 DEF SpuriousWakeup, Asleep
  <2>3. CASE UNCHANGED pc
    BY <2>1, <2>3 DEF SpuriousWakeup
  <2> QED  BY <2>2, <2>3 DEF SpuriousWakeup
<1> USE <1>1 DEF pool
<1>2. TypeOK'
  BY DEF IInv, TypeOK
<1>3. Hands' /\ Order' /\ Counted' /\ Quiet'
  BY DEF IInv, Hands, InUpdate, Order, Counted, Busy, Quiet, InTick
<1>4. Busy' = Busy /\ HeldMaps' = HeldMaps /\ QueuedMaps' = QueuedMaps /\ InTick' = InTick
  BY DEF Busy, HeldMaps, QueuedMaps, InTick
<1>5. \A v \in Busy : pc'[v] = pc[v]
  BY DEF Busy, IInv, Hands
<1>6. Places'
  BY <1>4, <1>5 DEF IInv, Places
<1> QED  BY <1>2, <1>3, <1>6 DEF IInv

\* A worker with its request, from the token through the handlers.
LEMMA ExecuteIInv ==
    ASSUME IInv, NEW w \in Workers, Execute(w) \/ BeginHandler(w) \/ EndHandler(w)
    PROVE  IInv'
<1>1. PICK next \in {"execute", "handler", "ended"} :
        /\ UNCHANGED <<schedule, pool, request, updated>>
        /\ unsafePackets' \subseteq Maps
        /\ pc[w] \in {"popped", "execute", "handler"}
        /\ pc' = [pc EXCEPT ![w] = next]
        /\ next = "ended" => cancelationToken
        /\ next # "ended" => pc[w] # "popped" \/ ~cancelationToken
  BY DEF Execute, BeginHandler, EndHandler, IInv, TypeOK
<1> USE <1>1 DEF schedule, pool
<1>2. TypeOK'
  BY DEF IInv, TypeOK
<1>3. next = "ended" => request[w] = NoMap
  BY NothingLeft DEF IInv, Order, Quiet, InTick
<1>4. next # "ended" => request[w] # NoMap
  BY DEF IInv, Hands, InUpdate
<1>5. Hands'
  BY <1>3, <1>4 DEF IInv, TypeOK, Hands, InUpdate
<1>6. Order' /\ Counted' /\ Quiet'
  BY DEF IInv, Order, Counted, Busy, Quiet, InTick
<1>7. Busy' = Busy /\ HeldMaps' = HeldMaps /\ QueuedMaps' = QueuedMaps /\ InTick' = InTick
  BY DEF Busy, HeldMaps, QueuedMaps, InTick
<1>8. \A v \in Workers : pc'[v] = "finish" <=> pc[v] = "finish"
  BY DEF IInv, TypeOK
<1>9. Places'
  BY <1>7, <1>8 DEF IInv, Places, Busy
<1> QED  BY <1>2, <1>5, <1>6, <1>9 DEF IInv

\* Map::Update returns: its map is done, and still in the worker's hands.
LEMMA MapUpdatedIInv ==
    ASSUME IInv, NEW w \in Workers, MapUpdated(w)
    PROVE  IInv'
<1>1. /\ UNCHANGED <<schedule, pool, request, unsafePackets>>
      /\ pc[w] = "execute" /\ pc' = [pc EXCEPT ![w] = "finish"]
      /\ updated' = updated \cup {request[w]}
      /\ request[w] # NoMap /\ request[w] \in Maps
  BY DEF MapUpdated, IInv, TypeOK, Hands, InUpdate
<1> USE <1>1 DEF schedule, pool
<1>2. TypeOK'
  BY DEF IInv, TypeOK
<1>3. Hands'
  BY DEF IInv, TypeOK, Hands, InUpdate
<1>4. Order' /\ Counted' /\ Quiet'
  BY DEF IInv, Order, Counted, Busy, Quiet, InTick
<1>5. Busy' = Busy /\ HeldMaps' = HeldMaps /\ QueuedMaps' = QueuedMaps /\ InTick' = InTick
  BY DEF Busy, HeldMaps, QueuedMaps, InTick
<1>6. w \in Busy /\ request[w] \in HeldMaps
  BY DEF Busy, HeldMaps
<1>7. pc' = [v \in Workers |-> IF v = w THEN "finish" ELSE pc[v]]
  BY DEF IInv, TypeOK
<1>8. Places'
  <2>1. toSchedule' = toSchedule /\ world' = world /\ queue' = queue /\ i_maps' = i_maps
    OBVIOUS
  <2> SUFFICES ASSUME InTick
               PROVE  /\ i_maps = toSchedule \cup QueuedMaps \cup HeldMaps \cup updated'
                      /\ toSchedule \cap (QueuedMaps \cup HeldMaps \cup updated') = {}
                      /\ QueuedMaps \cap (HeldMaps \cup updated') = {}
                      /\ \A v \in Busy : request[v] \in updated' <=> pc'[v] = "finish"
    BY <1>5, <2>1 DEF IInv, Places
  <2>2. /\ i_maps = toSchedule \cup QueuedMaps \cup HeldMaps \cup updated
        /\ toSchedule \cap (QueuedMaps \cup HeldMaps \cup updated) = {}
        /\ QueuedMaps \cap (HeldMaps \cup updated) = {}
        /\ \A v \in Busy : request[v] \in updated <=> pc[v] = "finish"
        /\ \A u, v \in Busy : u # v => request[u] # request[v]
    BY DEF IInv, Places
  <2>3. /\ i_maps = toSchedule \cup QueuedMaps \cup HeldMaps \cup updated'
        /\ toSchedule \cap (QueuedMaps \cup HeldMaps \cup updated') = {}
        /\ QueuedMaps \cap (HeldMaps \cup updated') = {}
    BY <1>6, <2>2
  <2>4. \A v \in Busy : request[v] \in updated' <=> pc'[v] = "finish"
    BY <1>6, <1>7, <2>2 DEF Busy
  <2> QED  BY <2>3, <2>4
<1> QED  BY <1>2, <1>3, <1>4, <1>8 DEF IInv

\* update_finished lets go of a map that is done, and counts it off.
LEMMA UpdateFinishedIInv ==
    ASSUME IInv, NEW w \in Workers, UpdateFinished(w)
    PROVE  IInv'
<1>1. /\ UNCHANGED <<i_maps, toSchedule, queue, m_shutdown, cancelationToken, updated, unsafePackets>>
      /\ pending_requests' = pending_requests - 1
      /\ world' = IF world = "blocked" THEN "wait" ELSE world
      /\ pc[w] = "finish" /\ request[w] # NoMap
      /\ pc' = [v \in Workers |-> IF v = w THEN "pop" ELSE pc[v]]
      /\ request' = [v \in Workers |-> IF v = w THEN NoMap ELSE request[v]]
  BY DEF UpdateFinished, IInv, TypeOK, Hands
<1> USE <1>1
<1>2. w \in Busy /\ Busy' = Busy \ {w}
  BY DEF Busy
<1>3. Cardinality(Busy') = Cardinality(Busy) - 1 /\ Cardinality(Busy) \in Nat /\ Cardinality(Busy') \in Nat
  <2>1. IsFiniteSet(Busy) /\ Cardinality(Busy) \in Nat
    BY BusyFinite DEF IInv
  <2>2. IsFiniteSet(Busy') /\ Cardinality(Busy') = Cardinality(Busy) - 1
    BY <1>2, <2>1, FS_RemoveElement
  <2> QED  BY <2>1, <2>2, FS_CardinalityType
<1>4. Counted'
  BY <1>3 DEF IInv, TypeOK, Counted
<1>5. pending_requests' \in Nat
  BY <1>3, <1>4 DEF IInv, TypeOK, Counted
<1>6. TypeOK'
  BY <1>5 DEF IInv, TypeOK
<1>7. Hands'
  BY DEF IInv, Hands, InUpdate
<1>8. Order'
  BY DEF IInv, Order
<1>9. InTick' = InTick
  BY DEF InTick
<1>10. Quiet'
  BY <1>3, <1>9 DEF IInv, TypeOK, Counted, Quiet
<1>11. QueuedMaps' = QueuedMaps
  BY DEF QueuedMaps
<1>12. Places'
  <2>1. world' # "schedule" => world # "schedule"
    OBVIOUS
  <2> SUFFICES ASSUME InTick
               PROVE  /\ i_maps = toSchedule \cup QueuedMaps \cup HeldMaps' \cup updated
                      /\ toSchedule \cap (QueuedMaps \cup HeldMaps' \cup updated) = {}
                      /\ QueuedMaps \cap (HeldMaps' \cup updated) = {}
                      /\ \A v \in Busy' : request'[v] \in updated <=> pc'[v] = "finish"
                      /\ \A u, v \in Busy' : u # v => request'[u] # request'[v]
    BY <1>9, <1>11, <2>1 DEF IInv, Places
  <2>2. /\ i_maps = toSchedule \cup QueuedMaps \cup HeldMaps \cup updated
        /\ toSchedule \cap (QueuedMaps \cup HeldMaps \cup updated) = {}
        /\ QueuedMaps \cap (HeldMaps \cup updated) = {}
        /\ \A v \in Busy : request[v] \in updated <=> pc[v] = "finish"
        /\ \A u, v \in Busy : u # v => request[u] # request[v]
    BY DEF IInv, Places
  <2>3. /\ \A v \in Busy' : v \in Busy /\ v \in Workers /\ v # w
        /\ \A v \in Busy' : request'[v] = request[v] /\ pc'[v] = pc[v]
    BY <1>2 DEF Busy
  <2>4. HeldMaps' \subseteq HeldMaps /\ HeldMaps \subseteq HeldMaps' \cup {request[w]}
    BY <1>2, <2>3 DEF HeldMaps
  <2>5. request[w] \in updated
    BY <1>2, <2>2
  <2>6. /\ i_maps = toSchedule \cup QueuedMaps \cup HeldMaps' \cup updated
        /\ toSchedule \cap (QueuedMaps \cup HeldMaps' \cup updated) = {}
        /\ QueuedMaps \cap (HeldMaps' \cup updated) = {}
    BY <2>2, <2>4, <2>5
  <2> QED  BY <2>2, <2>3, <2>6
<1> QED  BY <1>4, <1>6, <1>7, <1>8, <1>10, <1>12 DEF IInv

\* The shutdown: the token first, then the queue, then the threads are joined.
LEMMA DeactivateIInv ==
    ASSUME IInv, SetToken \/ Cancel \/ Join
    PROVE  IInv'
<1>1. /\ UNCHANGED <<i_maps, toSchedule, pending_requests, request, updated, unsafePackets>>
      /\ world \in {"deactivate", "cancel", "join"} /\ world' \in {"cancel", "join", "stopped"}
  BY DEF SetToken, Cancel, Join, pool, worker
<1>2. /\ cancelationToken' = TRUE
      /\ m_shutdown' \in BOOLEAN
  BY DEF SetToken, Cancel, Join, pool, IInv, TypeOK, Order
<1>3. ~InTick /\ ~InTick'
  BY <1>1 DEF InTick
<1>4. /\ pending_requests = 0 /\ queue = <<>> /\ QueuedMaps = {} /\ Busy = {} /\ HeldMaps = {}
      /\ \A w \in Workers : request[w] = NoMap
  BY <1>3, NothingLeft DEF IInv, Quiet
<1>5. queue' = <<>>
  BY <1>4 DEF SetToken, Cancel, Join, pool
<1>6. /\ pc' \in [Workers -> {"pop", "asleep", "popped", "execute", "handler", "finish", "ended"}]
      /\ \A w \in Workers : pc'[w] = pc[w] \/ pc'[w] = "pop"
  <2>1. CASE SetToken \/ Join
    BY <2>1 DEF SetToken, Join, worker, IInv, TypeOK
  <2>2. CASE Cancel
    <3>1. pc' = [w \in Workers |-> IF w \in Asleep THEN "pop" ELSE pc[w]]
      BY <2>2 DEF Cancel
    <3>2. pc \in [Workers -> {"pop", "asleep", "popped", "execute", "handler", "finish", "ended"}]
      BY DEF IInv, TypeOK
    <3> QED  BY <3>1, <3>2
  <2> QED  BY <2>1, <2>2
<1>7. TypeOK'
  <2>1. queue' \in Seq(Maps)
    BY <1>5
  <2> QED  BY <1>1, <1>2, <1>6, <2>1 DEF IInv, TypeOK
<1>8. Hands'
  BY <1>1, <1>2, <1>4, <1>6 DEF IInv, Hands, InUpdate
<1>9. Order'
  BY <1>1, <1>2 DEF Order
<1>10. Counted' /\ Quiet'
  BY <1>1, <1>4, <1>5 DEF IInv, Counted, Quiet, Busy
<1>11. Places'
  BY <1>1, <1>3 DEF IInv, Places
<1> QED  BY <1>7, <1>8, <1>9, <1>10, <1>11 DEF IInv

\* A step that changes nothing.
LEMMA StutterIInv ==
    ASSUME IInv, UNCHANGED vars
    PROVE  IInv'
<1> USE DEF vars, schedule, pool, worker
<1>1. TypeOK' /\ Hands' /\ Order'
  BY DEF IInv, TypeOK, Hands, InUpdate, Order
<1>2. Counted' /\ Quiet' /\ Places'
  BY DEF IInv, Counted, Busy, Quiet, InTick, Places, QueuedMaps, HeldMaps
<1> QED  BY <1>1, <1>2 DEF IInv

\* Every step of the pool and of the world thread preserves the invariant.
LEMMA NextIInv == IInv /\ [Next]_vars => IInv'
<1> SUFFICES ASSUME IInv, [Next]_vars PROVE IInv'
  OBVIOUS
<1>1. CASE (\E m \in Maps : QueuePacket(m)) \/ UpdateSessions
  BY <1>1, PacketsIInv
<1>2. CASE (\E m \in Maps : CreateMap(m)) \/ UnloadMaps \/ UnloadAll
  BY <1>2, ChangeIInv
<1>3. CASE BeginTick
  BY <1>3, BeginTickIInv
<1>4. CASE ScheduleUpdate
  BY <1>4, ScheduleUpdateIInv
<1>5. CASE EndSchedule \/ Wait
  BY <1>5, WaitIInv
<1>6. CASE \E w \in Workers : WorkerThread(w)
  <2>1. PICK w \in Workers : WorkerThread(w)
    BY <1>6
  <2>2. CASE WaitAndPop(w)
    BY <2>2, WaitAndPopIInv
  <2>3. CASE Execute(w) \/ BeginHandler(w) \/ EndHandler(w)
    BY <2>3, ExecuteIInv
  <2>4. CASE MapUpdated(w)
    BY <2>4, MapUpdatedIInv
  <2>5. CASE UpdateFinished(w)
    BY <2>5, UpdateFinishedIInv
  <2> QED  BY <2>1, <2>2, <2>3, <2>4, <2>5 DEF WorkerThread
<1>7. CASE SpuriousWakeup
  BY <1>7, SpuriousWakeupIInv
<1>8. CASE SetToken \/ Cancel \/ Join
  BY <1>8, DeactivateIInv
<1>9. CASE UNCHANGED vars
  BY <1>9, StutterIInv
<1> QED  BY <1>1, <1>2, <1>3, <1>4, <1>5, <1>6, <1>7, <1>8, <1>9 DEF Next, UpdateMaps, Deactivate

\* The inductive invariant holds in every reachable state.
THEOREM Invariance == Spec => []IInv
<1> QED  BY InitIInv, NextIInv, PTL DEF Spec

-----------------------------------------------------------------------------
(* What follows from it. *)

\* Every variable keeps its type.
THEOREM TypeCorrect == Spec => []TypeOK
<1>1. IInv => TypeOK
  BY DEF IInv
<1> QED  BY <1>1, Invariance, PTL

\* pending_requests is the number of requests not yet finished, for any pool,
\* and no worker executes a null request.
THEOREM RequestsAreCounted == Spec => []RequestsCounted
<1>1. IInv => RequestsCounted
  BY DEF IInv, Counted, Hands, RequestsCounted
<1> QED  BY <1>1, Invariance, PTL

-----------------------------------------------------------------------------
(* The pool implements WorldTick. *)

\* The variables of WorldTick, as MapUpdate has them.
InUpdates == {wm \in Workers \X Maps : InUpdate(wm[1]) /\ request[wm[1]] = wm[2]}

\* The instance, in the names of this module.
LEMMA TickActions ==
    /\ Tick!vars = <<i_maps, InTick, InUpdates, updated>>
    /\ Tick!vars' = <<i_maps', InTick', InUpdates', updated'>>
    /\ ~InTick /\ ~InTick' /\ i_maps' \in SUBSET Maps /\ InUpdates' = InUpdates
        /\ updated' = updated => Tick!Change
    /\ ~InTick /\ InTick' /\ updated' = {} /\ i_maps' = i_maps /\ InUpdates' = InUpdates
        => Tick!Begin
    /\ InTick /\ ~InTick' /\ InUpdates = {} /\ InUpdates' = {} /\ updated = i_maps
        /\ i_maps' = i_maps /\ updated' = updated => Tick!End
  BY DEF Tick!vars, Tick!Change, Tick!Begin, Tick!End, InTick, InUpdates

\* A step that starts and ends no update leaves WorldTick's updates alone.
LEMMA SameUpdates ==
    ASSUME \A w \in Workers : /\ InUpdate(w)' = InUpdate(w)
                              /\ InUpdate(w) => request'[w] = request[w]
    PROVE  InUpdates' = InUpdates
  BY DEF InUpdates

\* A worker starts with a map that nobody updates and that is not yet done.
LEMMA ExecuteTick ==
    ASSUME IInv, NEW w \in Workers, Execute(w)
    PROVE  [Tick!Next]_(Tick!vars)
<1> USE DEF Execute, schedule, pool
<1>1. CASE cancelationToken
  <2>1. InUpdates' = InUpdates
    BY <1>1, SameUpdates DEF IInv, TypeOK, InUpdate
  <2> QED  BY <2>1, TickActions DEF InTick
<1>2. CASE ~cancelationToken
  <2>1. PICK m \in Maps : m = request[w] /\ m # NoMap /\ w \in Busy /\ ~InUpdate(w)
    BY <1>2 DEF IInv, TypeOK, Hands, Busy, InUpdate
  <2>2. InTick
    BY <2>1, NothingLeft DEF IInv, Quiet
  <2>3. m \in i_maps \ updated
    BY <2>1, <2>2 DEF IInv, Places, HeldMaps
  <2>4. \A u \in Workers : ~(InUpdate(u) /\ request[u] = m)
    <3> SUFFICES ASSUME NEW u \in Workers, InUpdate(u), request[u] = m PROVE FALSE
      OBVIOUS
    <3>1. u # w /\ u \in Busy
      BY <2>1 DEF IInv, Hands, Busy
    <3> QED  BY <2>1, <2>2, <3>1 DEF IInv, Places
  <2>5. \A u \in Workers : <<u, m>> \notin InUpdates
    BY <2>4 DEF InUpdates
  <2>6. \A u \in Workers : InUpdate(u)' <=> InUpdate(u) \/ u = w
    BY <1>2 DEF IInv, TypeOK, InUpdate
  <2>7. InUpdates' = InUpdates \cup {<<w, m>>}
    BY <2>1, <2>6 DEF InUpdates
  <2>8. Tick!Start(w, m)
    BY <2>2, <2>3, <2>5, <2>7 DEF Tick!Start, InTick, InUpdates
  <2> QED  BY <2>8 DEF Tick!Next
<1> QED  BY <1>1, <1>2

\* A worker whose Map::Update returns ends that update and marks the map done.
LEMMA MapUpdatedTick ==
    ASSUME IInv, NEW w \in Workers, MapUpdated(w)
    PROVE  [Tick!Next]_(Tick!vars)
<1> USE DEF MapUpdated, schedule, pool
<1>1. PICK m \in Maps : m = request[w] /\ InUpdate(w)
  BY DEF IInv, TypeOK, Hands, InUpdate
<1>2. <<w, m>> \in InUpdates
  BY <1>1 DEF InUpdates
<1>3. \A u \in Workers : InUpdate(u)' <=> InUpdate(u) /\ u # w
  BY DEF IInv, TypeOK, InUpdate
<1>4. InUpdates' = InUpdates \ {<<w, m>>}
  BY <1>1, <1>3 DEF InUpdates
<1>5. Tick!Finish(w, m)
  BY <1>2, <1>4 DEF Tick!Finish, InUpdates
<1> QED  BY <1>5 DEF Tick!Next

\* The other steps of a worker and of the condition variables are stutters.
LEMMA WorkerTick ==
    ASSUME IInv, NEW w \in Workers,
           WaitAndPop(w) \/ BeginHandler(w) \/ EndHandler(w) \/ UpdateFinished(w)
    PROVE  UNCHANGED Tick!vars
<1> USE DEF schedule, pool
<1>1. UNCHANGED <<i_maps, updated>> /\ InTick' = InTick
  BY DEF WaitAndPop, BeginHandler, EndHandler, UpdateFinished, InTick
<1>2. InUpdates' = InUpdates
  <2>1. CASE WaitAndPop(w)
    BY <2>1, SameUpdates DEF WaitAndPop, IInv, TypeOK, InUpdate
  <2>2. CASE BeginHandler(w) \/ EndHandler(w)
    BY <2>2, SameUpdates DEF BeginHandler, EndHandler, IInv, TypeOK, InUpdate
  <2>3. CASE UpdateFinished(w)
    BY <2>3, SameUpdates DEF UpdateFinished, IInv, TypeOK, InUpdate
  <2> QED  BY <2>1, <2>2, <2>3
<1> QED  BY <1>1, <1>2, TickActions

\* wait() returns only when the count is zero: every map is then updated.
LEMMA WaitTick ==
    ASSUME IInv, Wait
    PROVE  [Tick!Next]_(Tick!vars)
<1> USE DEF Wait, schedule, pool, worker
<1>1. InUpdates' = InUpdates
  BY SameUpdates DEF InUpdate
<1>2. CASE pending_requests > 0
  BY <1>1, <1>2, TickActions DEF InTick
<1>3. CASE ~(pending_requests > 0)
  <2>1. pending_requests = 0 /\ InTick /\ ~InTick'
    BY <1>3 DEF IInv, TypeOK, InTick
  <2>2. InUpdates = {}
    BY <2>1, NothingLeft DEF IInv, Hands, InUpdates
  <2>3. updated = i_maps
    BY <2>1, NothingLeft DEF IInv, Places
  <2>4. Tick!End
    BY <1>1, <2>1, <2>2, <2>3, TickActions
  <2> QED  BY <2>4 DEF Tick!Next
<1> QED  BY <1>2, <1>3

\* What the world thread and the network threads do.
LEMMA WorldThreadTick ==
    ASSUME IInv, IInv',
           \/ \E m \in Maps : QueuePacket(m) \/ CreateMap(m)
           \/ UpdateSessions \/ BeginTick \/ EndSchedule \/ UnloadMaps
           \/ UnloadAll \/ SetToken \/ Join
    PROVE  [Tick!Next]_(Tick!vars)
<1> USE DEF schedule, pool, worker
<1>1. UNCHANGED <<pc, request>>
  BY DEF QueuePacket, CreateMap, UpdateSessions, BeginTick, EndSchedule, UnloadMaps, UnloadAll,
         SetToken, Join
<1>2. InUpdates' = InUpdates
  BY <1>1, SameUpdates DEF InUpdate
<1>3. CASE (\E m \in Maps : CreateMap(m)) \/ UnloadMaps \/ UnloadAll
  <2>1. Tick!Change
    BY <1>2, <1>3, TickActions DEF CreateMap, UnloadMaps, UnloadAll, InTick, IInv, TypeOK
  <2> QED  BY <2>1 DEF Tick!Next
<1>4. CASE BeginTick
  <2>1. Tick!Begin
    BY <1>2, <1>4, TickActions DEF BeginTick, InTick
  <2> QED  BY <2>1 DEF Tick!Next
<1>5. CASE (\E m \in Maps : QueuePacket(m)) \/ UpdateSessions \/ EndSchedule \/ SetToken \/ Join
  <2>1. UNCHANGED <<i_maps, updated>> /\ InTick' = InTick
    BY <1>5 DEF QueuePacket, UpdateSessions, EndSchedule, SetToken, Join, InTick
  <2> QED  BY <1>2, <2>1, TickActions
<1> QED  BY <1>3, <1>4, <1>5

\* Steps that wake workers up: none of these is in an update.
LEMMA WakingTick ==
    ASSUME IInv, ScheduleUpdate \/ Cancel \/ SpuriousWakeup
    PROVE  UNCHANGED Tick!vars
<1> USE DEF schedule, pool, worker
<1>1. UNCHANGED <<i_maps, updated, request>> /\ InTick' = InTick
  BY DEF ScheduleUpdate, Cancel, SpuriousWakeup, InTick
<1>2. \A w \in Workers : pc'[w] = pc[w] \/ (pc[w] = "asleep" /\ pc'[w] = "pop")
  <2>1. CASE ScheduleUpdate
    BY <2>1, Notified DEF ScheduleUpdate, IInv
  <2>2. CASE Cancel
    BY <2>2 DEF Cancel, Asleep, IInv, TypeOK
  <2>3. CASE SpuriousWakeup
    BY <2>3 DEF SpuriousWakeup, Asleep, IInv, TypeOK
  <2> QED  BY <2>1, <2>2, <2>3
<1>3. InUpdates' = InUpdates
  BY <1>1, <1>2, SameUpdates DEF InUpdate
<1> QED  BY <1>1, <1>3, TickActions

\* Every step is one of WorldTick or a stutter.
LEMMA NextTick == IInv /\ [Next]_vars => [Tick!Next]_(Tick!vars)
<1> SUFFICES ASSUME IInv, [Next]_vars PROVE [Tick!Next]_(Tick!vars)
  OBVIOUS
<1>1. IInv'
  BY NextIInv
<1>2. CASE \E w \in Workers : WorkerThread(w)
  <2>1. PICK w \in Workers : WorkerThread(w)
    BY <1>2
  <2> QED  BY <2>1, ExecuteTick, MapUpdatedTick, WorkerTick DEF WorkerThread
<1>3. CASE Wait
  BY <1>3, WaitTick
<1>4. CASE ScheduleUpdate \/ Cancel \/ SpuriousWakeup
  BY <1>4, WakingTick
<1>5. CASE \/ \E m \in Maps : QueuePacket(m) \/ CreateMap(m)
           \/ UpdateSessions \/ BeginTick \/ EndSchedule \/ UnloadMaps
           \/ UnloadAll \/ SetToken \/ Join
  BY <1>1, <1>5, WorldThreadTick
<1>6. CASE UNCHANGED vars
  <2>1. InUpdates' = InUpdates
    BY <1>6, SameUpdates DEF vars, worker, InUpdate
  <2> QED  BY <1>6, <2>1, TickActions DEF vars, schedule, InTick
<1> QED  BY <1>2, <1>3, <1>4, <1>5, <1>6 DEF Next, UpdateMaps, Deactivate

\* The pool implements the tick: whatever the number of threads and maps, each
\* map is updated once in a tick, by one thread, and the tick ends only when all
\* are done.
THEOREM ImplementsTick == Spec => TickSpec
<1>1. Init => Tick!Init
  BY DEF Init, Tick!Init, InUpdate
<1> QED  BY <1>1, NextTick, Invariance, PTL DEF Spec, TickSpec, Tick!Spec
-----------------------------------------------------------------------------
(* What TickEnds and ShutdownEnds rest on besides fairness: no wakeup is   *)
(* lost, whoever waits waits for a thread that can step, and each such     *)
(* step brings the end nearer.                                             *)

Looking == {w \in Workers : pc[w] = "pop"}

\* A worker sleeps only while every request in the queue has another worker
\* that will look for it, and none after the shutdown; the world thread sleeps
\* only while a request is left whose end will wake it.
NoLostWakeup ==
    /\ Asleep # {} => Len(queue) <= Cardinality(Looking) /\ ~m_shutdown
    /\ world = "blocked" => pending_requests > 0

\* The queue is cancelled last.
Cancelled == m_shutdown <=> world \in {"join", "stopped"}

Wakeups == NoLostWakeup /\ Cancelled

\* No worker ends before the token is set.
EndedByToken == \A w \in Workers : pc[w] = "ended" => cancelationToken

\* A worker that does not sleep, and will not at its next step.
Runs(w) ==
    \/ pc[w] \in {"popped", "execute", "handler", "finish"}
    \/ pc[w] = "pop" /\ (queue # <<>> \/ m_shutdown)

\* While the world thread sleeps in wait() some worker runs, and while it joins
\* the workers each of them has ended or runs.
NeverStuck ==
    /\ world = "blocked" => \E w \in Workers : Runs(w)
    /\ world = "join" => \A w \in Workers : Runs(w) \/ pc[w] = "ended"

\* The workers that look can be counted.
LEMMA LookingFinite == IsFiniteSet(Looking) /\ Cardinality(Looking) \in Nat
<1>1. Looking \in SUBSET Workers
  BY DEF Looking
<1> QED  BY <1>1, FS_Subset, FS_CardinalityType, PoolAssumption

\* One worker more looks.
LEMMA OneMoreLooks ==
    ASSUME NEW w, w \notin Looking, Looking' = Looking \cup {w}
    PROVE  Cardinality(Looking') = Cardinality(Looking) + 1 /\ Cardinality(Looking) \in Nat
  BY LookingFinite, FS_AddElement

\* One worker less does.
LEMMA OneLessLooks ==
    ASSUME NEW w \in Looking, Looking' = Looking \ {w}
    PROVE  Cardinality(Looking') = Cardinality(Looking) - 1 /\ Cardinality(Looking) \in Nat
  BY LookingFinite, FS_RemoveElement

\* Push wakes a worker for the request, unless none sleeps.
LEMMA ScheduleUpdateWakeups ==
    ASSUME IInv, Wakeups, ScheduleUpdate
    PROVE  Wakeups'
<1>1. /\ world = "schedule" /\ UNCHANGED <<world, m_shutdown>> /\ NotifyOne
      /\ Len(queue') = Len(queue) + 1 /\ Len(queue) \in Nat
  <2>1. PICK m \in toSchedule : queue' = Append(queue, m)
    BY DEF ScheduleUpdate
  <2> QED  BY <2>1 DEF ScheduleUpdate, IInv, TypeOK
<1>2. CASE Asleep = {}
  <2>1. Asleep' = {}
    BY <1>1, <1>2 DEF NotifyOne, Asleep
  <2> QED  BY <1>1, <2>1 DEF Wakeups, NoLostWakeup, Cancelled
<1>3. CASE Asleep # {}
  <2>1. PICK w \in Asleep : pc' = [pc EXCEPT ![w] = "pop"]
    BY <1>1, <1>3 DEF NotifyOne
  <2>2. w \notin Looking /\ Looking' = Looking \cup {w}
    BY <2>1 DEF Asleep, Looking, IInv, TypeOK
  <2>3. Cardinality(Looking') = Cardinality(Looking) + 1 /\ Cardinality(Looking) \in Nat
    BY <2>2, OneMoreLooks
  <2>4. Len(queue) <= Cardinality(Looking) /\ ~m_shutdown
    BY <1>3 DEF Wakeups, NoLostWakeup
  <2> QED  BY <1>1, <2>3, <2>4 DEF Wakeups, NoLostWakeup, Cancelled
<1> QED  BY <1>2, <1>3

\* A worker goes to sleep only at an empty queue, and one that takes a request
\* no longer looks for another.
LEMMA WaitAndPopWakeups ==
    ASSUME IInv, Wakeups, NEW w \in Workers, WaitAndPop(w)
    PROVE  Wakeups'
<1>1. /\ UNCHANGED <<world, pending_requests, m_shutdown>> /\ pc[w] = "pop" /\ w \in Looking
  BY DEF WaitAndPop, schedule, Looking
<1>2. CASE queue = <<>> \/ m_shutdown
  <2>1. queue' = queue /\ pc' = [pc EXCEPT ![w] = IF m_shutdown THEN "popped" ELSE "asleep"]
    BY <1>2 DEF WaitAndPop
  <2>2. m_shutdown => Asleep' = {}
    BY <2>1 DEF Wakeups, NoLostWakeup, Asleep, IInv, TypeOK
  <2>3. Cardinality(Looking') \in Nat
    <3>1. Looking' \in SUBSET Workers
      BY DEF Looking
    <3> QED  BY <3>1, FS_Subset, FS_CardinalityType, PoolAssumption
  <2>4. ~m_shutdown => Len(queue') = 0
    BY <1>2, <2>1
  <2> QED  BY <1>1, <2>2, <2>3, <2>4 DEF Wakeups, NoLostWakeup, Cancelled
<1>3. CASE queue # <<>> /\ ~m_shutdown
  <2>1. /\ pc' = [pc EXCEPT ![w] = "popped"]
        /\ Len(queue') = Len(queue) - 1 /\ Len(queue) \in Nat
    BY <1>3, Popped DEF WaitAndPop, IInv, TypeOK
  <2>2. Looking' = Looking \ {w} /\ Asleep' = Asleep
    BY <1>1, <2>1 DEF Looking, Asleep, IInv, TypeOK
  <2>3. Cardinality(Looking') = Cardinality(Looking) - 1 /\ Cardinality(Looking) \in Nat
    BY <1>1, <2>2, OneLessLooks
  <2> QED  BY <1>1, <1>3, <2>1, <2>2, <2>3 DEF Wakeups, NoLostWakeup, Cancelled
<1> QED  BY <1>2, <1>3

\* A worker that is done looks at the queue again, and wakes the world thread.
LEMMA UpdateFinishedWakeups ==
    ASSUME IInv, Wakeups, NEW w \in Workers, UpdateFinished(w)
    PROVE  Wakeups'
<1>1. /\ UNCHANGED <<queue, m_shutdown>> /\ Len(queue) \in Nat
      /\ world' = IF world = "blocked" THEN "wait" ELSE world
      /\ pc[w] = "finish" /\ pc' = [pc EXCEPT ![w] = "pop"]
  BY DEF UpdateFinished, IInv, TypeOK
<1>2. w \notin Looking /\ Looking' = Looking \cup {w} /\ Asleep' = Asleep
  BY <1>1 DEF Looking, Asleep, IInv, TypeOK
<1>3. Cardinality(Looking') = Cardinality(Looking) + 1 /\ Cardinality(Looking) \in Nat
  BY <1>2, OneMoreLooks
<1> QED  BY <1>1, <1>2, <1>3 DEF Wakeups, NoLostWakeup, Cancelled

\* A wakeup for no reason.
LEMMA SpuriousWakeupWakeups ==
    ASSUME IInv, Wakeups, SpuriousWakeup
    PROVE  Wakeups'
<1>1. /\ UNCHANGED <<queue, m_shutdown, pending_requests>> /\ Len(queue) \in Nat
      /\ world' = world \/ (world = "blocked" /\ world' = "wait")
  BY DEF SpuriousWakeup, pool, IInv, TypeOK
<1>2. CASE UNCHANGED pc
  BY <1>1, <1>2 DEF Wakeups, NoLostWakeup, Cancelled, Asleep, Looking
<1>3. CASE \E w \in Asleep : pc' = [pc EXCEPT ![w] = "pop"]
  <2>1. PICK w \in Asleep : pc' = [pc EXCEPT ![w] = "pop"]
    BY <1>3
  <2>2. w \notin Looking /\ Looking' = Looking \cup {w}
    BY <2>1 DEF Asleep, Looking, IInv, TypeOK
  <2>3. Cardinality(Looking') = Cardinality(Looking) + 1 /\ Cardinality(Looking) \in Nat
    BY <2>2, OneMoreLooks
  <2> QED  BY <1>1, <2>1, <2>3 DEF Wakeups, NoLostWakeup, Cancelled
<1> QED  BY <1>2, <1>3 DEF SpuriousWakeup

\* Cancel wakes them all.
LEMMA CancelWakeups ==
    ASSUME IInv, Wakeups, Cancel
    PROVE  Wakeups'
<1>1. pc' = [w \in Workers |-> IF w \in Asleep THEN "pop" ELSE pc[w]]
  BY DEF Cancel
<1>2. Asleep' = {}
  BY <1>1 DEF Asleep
<1> QED  BY <1>2 DEF Cancel, Wakeups, NoLostWakeup, Cancelled

\* Every step keeps all wakeups.
LEMMA NextWakeups == IInv /\ Wakeups /\ [Next]_vars => Wakeups'
<1> SUFFICES ASSUME IInv, Wakeups, [Next]_vars PROVE Wakeups'
  OBVIOUS
<1> USE DEF Wakeups, NoLostWakeup, Cancelled
<1>1. CASE \/ \E m \in Maps : QueuePacket(m) \/ CreateMap(m)
           \/ UpdateSessions \/ BeginTick \/ EndSchedule \/ Wait \/ UnloadMaps
           \/ UnloadAll \/ SetToken \/ Join
  <2>1. UNCHANGED <<pc, queue, m_shutdown, pending_requests>>
    BY <1>1 DEF QueuePacket, CreateMap, UpdateSessions, BeginTick, EndSchedule, Wait,
                UnloadMaps, UnloadAll, SetToken, Join, pool, worker
  <2>2. /\ world' = "blocked" => world = "blocked" \/ pending_requests > 0
        /\ world' \in {"join", "stopped"} <=> world \in {"join", "stopped"}
    BY <1>1 DEF QueuePacket, CreateMap, UpdateSessions, BeginTick, EndSchedule, Wait,
                UnloadMaps, UnloadAll, SetToken, Join, schedule
  <2> QED  BY <2>1, <2>2 DEF Asleep, Looking
<1>2. CASE ScheduleUpdate
  BY <1>2, ScheduleUpdateWakeups
<1>3. CASE \E w \in Workers : WorkerThread(w)
  <2>1. PICK w \in Workers : WorkerThread(w)
    BY <1>3
  <2>2. CASE WaitAndPop(w)
    BY <2>2, WaitAndPopWakeups
  <2>3. CASE Execute(w) \/ BeginHandler(w) \/ EndHandler(w) \/ MapUpdated(w)
    <3>1. /\ UNCHANGED <<world, queue, m_shutdown, pending_requests>>
          /\ \E next \in {"execute", "handler", "finish", "ended"} : pc' = [pc EXCEPT ![w] = next]
          /\ pc[w] \in {"popped", "execute", "handler"}
      BY <2>3 DEF Execute, BeginHandler, EndHandler, MapUpdated, schedule, pool
    <3>2. Looking' = Looking /\ Asleep' = Asleep
      BY <3>1 DEF Looking, Asleep, IInv, TypeOK
    <3> QED  BY <3>1, <3>2
  <2>4. CASE UpdateFinished(w)
    BY <2>4, UpdateFinishedWakeups
  <2> QED  BY <2>1, <2>2, <2>3, <2>4 DEF WorkerThread
<1>4. CASE SpuriousWakeup
  BY <1>4, SpuriousWakeupWakeups
<1>5. CASE Cancel
  BY <1>5, CancelWakeups
<1>6. CASE UNCHANGED vars
  BY <1>6 DEF vars, schedule, pool, worker, Asleep, Looking
<1> QED  BY <1>1, <1>2, <1>3, <1>4, <1>5, <1>6 DEF Next, UpdateMaps, Deactivate

\* A worker ends when it sees the token, which is never taken back.
LEMMA NextEndedByToken == IInv /\ EndedByToken /\ [Next]_vars => EndedByToken'
<1> SUFFICES ASSUME IInv, EndedByToken, [Next]_vars PROVE EndedByToken'
  OBVIOUS
<1>1. cancelationToken => cancelationToken'
  BY DEF Next, UpdateMaps, Deactivate, WorkerThread, vars, schedule, pool, worker,
         QueuePacket, CreateMap, UpdateSessions, BeginTick, ScheduleUpdate, EndSchedule, Wait,
         UnloadMaps, UnloadAll, SetToken, Cancel, Join, SpuriousWakeup,
         WaitAndPop, Execute, BeginHandler, EndHandler, MapUpdated, UpdateFinished
<1>2. \A v \in Workers : pc'[v] = "ended" => pc[v] = "ended" \/ cancelationToken
  <2>1. CASE \/ \E m \in Maps : QueuePacket(m) \/ CreateMap(m)
             \/ UpdateSessions \/ BeginTick \/ EndSchedule \/ Wait \/ UnloadMaps
             \/ UnloadAll \/ SetToken \/ Join \/ UNCHANGED vars
    BY <2>1 DEF QueuePacket, CreateMap, UpdateSessions, BeginTick, EndSchedule, Wait,
                UnloadMaps, UnloadAll, SetToken, Join, vars, worker
  <2>2. CASE ScheduleUpdate
    BY <2>2, Notified DEF ScheduleUpdate, IInv
  <2>3. CASE \E w \in Workers : WorkerThread(w)
    BY <2>3 DEF WorkerThread, WaitAndPop, Execute, BeginHandler, EndHandler, MapUpdated,
                UpdateFinished, IInv, TypeOK
  <2>4. CASE SpuriousWakeup
    BY <2>4 DEF SpuriousWakeup, Asleep, IInv, TypeOK
  <2>5. CASE Cancel
    BY <2>5 DEF Cancel, Asleep, IInv, TypeOK
  <2> QED  BY <2>1, <2>2, <2>3, <2>4, <2>5 DEF Next, UpdateMaps, Deactivate
<1> QED  BY <1>1, <1>2 DEF EndedByToken

\* All wakeups arrive, for any number of threads: while a request is queued that
\* no worker has been woken for, none sleeps; none sleeps after the shutdown; and
\* the world thread sleeps in wait() only while a request is left to end.
THEOREM WakeupsArrive == Spec => []NoLostWakeup
<1>1. Init => Wakeups
  BY DEF Init, Wakeups, NoLostWakeup, Cancelled, Asleep
<1>2. Wakeups => NoLostWakeup
  BY DEF Wakeups
<1> QED  BY <1>1, <1>2, NextWakeups, Invariance, PTL DEF Spec

\* By its counts: a request that is pending is queued or in hand, and a queued
\* one has a worker that is awake.
LEMMA StuckNever ==
    ASSUME IInv, Wakeups, EndedByToken
    PROVE  NeverStuck
<1>1. ASSUME world = "blocked" PROVE \E w \in Workers : Runs(w)
  <2>1. pending_requests > 0
    BY <1>1 DEF Wakeups, NoLostWakeup
  <2>2. CASE Busy # {}
    <3>1. PICK w \in Workers : request[w] # NoMap
      BY <2>2 DEF Busy
    <3> QED  BY <3>1 DEF Runs, IInv, TypeOK, Hands
  <2>3. CASE Busy = {}
    <3>1. Len(queue) > 0
      BY <2>1, <2>3, FS_EmptySet DEF IInv, TypeOK, Counted
    <3>2. Asleep # Workers
      <4> SUFFICES ASSUME Asleep = Workers PROVE FALSE
        OBVIOUS
      <4>1. Looking = {}
        BY DEF Asleep, Looking
      <4>2. Len(queue) <= 0
        BY <4>1, FS_EmptySet, PoolAssumption DEF Wakeups, NoLostWakeup
      <4> QED  BY <3>1, <4>2 DEF IInv, TypeOK
    <3>3. PICK w \in Workers : pc[w] # "asleep"
      BY <3>2 DEF Asleep
    <3>4. ~cancelationToken
      BY <1>1 DEF IInv, Order
    <3> QED  BY <3>1, <3>3, <3>4 DEF Runs, IInv, TypeOK, EndedByToken
  <2> QED  BY <2>2, <2>3
<1>2. ASSUME world = "join", NEW w \in Workers PROVE Runs(w) \/ pc[w] = "ended"
  <2>1. m_shutdown /\ pc[w] # "asleep"
    BY <1>2 DEF Wakeups, NoLostWakeup, Cancelled, Asleep
  <2> QED  BY <2>1 DEF Runs, IInv, TypeOK
<1> QED  BY <1>1, <1>2 DEF NeverStuck

\* No tick and no shutdown hangs, for any number of threads: whoever waits waits
\* for a thread that can go on.
THEOREM PoolNeverStuck == Spec => []NeverStuck
<1>1. Init => Wakeups /\ EndedByToken
  BY DEF Init, Wakeups, NoLostWakeup, Cancelled, Asleep, EndedByToken
<1>2. IInv /\ Wakeups /\ EndedByToken => NeverStuck
  BY StuckNever
<1> QED  BY <1>1, <1>2, NextWakeups, NextEndedByToken, Invariance, PTL DEF Spec

-----------------------------------------------------------------------------
(* How far the maps of a tick, and the workers of a shutdown, have come. *)

\* What a worker still has to do to its map.
Stage(w) ==
    IF pc[w] = "popped" THEN 5
    ELSE IF pc[w] = "handler" THEN 3
    ELSE IF pc[w] = "finish" THEN 1
    ELSE IF request[w] \in unsafePackets THEN 4 ELSE 2

\* What is left to be done to a map in this tick.
Phase(m) ==
    IF m \in toSchedule THEN 7
    ELSE IF m \in QueuedMaps THEN 6
    ELSE IF m \in HeldMaps THEN Stage(CHOOSE w \in Workers : request[w] = m)
    ELSE 0

\* A worker whose step takes a map of the tick nearer to its end.
Advances == \E m \in i_maps : Phase(m)' < Phase(m)

\* Within a tick no step, and no packet that arrives, sets a map back; what the
\* world thread schedules and every step of a worker that runs take one ahead.
TickAdvances ==
    InTick /\ InTick' =>
        /\ i_maps' = i_maps
        /\ \A m \in i_maps : Phase(m)' <= Phase(m)
        /\ ScheduleUpdate => Advances
        /\ \A w \in Workers : Runs(w) /\ WorkerThread(w) => Advances

\* The steps a worker has left when it is joined.
StepsLeft(w) == IF pc[w] = "pop" THEN 2 ELSE IF pc[w] = "popped" THEN 1 ELSE 0

\* While the workers are joined each of their steps takes one to its end, and
\* nothing sends one back.
JoinAdvances ==
    world = "join" =>
        \A w \in Workers : /\ StepsLeft(w)' <= StepsLeft(w)
                           /\ WorkerThread(w) => StepsLeft(w)' < StepsLeft(w)

\* A map is where Places has it, and its worker is the only one.
PhaseFacts ==
    InTick =>
        \A m \in i_maps :
            /\ Phase(m) \in 0..7
            /\ m \in toSchedule => Phase(m) = 7
            /\ m \in QueuedMaps => Phase(m) = 6
            /\ \A w \in Workers : request[w] = m => Phase(m) = Stage(w)
            /\ m \notin toSchedule \cup QueuedMaps \cup HeldMaps => Phase(m) = 0

LEMMA PhaseKnown == IInv => PhaseFacts
<1> SUFFICES ASSUME IInv, InTick, NEW m \in i_maps
             PROVE  /\ Phase(m) \in 0..7
                    /\ m \in toSchedule => Phase(m) = 7
                    /\ m \in QueuedMaps => Phase(m) = 6
                    /\ \A w \in Workers : request[w] = m => Phase(m) = Stage(w)
                    /\ m \notin toSchedule \cup QueuedMaps \cup HeldMaps => Phase(m) = 0
  BY DEF PhaseFacts
<1>1. /\ toSchedule \cap (QueuedMaps \cup HeldMaps) = {}
      /\ QueuedMaps \cap HeldMaps = {}
      /\ \A v, w \in Busy : v # w => request[v] # request[w]
  BY DEF IInv, Places
<1>2. m # NoMap
  BY PoolAssumption DEF IInv, TypeOK
<1>3. ASSUME NEW w \in Workers, request[w] = m PROVE Phase(m) = Stage(w)
  <2>1. w \in Busy /\ m \in HeldMaps
    BY <1>2, <1>3 DEF Busy, HeldMaps
  <2>2. \A v \in Workers : request[v] = m => v = w
    BY <1>1, <1>2, <1>3 DEF Busy
  <2>3. (CHOOSE v \in Workers : request[v] = m) = w
    BY <1>3, <2>2
  <2> QED  BY <1>1, <2>1, <2>3 DEF Phase
<1>4. m \in HeldMaps => \E w \in Workers : request[w] = m
  BY DEF HeldMaps, Busy
<1>5. Phase(m) \in 0..7
  <2>1. \A w \in Workers : Stage(w) \in 0..7
    BY DEF Stage
  <2>2. CASE m \in HeldMaps
    BY <1>3, <1>4, <2>1, <2>2
  <2>3. CASE m \notin HeldMaps
    BY <2>3 DEF Phase
  <2> QED  BY <2>2, <2>3
<1> QED  BY <1>1, <1>3, <1>5 DEF Phase

\* The same of the state a step leads to.
LEMMA PhaseKnownNext == IInv' => PhaseFacts'
  BY PhaseKnown, PTL

\* A packet that is being handled has left the queue, and none is added while
\* the map is updated.
PacketTaken == \A w \in Workers : pc[w] = "handler" => request[w] \notin unsafePackets

LEMMA NextPacketTaken == IInv /\ PacketTaken /\ [Next]_vars => PacketTaken'
<1> SUFFICES ASSUME IInv, PacketTaken, [Next]_vars PROVE PacketTaken'
  OBVIOUS
<1>1. CASE \/ \E m \in Maps : QueuePacket(m) \/ CreateMap(m)
           \/ UpdateSessions \/ BeginTick \/ EndSchedule \/ Wait \/ UnloadMaps
           \/ UnloadAll \/ SetToken \/ Join \/ UNCHANGED vars
  BY <1>1 DEF QueuePacket, CreateMap, UpdateSessions, BeginTick, EndSchedule, Wait, UnloadMaps,
              UnloadAll, SetToken, Join, vars, worker, PacketTaken, InUpdate
<1>2. CASE ScheduleUpdate \/ SpuriousWakeup \/ Cancel
  <2>1. UNCHANGED <<request, unsafePackets>>
    BY <1>2 DEF ScheduleUpdate, SpuriousWakeup, Cancel
  <2>2. \A w \in Workers : pc'[w] = "handler" => pc[w] = "handler"
    BY <1>2, Notified DEF ScheduleUpdate, SpuriousWakeup, Cancel, Asleep, IInv, TypeOK
  <2> QED  BY <2>1, <2>2 DEF PacketTaken
<1>3. CASE \E w \in Workers : WorkerThread(w)
  <2>1. PICK w \in Workers : WorkerThread(w)
    BY <1>3
  <2>2. /\ unsafePackets' \subseteq unsafePackets
        /\ \A v \in Workers : pc'[v] = "handler" =>
             /\ request'[v] = request[v]
             /\ pc[v] = "handler" \/ request[v] \notin unsafePackets'
    BY <2>1 DEF WorkerThread, WaitAndPop, Execute, BeginHandler, EndHandler, MapUpdated,
                UpdateFinished, IInv, TypeOK
  <2> QED  BY <2>2 DEF PacketTaken
<1> QED  BY <1>1, <1>2, <1>3 DEF Next, UpdateMaps, Deactivate

\* A map whose place and worker do not change is as far as it was.
LEMMA SamePhase ==
    ASSUME IInv, IInv', InTick, InTick', NEW m \in i_maps, i_maps' = i_maps,
           m \in toSchedule' <=> m \in toSchedule,
           m \in QueuedMaps' <=> m \in QueuedMaps,
           \A w \in Workers : request'[w] = m <=> request[w] = m,
           \A w \in Workers : request[w] = m => Stage(w)' = Stage(w)
    PROVE  Phase(m)' = Phase(m)
<1>1. PhaseFacts /\ PhaseFacts'
  BY PhaseKnown, PhaseKnownNext
<1>2. m \in HeldMaps <=> \E w \in Workers : request[w] = m
  BY PoolAssumption DEF HeldMaps, Busy, IInv, TypeOK
<1>3. m \in HeldMaps' <=> \E w \in Workers : request'[w] = m
  BY PoolAssumption DEF HeldMaps, Busy, IInv, TypeOK
<1>4. CASE \E w \in Workers : request[w] = m
  <2>1. PICK w \in Workers : request[w] = m
    BY <1>4
  <2> QED  BY <1>1, <2>1 DEF PhaseFacts
<1>5. CASE ~\E w \in Workers : request[w] = m
  BY <1>1, <1>2, <1>3, <1>5 DEF PhaseFacts
<1> QED  BY <1>4, <1>5

\* The world thread takes a map from its loop to the queue.
LEMMA ScheduleAdvances ==
    ASSUME IInv, IInv', InTick, InTick', ScheduleUpdate
    PROVE  /\ i_maps' = i_maps
           /\ \A m \in i_maps : Phase(m)' <= Phase(m)
           /\ Advances
<1>1. PICK m \in toSchedule : toSchedule' = toSchedule \ {m} /\ queue' = Append(queue, m)
  BY DEF ScheduleUpdate
<1>2. /\ UNCHANGED <<i_maps, request, unsafePackets>> /\ m \in i_maps
      /\ \A w \in Workers : pc'[w] = pc[w] \/ pc[w] = "asleep"
  BY <1>1, Notified DEF ScheduleUpdate, IInv, Places
<1>3. QueuedMaps' = QueuedMaps \cup {m}
  <2>1. m \in Maps /\ queue \in Seq(Maps)
    BY <1>1 DEF IInv, TypeOK
  <2>2. /\ Len(queue') = Len(queue) + 1 /\ queue'[Len(queue) + 1] = m /\ Len(queue) \in Nat
        /\ \A i \in 1..Len(queue) : queue'[i] = queue[i]
    BY <1>1, <2>1, Pushed
  <2> QED  BY <2>2 DEF QueuedMaps
<1>4. PhaseFacts /\ PhaseFacts'
  BY PhaseKnown, PhaseKnownNext
<1>5. Phase(m) = 7 /\ Phase(m)' = 6
  BY <1>1, <1>2, <1>3, <1>4 DEF PhaseFacts
<1>6. ASSUME NEW n \in i_maps, n # m PROVE Phase(n)' = Phase(n)
  <2>1. \A w \in Workers : request[w] = n => Stage(w)' = Stage(w)
    BY <1>2, PoolAssumption DEF Stage, IInv, Hands, TypeOK
  <2> QED  BY <1>1, <1>2, <1>3, <1>6, <2>1, SamePhase
<1> QED  BY <1>2, <1>4, <1>5, <1>6 DEF Advances, PhaseFacts

\* A worker with a map takes it ahead and leaves the others alone.
LEMMA WorkerAdvances ==
    ASSUME IInv, IInv', PacketTaken, InTick, InTick', NEW w \in Workers,
           Execute(w) \/ BeginHandler(w) \/ EndHandler(w) \/ MapUpdated(w) \/ UpdateFinished(w)
    PROVE  /\ i_maps' = i_maps
           /\ \A m \in i_maps : Phase(m)' <= Phase(m)
           /\ Advances
<1>m. PICK m : m = request[w]
  OBVIOUS
<1>1. /\ UNCHANGED <<i_maps, toSchedule, queue>>
      /\ \A v \in Workers : v # w => pc'[v] = pc[v] /\ request'[v] = request[v]
      /\ \A n \in Maps : n # m => (n \in unsafePackets' <=> n \in unsafePackets)
      /\ QueuedMaps' = QueuedMaps
  BY <1>m DEF Execute, BeginHandler, EndHandler, MapUpdated, UpdateFinished, schedule, pool,
              IInv, TypeOK, QueuedMaps
<1>2. ~cancelationToken /\ m # NoMap /\ w \in Busy
  BY <1>m DEF InTick, IInv, Order, Hands, Busy, InUpdate, Execute, BeginHandler, EndHandler,
              MapUpdated, UpdateFinished
<1>3. /\ m \in i_maps /\ m \in HeldMaps
      /\ \A v \in Workers : v # w => request[v] # m
  BY <1>2, <1>m DEF IInv, Places, HeldMaps, Busy
<1>4. request'[w] = m \/ request'[w] = NoMap
  BY <1>m DEF Execute, BeginHandler, EndHandler, MapUpdated, UpdateFinished, IInv, TypeOK
<1>5. PhaseFacts /\ PhaseFacts'
  BY PhaseKnown, PhaseKnownNext
<1>6. Phase(m) = Stage(w)
  BY <1>3, <1>5, <1>m DEF PhaseFacts
<1>7. Phase(m)' < Phase(m)
  <2>1. CASE UpdateFinished(w)
    <3>1. request'[w] = NoMap /\ Stage(w) = 1
      BY <2>1 DEF UpdateFinished, Stage, IInv, TypeOK
    <3>2. m \notin HeldMaps'
      BY <1>1, <1>2, <1>3, <3>1 DEF HeldMaps, Busy
    <3>3. m \notin toSchedule' \cup QueuedMaps'
      BY <1>1, <1>3 DEF IInv, Places
    <3>4. Phase(m)' = 0
      BY <1>1, <1>3, <1>5, <3>2, <3>3 DEF PhaseFacts
    <3> QED  BY <1>6, <3>1, <3>4
  <2>2. CASE Execute(w) \/ BeginHandler(w) \/ EndHandler(w) \/ MapUpdated(w)
    <3>1. request' = request
      BY <2>2 DEF Execute, BeginHandler, EndHandler, MapUpdated
    <3>2. Phase(m)' = Stage(w)'
      BY <1>1, <1>3, <1>5, <1>m, <3>1 DEF PhaseFacts
    <3>3. Stage(w)' < Stage(w)
      <4>1. CASE Execute(w)
        BY <1>2, <3>1, <4>1 DEF Execute, Stage, IInv, TypeOK
      <4>2. CASE BeginHandler(w)
        BY <3>1, <4>2 DEF BeginHandler, Stage, IInv, TypeOK
      <4>3. CASE EndHandler(w)
        BY <3>1, <4>3 DEF EndHandler, Stage, IInv, TypeOK, PacketTaken
      <4>4. CASE MapUpdated(w)
        BY <3>1, <4>4 DEF MapUpdated, Stage, IInv, TypeOK
      <4> QED  BY <2>2, <4>1, <4>2, <4>3, <4>4
    <3> QED  BY <1>6, <3>2, <3>3
  <2> QED  BY <2>1, <2>2
<1>8. ASSUME NEW n \in i_maps, n # m PROVE Phase(n)' = Phase(n)
  <2>1. n \in Maps /\ n # NoMap
    BY PoolAssumption DEF IInv, TypeOK
  <2>2. \A v \in Workers : request'[v] = n <=> request[v] = n
    BY <1>1, <1>4, <1>8, <1>m, <2>1
  <2>3. \A v \in Workers : request[v] = n => Stage(v)' = Stage(v)
    BY <1>1, <1>8, <1>m, <2>1, <2>2 DEF Stage
  <2> QED  BY <1>1, <2>2, <2>3, SamePhase
<1>9. \A n \in i_maps : Phase(n) \in 0..7 /\ Phase(n)' \in 0..7
  BY <1>1, <1>5 DEF PhaseFacts
<1> QED  BY <1>1, <1>3, <1>7, <1>8, <1>9 DEF Advances

\* A worker that finds a request takes its map out of the queue; one that finds
\* none goes to sleep, and no map notices.
LEMMA PopAdvances ==
    ASSUME IInv, IInv', InTick, InTick', NEW w \in Workers, WaitAndPop(w), ~m_shutdown
    PROVE  /\ i_maps' = i_maps
           /\ \A m \in i_maps : Phase(m)' <= Phase(m)
           /\ queue # <<>> => Advances
<1>1. UNCHANGED <<i_maps, toSchedule, unsafePackets>> /\ pc[w] = "pop" /\ request[w] = NoMap
  BY DEF WaitAndPop, schedule, IInv, Hands
<1>2. PhaseFacts /\ PhaseFacts'
  BY PhaseKnown, PhaseKnownNext
<1>3. \A n \in i_maps : Phase(n) \in 0..7 /\ Phase(n)' \in 0..7
  BY <1>1, <1>2 DEF PhaseFacts
<1>4. \A n \in i_maps : n # NoMap
  BY PoolAssumption DEF IInv, TypeOK
<1>5. CASE queue = <<>>
  <2>1. UNCHANGED <<queue, request>> /\ pc' = [pc EXCEPT ![w] = "asleep"]
    BY <1>5 DEF WaitAndPop
  <2>2. QueuedMaps' = QueuedMaps
    BY <2>1 DEF QueuedMaps
  <2>3. ASSUME NEW n \in i_maps PROVE Phase(n)' = Phase(n)
    <3>1. \A v \in Workers : request[v] = n => Stage(v)' = Stage(v)
      BY <1>1, <1>4, <2>1 DEF Stage, IInv, TypeOK
    <3> QED  BY <1>1, <2>1, <2>2, <3>1, SamePhase
  <2> QED  BY <1>1, <1>3, <1>5, <2>3
<1>6. CASE queue # <<>>
  <2>m. PICK m : m = Head(queue)
    OBVIOUS
  <2>1. /\ pc' = [pc EXCEPT ![w] = "popped"]
        /\ request' = [request EXCEPT ![w] = m]
        /\ queue' = Tail(queue)
    BY <1>6, <2>m DEF WaitAndPop
  <2>2. /\ m = queue[1] /\ Len(queue) \in Nat /\ Len(queue) >= 1
        /\ Len(queue') = Len(queue) - 1
        /\ \A i \in 1..(Len(queue) - 1) : queue'[i] = queue[i + 1]
    BY <1>6, <2>1, <2>m, Popped DEF IInv, TypeOK
  <2>3. m \in QueuedMaps /\ m \in i_maps
    BY <2>2 DEF QueuedMaps, IInv, Places
  <2>4. request'[w] = m /\ pc'[w] = "popped"
    BY <2>1 DEF IInv, TypeOK
  <2>5. Phase(m) = 6 /\ Phase(m)' = 5
    BY <1>1, <1>2, <2>3, <2>4 DEF PhaseFacts, Stage
  <2>6. ASSUME NEW n \in i_maps, n # m PROVE Phase(n)' = Phase(n)
    <3>1. n \in QueuedMaps' <=> n \in QueuedMaps
      <4>1. \A i \in 1..Len(queue) : i = 1 \/ (i - 1 \in 1..Len(queue') /\ queue'[i - 1] = queue[i])
        BY <2>2
      <4>2. \A i \in 1..Len(queue') : i + 1 \in 1..Len(queue) /\ queue'[i] = queue[i + 1]
        BY <2>2
      <4>3. queue[1] # n
        BY <2>2, <2>6
      <4>4. QueuedMaps' \subseteq QueuedMaps
        BY <4>2 DEF QueuedMaps
      <4> QED  BY <4>1, <4>3, <4>4 DEF QueuedMaps
    <3>2. \A v \in Workers : v # w => request'[v] = request[v] /\ pc'[v] = pc[v]
      BY <2>1 DEF IInv, TypeOK
    <3>3. \A v \in Workers : request'[v] = n <=> request[v] = n
      BY <1>1, <1>4, <2>4, <2>6, <3>2
    <3>4. \A v \in Workers : request[v] = n => Stage(v)' = Stage(v)
      BY <1>1, <1>4, <3>2 DEF Stage
    <3> QED  BY <1>1, <3>1, <3>3, <3>4, SamePhase
  <2> QED  BY <1>1, <1>3, <2>3, <2>5, <2>6 DEF Advances
<1> QED  BY <1>5, <1>6

\* What else happens in a tick: packets arrive for maps no worker is updating,
\* threads wake up, and the world thread goes on to wait().
LEMMA OthersKeepPhase ==
    ASSUME IInv, IInv', InTick, InTick',
           \/ \E m \in Maps : QueuePacket(m) \/ CreateMap(m)
           \/ UpdateSessions \/ BeginTick \/ EndSchedule \/ Wait \/ UnloadMaps
           \/ SpuriousWakeup \/ Deactivate \/ UNCHANGED vars
    PROVE  i_maps' = i_maps /\ \A m \in i_maps : Phase(m)' <= Phase(m)
<1>1. \/ \E m \in Maps : QueuePacket(m)
      \/ EndSchedule \/ Wait \/ SpuriousWakeup \/ UNCHANGED vars
  BY DEF InTick, CreateMap, UpdateSessions, BeginTick, UnloadMaps, Deactivate, UnloadAll,
         SetToken, Cancel, Join
<1>2. /\ UNCHANGED <<i_maps, toSchedule, queue, request>>
      /\ \A w \in Workers : pc'[w] = pc[w] \/ pc[w] = "asleep"
      /\ \A w \in Workers :
             InUpdate(w) => (request[w] \in unsafePackets' <=> request[w] \in unsafePackets)
  BY <1>1 DEF QueuePacket, EndSchedule, Wait, SpuriousWakeup, vars, schedule, pool, worker,
              Asleep, IInv, TypeOK
<1>3. QueuedMaps' = QueuedMaps
  BY <1>2 DEF QueuedMaps
<1>4. \A m \in i_maps : m # NoMap
  BY PoolAssumption DEF IInv, TypeOK
<1>5. \A w \in Workers : request[w] # NoMap =>
        pc'[w] = pc[w] /\ pc[w] \in {"popped", "execute", "handler", "finish"}
  BY <1>2 DEF IInv, TypeOK, Hands
<1>6. ASSUME NEW m \in i_maps PROVE Phase(m)' = Phase(m)
  <2>1. \A w \in Workers : request[w] = m => Stage(w)' = Stage(w)
    BY <1>2, <1>4, <1>5 DEF Stage, InUpdate
  <2> QED  BY <1>2, <1>3, <2>1, SamePhase
<1>7. \A m \in i_maps : Phase(m) \in 0..7
  BY PhaseKnown DEF PhaseFacts
<1> QED  BY <1>2, <1>6, <1>7

\* Every step of a tick.
LEMMA NextAdvances == IInv /\ PacketTaken /\ [Next]_vars => TickAdvances
<1> SUFFICES ASSUME IInv, PacketTaken, [Next]_vars, InTick, InTick'
             PROVE  /\ i_maps' = i_maps
                    /\ \A m \in i_maps : Phase(m)' <= Phase(m)
                    /\ ScheduleUpdate => Advances
                    /\ \A w \in Workers : Runs(w) /\ WorkerThread(w) => Advances
  BY DEF TickAdvances
<1>1. IInv' /\ ~m_shutdown
  BY NextIInv DEF IInv, Order, InTick
<1>2. ScheduleUpdate => Advances
  BY <1>1, ScheduleAdvances
<1>3. ASSUME NEW w \in Workers, WorkerThread(w)
      PROVE  /\ i_maps' = i_maps
             /\ \A m \in i_maps : Phase(m)' <= Phase(m)
             /\ Runs(w) => Advances
  <2>1. CASE WaitAndPop(w)
    BY <1>1, <2>1, PopAdvances DEF Runs, WaitAndPop
  <2>2. CASE ~WaitAndPop(w)
    BY <1>1, <1>3, <2>2, WorkerAdvances DEF WorkerThread
  <2> QED  BY <2>1, <2>2
<1>4. i_maps' = i_maps /\ \A m \in i_maps : Phase(m)' <= Phase(m)
  <2>1. CASE ScheduleUpdate
    BY <1>1, <2>1, ScheduleAdvances
  <2>2. CASE \E w \in Workers : WorkerThread(w)
    BY <1>3, <2>2
  <2>3. CASE \/ \E m \in Maps : QueuePacket(m) \/ CreateMap(m)
             \/ UpdateSessions \/ BeginTick \/ EndSchedule \/ Wait \/ UnloadMaps
             \/ SpuriousWakeup \/ Deactivate \/ UNCHANGED vars
    BY <1>1, <2>3, OthersKeepPhase
  <2> QED  BY <2>1, <2>2, <2>3 DEF Next, UpdateMaps
<1> QED  BY <1>2, <1>3, <1>4

\* The end of a tick can not be put off, for any number of threads and maps: each
\* step of a worker that runs (and by PoolNeverStuck one does, while the world
\* thread waits) leaves less to be done to some map, and no step leaves more.
THEOREM TickOnlyAdvances == Spec => [][TickAdvances]_vars
<1>1. Init => PacketTaken
  BY DEF Init, PacketTaken
<1> QED  BY <1>1, NextPacketTaken, NextAdvances, Invariance, PTL DEF Spec

\* Once the queue is cancelled every step of a worker takes it to its end.
LEMMA NextJoins == IInv /\ Wakeups /\ [Next]_vars => JoinAdvances
<1> SUFFICES ASSUME IInv, Wakeups, [Next]_vars, world = "join", NEW v \in Workers
             PROVE  /\ StepsLeft(v)' <= StepsLeft(v)
                    /\ WorkerThread(v) => StepsLeft(v)' < StepsLeft(v)
  BY DEF JoinAdvances
<1>1. m_shutdown /\ cancelationToken /\ Asleep = {}
  BY DEF IInv, Order, Wakeups, NoLostWakeup, Cancelled
<1>2. \A w \in Workers : pc[w] \in {"pop", "popped", "ended"}
  <2>1. pending_requests = 0
    BY DEF IInv, Quiet, InTick
  <2>2. \A w \in Workers : request[w] = NoMap
    BY <2>1, NothingLeft DEF IInv
  <2> QED  BY <1>1, <2>2 DEF IInv, TypeOK, Hands, InUpdate, Asleep
<1>3. ASSUME NEW w \in Workers, WorkerThread(w)
      PROVE  /\ \A u \in Workers : u # w => pc'[u] = pc[u]
             /\ \/ pc[w] = "pop" /\ pc'[w] = "popped"
                \/ pc[w] = "popped" /\ pc'[w] = "ended"
  <2>1. WaitAndPop(w) \/ Execute(w)
    BY <1>2, <1>3 DEF WorkerThread, BeginHandler, EndHandler, MapUpdated, UpdateFinished
  <2> QED  BY <1>1, <2>1 DEF WaitAndPop, Execute, IInv, TypeOK
<1>4. CASE \E w \in Workers : WorkerThread(w)
  BY <1>3, <1>4 DEF StepsLeft
<1>5. CASE ~\E w \in Workers : WorkerThread(w)
  <2>1. UNCHANGED pc
    BY <1>1, <1>5 DEF Next, UpdateMaps, Deactivate, QueuePacket, CreateMap, UpdateSessions,
         BeginTick, ScheduleUpdate, EndSchedule, Wait, UnloadMaps, SpuriousWakeup, UnloadAll,
         SetToken, Cancel, Join, vars, worker
  <2>2. StepsLeft(v)' = StepsLeft(v) /\ StepsLeft(v) \in Nat
    BY <2>1 DEF StepsLeft
  <2> QED  BY <1>5, <2>2
<1> QED  BY <1>4, <1>5

\* The shutdown can not be put off either: once the queue is cancelled no worker
\* sleeps or starts on a map, and each has at most two steps left.
THEOREM JoinOnlyAdvances == Spec => [][JoinAdvances]_vars
<1>1. Init => Wakeups
  BY DEF Init, Wakeups, NoLostWakeup, Cancelled, Asleep
<1> QED  BY <1>1, NextWakeups, NextJoins, Invariance, PTL DEF Spec
=============================================================================
