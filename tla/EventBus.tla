------------------------------ MODULE EventBus ------------------------------
(***************************************************************************)
(* app_evt_chan and its one message subscriber (common/app_events.c): the  *)
(* FIFO of events the state-machine thread drains.  Every publisher calls  *)
(* app_event_put(.., K_NO_WAIT) and ignores the result, so a publication   *)
(* is lost when the subscriber's buffer pool is empty and may be lost when *)
(* the channel is busy in another context.                                 *)
(*                                                                         *)
(* PoolSize is the number of buffers (16 in the firmware, a few in a       *)
(* model).  With MayLose = FALSE no publication is ever lost: a publisher  *)
(* that would overflow the pool is not scheduled until there is room.      *)
(***************************************************************************)
EXTENDS AppTypes, Naturals, Sequences

CONSTANTS
    PoolSize,   \* buffers of the subscriber's pool
    MayLose     \* whether a publication can be lost

ASSUME PoolSizeAssumption == PoolSize \in Nat \ {0}
ASSUME MayLoseAssumption == MayLose \in BOOLEAN

VARIABLE queue  \* events published and not yet handled, oldest first

EventBusTypeOK == queue \in Seq(Event) /\ Len(queue) <= PoolSize

(* The queues that app_event_put(&e) can leave behind.                     *)
Put(q, e) ==
    (IF Len(q) < PoolSize THEN {Append(q, e)} ELSE {})
        \union (IF MayLose THEN {q} ELSE {})

(* A context that publishes up to two events, each lost on its own.        *)
PutAll(q, evs) ==
    CASE Len(evs) = 0 -> {q}
      [] Len(evs) = 1 -> Put(q, evs[1])
      [] OTHER        -> UNION {Put(r, evs[2]) : r \in Put(q, evs[1])}

(* A publication outside the state-machine thread.                         *)
Publish(e) == queue' \in Put(queue, e)

(* The state-machine thread takes the oldest event...                      *)
Handling(type) == queue # <<>> /\ Head(queue).type = type
FromRat(rats) == Head(queue).source_rat \in rats

(* ...and either publishes nothing while it handles it, or one event.      *)
Consume == queue' = Tail(queue)
ConsumeAndPublish(e) == queue' \in Put(Tail(queue), e)

Queued(type) == \E i \in 1..Len(queue) : queue[i].type = type
=============================================================================
