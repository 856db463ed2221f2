------------------------------ MODULE ModelPool ------------------------------
(***************************************************************************)
(* One entry of engine::ModelPool: the bounded free list of whisper_states *)
(* of one loaded model, the streams that borrow from it, and the condition *)
(* variable they queue on.  Entries of different models share nothing (a   *)
(* mutex, a condition variable and a free list each), so one is modelled.  *)
(*                                                                         *)
(* Two kinds of caller use an entry.  A Transcribe stream waits once, with *)
(* its stop token and the queue deadline.  A speech window of the          *)
(* streaming API (engine::StreamBackend::infer) waits in 20 ms slices with *)
(* no stop token, and looks at its client and its deadline in between.     *)
(*                                                                         *)
(* Every critical section of Entry::mutex is one action: the only place a  *)
(* holder blocks is the condition wait, which gives the mutex up.          *)
(***************************************************************************)
EXTENDS Naturals, Sequences, FiniteSets

CONSTANTS
    States,        \* the whisper_states of the entry (config.concurrency of them)
    Transcribes,   \* Transcribe streams: stop token, at most one acquire each
    Windows,       \* streaming-API windows: the polling loop of StreamBackend::infer
    QueueTimeout,  \* TRUE when queue_timeout_seconds is not zero
    None           \* "holds no state"

ASSUME PoolAssumption ==
    /\ IsFiniteSet(States)
    /\ IsFiniteSet(Transcribes) /\ IsFiniteSet(Windows)
    /\ Transcribes \cap Windows = {}
    /\ QueueTimeout \in BOOLEAN
    /\ None \notin States

Streams == Transcribes \cup Windows

VARIABLES
    free,      \* Entry::free_states, front first
    pc,        \* where each stream stands
    held,      \* the state of each stream's Lease, or None
    stopped,   \* Transcribe: its stop_source fired; window: cancelled() is true
    expired,   \* the deadline of the current condition wait has passed
    late,      \* the overall queue deadline has passed
    toWake     \* streams whose stop callback (notify_all) has not run yet

vars == <<free, pc, held, stopped, expired, late, toWake>>

PCs == {"idle", "polling", "arriving", "asleep", "awake", "leased",
        "notifying", "cancelled", "timedout"}

\* The streams at one program point.
At(l) == {s \in Streams : pc[s] = l}

\* Inside condition_variable_any::wait / wait_until, where the stop callback
\* is registered.
Queued == At("asleep") \cup At("awake")

\* From the call of acquire or infer until it returns or throws.
Waiting(s) == pc[s] \in {"polling", "arriving", "asleep", "awake"}

\* The set of all states that the sequence q lists.
Listed(q) == {q[i] : i \in 1 .. Len(q)}
-----------------------------------------------------------------------------
(* A stream starts.  Both callers reach the pool only after the request    *)
(* validated, so the model is loaded and acquire finds its entry.          *)

BeginTranscribe(s) ==
    /\ s \in Transcribes
    /\ pc[s] = "idle"
    /\ pc' = [pc EXCEPT ![s] = "arriving"]
    /\ UNCHANGED <<free, held, stopped, expired, late, toWake>>

BeginWindow(s) ==
    /\ s \in Windows
    /\ pc[s] = "idle"
    /\ pc' = [pc EXCEPT ![s] = "polling"]
    /\ UNCHANGED <<free, held, stopped, expired, late, toWake>>

(* Faulty variant: a slice that times out goes straight to the next one,   *)
(* without asking cancelled() again.                                       *)
BadPoll(s) ==
    /\ pc[s] = "polling"
    /\ pc' = [pc EXCEPT ![s] = IF late[s] THEN "timedout" ELSE "arriving"]
    /\ UNCHANGED <<free, held, stopped, expired, late, toWake>>

(* The head of the loop of StreamBackend::infer: cancelled() first, then   *)
(* the overall deadline, then another slice of waiting.                    *)
Poll(s) ==
    /\ pc[s] = "polling"
    /\ pc' = [pc EXCEPT ![s] = IF stopped[s] THEN "cancelled"
                               ELSE IF late[s] THEN "timedout"
                               ELSE "arriving"]
    /\ UNCHANGED <<free, held, stopped, expired, late, toWake>>
-----------------------------------------------------------------------------
(* ModelPool::acquire.                                                     *)

(* A window passes no stop token to acquire: stop.stop_requested() is      *)
(* false for it whatever its client does.                                  *)
StopRequested(s) == s \in Transcribes /\ stopped[s]

(* Faulty variant: front() without pop_front().                            *)
BadTakeStateNoPop(s) ==
    /\ free # <<>>
    /\ held' = [held EXCEPT ![s] = Head(free)]
    /\ free' = free
    /\ pc' = [pc EXCEPT ![s] = "leased"]
    /\ expired' = [expired EXCEPT ![s] = FALSE]

(* Faulty variant: a stopped stream throws after it popped the state.      *)
BadTakeStateLeaks(s) ==
    /\ free # <<>>
    /\ held' = [held EXCEPT ![s] = IF StopRequested(s) THEN None ELSE Head(free)]
    /\ free' = Tail(free)
    /\ pc' = [pc EXCEPT ![s] = IF StopRequested(s) THEN "cancelled" ELSE "leased"]
    /\ expired' = [expired EXCEPT ![s] = FALSE]

(* got_state: the front of the free list becomes the caller's Lease.       *)
TakeState(s) ==
    /\ free # <<>>
    /\ held' = [held EXCEPT ![s] = Head(free)]
    /\ free' = Tail(free)
    /\ pc' = [pc EXCEPT ![s] = "leased"]
    /\ expired' = [expired EXCEPT ![s] = FALSE]

(* Faulty variant: a wait that ends by stop or timeout without evaluating  *)
(* state_free again.                                                       *)
BadLeaveQueueUnchecked(s) ==
    /\ StopRequested(s) \/ expired[s]
    /\ pc' = [pc EXCEPT ![s] = IF StopRequested(s) THEN "cancelled"
                               ELSE IF s \in Windows THEN "polling"
                               ELSE "timedout"]
    /\ expired' = [expired EXCEPT ![s] = FALSE]
    /\ UNCHANGED <<free, held>>

(* !got_state: Cancelled when the stop fired, QueueTimeout otherwise.  The *)
(* loop of infer catches QueueTimeout and polls again.                     *)
LeaveQueue(s) ==
    /\ free = <<>>
    /\ StopRequested(s) \/ expired[s]
    /\ pc' = [pc EXCEPT ![s] = IF StopRequested(s) THEN "cancelled"
                               ELSE IF s \in Windows THEN "polling"
                               ELSE "timedout"]
    /\ expired' = [expired EXCEPT ![s] = FALSE]
    /\ UNCHANGED <<free, held>>

(* The predicate is false and nothing ends the wait: (back) to sleep.      *)
Sleep(s) ==
    /\ free = <<>>
    /\ ~StopRequested(s) /\ ~expired[s]
    /\ pc' = [pc EXCEPT ![s] = "asleep"]
    /\ UNCHANGED <<free, held, expired>>

(* With Entry::mutex held, on entry and after every wake-up, the wait      *)
(* evaluates state_free before anything else: a stopped or late stream     *)
(* that finds a state free takes it.  Leaving the wait destroys its        *)
(* stop_callback, so a callback that has not started never runs.           *)
Acquire(s) ==
    /\ pc[s] \in {"arriving", "awake"}
    /\ TakeState(s) \/ LeaveQueue(s) \/ Sleep(s)
    /\ toWake' = toWake \ {s}
    /\ UNCHANGED <<stopped, late>>

(* A window always waits against a deadline (its 20 ms slice); a           *)
(* Transcribe stream only when the queue has one.                          *)
HasDeadline(s) == s \in Windows \/ QueueTimeout

(* The deadline of a wait passes: wait_until returns from the condition    *)
(* variable, now or as soon as it is entered again.                        *)
Expire(s) ==
    /\ s \in Queued
    /\ HasDeadline(s)
    /\ ~expired[s]
    /\ pc' = [pc EXCEPT ![s] = "awake"]
    /\ expired' = [expired EXCEPT ![s] = TRUE]
    /\ UNCHANGED <<free, held, stopped, late, toWake>>

(* The overall deadline of infer passes; it is looked at in Poll only.     *)
DeadlinePasses(s) ==
    /\ s \in Windows /\ QueueTimeout
    /\ Waiting(s)
    /\ ~late[s]
    /\ late' = [late EXCEPT ![s] = TRUE]
    /\ UNCHANGED <<free, pc, held, stopped, expired, toWake>>

(* A condition variable may wake a waiter for no reason.                   *)
SpuriousWakeup(s) ==
    /\ pc[s] = "asleep"
    /\ pc' = [pc EXCEPT ![s] = "awake"]
    /\ UNCHANGED <<free, held, stopped, expired, late, toWake>>
-----------------------------------------------------------------------------
(* The client goes away.  request_stop sets the flag and then runs the     *)
(* callback the wait registered: notify_all, which wakes every waiter of   *)
(* the entry.  A window's client is only seen by Poll.                     *)
ClientGone(s) ==
    /\ Waiting(s)
    /\ ~stopped[s]
    /\ stopped' = [stopped EXCEPT ![s] = TRUE]
    /\ toWake' = IF s \in Transcribes \cap Queued THEN toWake \cup {s} ELSE toWake
    /\ UNCHANGED <<free, pc, held, expired, late>>

StopCallback(s) ==
    /\ s \in toWake
    /\ toWake' = toWake \ {s}
    /\ pc' = [t \in Streams |-> IF pc[t] = "asleep" THEN "awake" ELSE pc[t]]
    /\ UNCHANGED <<free, held, stopped, expired, late>>
-----------------------------------------------------------------------------
(* ~Lease calls ModelPool::release: push_back under the mutex, and only    *)
(* after the mutex is given up, notify_one.                                *)
Release(s) ==
    /\ pc[s] = "leased"
    /\ free' = Append(free, held[s])
    /\ held' = [held EXCEPT ![s] = None]
    /\ pc' = [pc EXCEPT ![s] = "notifying"]
    /\ UNCHANGED <<stopped, expired, late, toWake>>

(* Faulty variant: notify only when the free list had been empty.          *)
BadNotifyFirstOnly(s) ==
    /\ pc[s] = "notifying"
    /\ IF At("asleep") = {} \/ Len(free) > 1
       THEN pc' = [pc EXCEPT ![s] = "idle"]
       ELSE \E w \in At("asleep") : pc' = [pc EXCEPT ![s] = "idle", ![w] = "awake"]
    /\ stopped' = [stopped EXCEPT ![s] = FALSE]
    /\ late' = [late EXCEPT ![s] = FALSE]
    /\ UNCHANGED <<free, held, expired, toWake>>

(* notify_one wakes one sleeper, whichever, when there is one.             *)
Notify(s) ==
    /\ pc[s] = "notifying"
    /\ IF At("asleep") = {}
       THEN pc' = [pc EXCEPT ![s] = "idle"]
       ELSE \E w \in At("asleep") : pc' = [pc EXCEPT ![s] = "idle", ![w] = "awake"]
    /\ stopped' = [stopped EXCEPT ![s] = FALSE]
    /\ late' = [late EXCEPT ![s] = FALSE]
    /\ UNCHANGED <<free, held, expired, toWake>>

(* A stream that failed to get a state ends; a new one takes its place.    *)
EndFailed(s) ==
    /\ pc[s] \in {"cancelled", "timedout"}
    /\ pc' = [pc EXCEPT ![s] = "idle"]
    /\ stopped' = [stopped EXCEPT ![s] = FALSE]
    /\ late' = [late EXCEPT ![s] = FALSE]
    /\ UNCHANGED <<free, held, expired, toWake>>
-----------------------------------------------------------------------------
(* Startup loads every state into the free list.                           *)
Init ==
    /\ free \in [1 .. Cardinality(States) -> States]
    /\ Listed(free) = States
    /\ pc = [s \in Streams |-> "idle"]
    /\ held = [s \in Streams |-> None]
    /\ stopped = [s \in Streams |-> FALSE]
    /\ expired = [s \in Streams |-> FALSE]
    /\ late = [s \in Streams |-> FALSE]
    /\ toWake = {}

\* What the pool and the waits do by themselves.
Step(s) ==
    \/ Poll(s) \/ Acquire(s) \/ StopCallback(s) \/ Notify(s) \/ EndFailed(s)

\* What clients, clocks and decodes do.
Environment(s) ==
    \/ BeginTranscribe(s) \/ BeginWindow(s) \/ ClientGone(s) \/ Expire(s)
    \/ DeadlinePasses(s) \/ SpuriousWakeup(s) \/ Release(s)

Next == \E s \in Streams : Step(s) \/ Environment(s)

Spec == Init /\ [][Next]_vars

(* Threads are scheduled: the mutex is held for a few instructions at a    *)
(* time, a stop callback runs on the thread that requested the stop, and   *)
(* the 20 ms slice of a window passes.  Nothing is assumed of clients, of  *)
(* spurious wake-ups, of decodes ending or of the queue deadline.          *)
FairSpec ==
    /\ Spec
    /\ \A s \in Streams : /\ WF_vars(Poll(s) \/ Acquire(s) \/ Notify(s))
                          /\ WF_vars(StopCallback(s))
    /\ \A s \in Windows : WF_vars(Expire(s))
-----------------------------------------------------------------------------
(* Properties.                                                             *)

\* The variables have the types of the code's state.
TypeOK ==
    /\ free \in Seq(States)
    /\ pc \in [Streams -> PCs]
    /\ held \in [Streams -> States \cup {None}]
    /\ stopped \in [Streams -> BOOLEAN]
    /\ expired \in [Streams -> BOOLEAN]
    /\ late \in [Streams -> BOOLEAN]
    /\ toWake \in SUBSET Transcribes

\* No state is lost and none is handed out twice: the free list repeats
\* nothing, no two leases share a state, and every state allocated at
\* startup is either in the free list or leased, never both.
StatesConserved ==
    /\ \A i, j \in 1 .. Len(free) : free[i] = free[j] => i = j
    /\ \A s, t \in Streams : held[s] = held[t] /\ held[s] # None => s = t
    /\ \A s \in Streams : (held[s] # None) <=> (pc[s] = "leased")
    /\ Listed(free) \cap {held[s] : s \in Streams} = {}
    /\ States \subseteq Listed(free) \cup {held[s] : s \in Streams}

\* No wake-up is lost.  release notifies one waiter after it gave the mutex
\* up, waiters time out and are cancelled meanwhile, and newcomers take
\* states without queueing; still, while somebody sleeps on the condition
\* variable, every free state is matched by a stream that is awake and about
\* to look at the free list, or by a release that has yet to notify.
NoLostWakeup ==
    At("asleep") # {} =>
        Len(free) <= Cardinality(At("awake")) + Cardinality(At("notifying"))

\* A free state and a sleeping stream do not stay together: the notification
\* of release reaches a waiter that takes the state.
FreeStateIsTaken ==
    (free # <<>> /\ At("asleep") # {}) ~> (free = <<>> \/ At("asleep") = {})

\* "A cancelled or timed-out stream leaves the queue at once instead of
\* holding its RPC thread": a stream whose client went away, or whose queue
\* deadline has passed, stops waiting even when no state is ever released.
DueStreamLeaves ==
    \A s \in Streams :
        (Waiting(s) /\ (stopped[s] \/ late[s] \/ (s \in Transcribes /\ expired[s])))
        ~> ~Waiting(s)

\* The pool lends each state to one stream at a time (StateLending.tla).
Lending == INSTANCE StateLending WITH lent <- held
LendsExclusively == Lending!Spec
=============================================================================
