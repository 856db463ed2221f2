------------------------------ MODULE Registry ------------------------------
(* The stream registry of the media service (streaming/src/registry.cpp) with  *)
(* its subscriber mailboxes and the loop of Service::Subscribe.  Publishers    *)
(* and subscribers run on their own threads; the registry lock makes each      *)
(* registry call one step, the mailbox lock each push, next and cancel.  The   *)
(* Write that follows a next takes as long as the client takes to read.        *)
(*                                                                             *)
(* An event is immutable once published, so the model writes it once, in log,  *)
(* and refers to it by its cursor: the incarnation (one per successful open)   *)
(* and the sequence number.                                                    *)
EXTENDS Integers, Sequences, FiniteSetsExt

CONSTANTS Ids,             \* stream UUIDs a caller may open
          Clients,         \* subscribing clients
          Picks,           \* Picks[c]: stream_ids of c's requests, {} for all
          Wants,           \* Wants[c]: payload_kinds of c's requests, {} for all
          Payloads,        \* payload kinds of source and derived events
          Charge,          \* Charge[k]: bytes an event of kind k is charged for
          MaxStreams, MaxSubscribers, RetentionBytes, SubscriberBytes,  \* Limits
          MaxOpens, MaxEvents   \* bounds: opens, and payload events in all

VARIABLES log,        \* log[i]: stream id and event kinds of incarnation i
          streams,    \* streams_: id -> incarnation and retained history
          closedAt,   \* ids of the closed streams, by closed_at
          running,    \* the clients whose Subscribe RPC holds a subscription
          box,        \* their mailboxes
          sending,    \* the response each of them is blocked in Write with
          seen        \* seen[c][i]: last cursor of incarnation i c accounts for

vars == <<log, streams, closedAt, running, box, sending, seen>>

Lifecycle == {"opened", "closed"}
Kinds == Lifecycle \cup Payloads

ASSUME RegistryAssumption ==
    /\ Charge \in [Kinds -> Nat]
    /\ Picks \in [Clients -> SUBSET Ids]
    /\ Wants \in [Clients -> SUBSET Payloads]
    /\ {MaxStreams, MaxSubscribers, RetentionBytes, SubscriberBytes} \subseteq Nat \ {0}
    /\ {MaxOpens, MaxEvents} \subseteq Nat

Incarnations == 1..MaxOpens
Kind(i, n) == log[i].kinds[n]

\* Subscription::accepts, for an id and for an event
AcceptsId(c, id) == Picks[c] = {} \/ id \in Picks[c]
AcceptsKind(c, k) == Wants[c] = {} \/ k \in Lifecycle \/ k \in Wants[c]

-----------------------------------------------------------------------------
(* Mailboxes *)

EmptyBox == [pending |-> << >>, bytes |-> 0, stopped |-> FALSE]
Stopped == [EmptyBox EXCEPT !.stopped = TRUE]
Event(i, n) == [tag |-> "event", inc |-> i, seq |-> n]
Marker(tag, i) == [tag |-> tag, inc |-> i, seq |-> 0]
Nothing == Marker("none", 0)
Tags == {"none", "event", "begin", "snapshot", "end"}

\* A response costs its event's bytes; a boundary or snapshot the allowance.
Cost(x) == IF x.tag = "event" THEN Charge[Kind(x.inc, x.seq)] ELSE 1

\* The sum of a sequence of sizes.
Total(sizes) ==
    LET upto[k \in 0..Len(sizes)] == IF k = 0 THEN 0 ELSE upto[k - 1] + sizes[k]
    IN  upto[Len(sizes)]

TotalCost(q) == Total([k \in DOMAIN q |-> Cost(q[k])])

\* Faulty: the new response itself is not counted against the limit.
BadPushUncounted(b, x, size) ==
    IF b.stopped THEN b
    ELSE IF size > SubscriberBytes \/ b.bytes > SubscriberBytes
    THEN Stopped
    ELSE [b EXCEPT !.pending = Append(@, x), !.bytes = @ + size]

Push(b, x, size) ==
    IF b.stopped THEN b
    ELSE IF size > SubscriberBytes \/ b.bytes > SubscriberBytes - size
    THEN Stopped
    ELSE [b EXCEPT !.pending = Append(@, x), !.bytes = @ + size]

-----------------------------------------------------------------------------
(* Publication *)

HistoryBytes(i, h) == Total([k \in DOMAIN h |-> Charge[Kind(i, h[k])]])

\* Old events leave until the new one fits, or none is left.
Evicted(s, size) ==
    Min({k \in 0..Len(s.history) :
           \/ k = Len(s.history)
           \/ /\ size <= RetentionBytes
              /\ s.bytes - HistoryBytes(s.inc, SubSeq(s.history, 1, k))
                    <= RetentionBytes - size})

\* Faulty: an empty history announces the event it could not keep.
BadFirstRetained(history, n) == IF history = << >> THEN n ELSE Head(history)

FirstRetained(history, n) == IF history = << >> THEN n + 1 ELSE Head(history)

Retain(s, n, size) ==
    LET k    == Evicted(s, size)
        kept == SubSeq(s.history, k + 1, Len(s.history))
        rest == s.bytes - HistoryBytes(s.inc, SubSeq(s.history, 1, k))
        fits == size <= RetentionBytes
        now  == IF fits THEN Append(kept, n) ELSE kept
    IN  [s EXCEPT !.history = now,
                  !.bytes = IF fits THEN rest + size ELSE rest,
                  !.first = FirstRetained(now, n)]

\* publish(): number the event, retain it, offer it to every subscriber.
Publish(id, s, table, kind) ==
    LET n    == IF s.inc > Len(log) THEN 1 ELSE Len(log[s.inc].kinds) + 1
        size == Charge[kind]
    IN  /\ log' = IF n = 1
                  THEN Append(log, [id |-> id, kinds |-> <<kind>>])
                  ELSE [log EXCEPT ![s.inc].kinds = Append(@, kind)]
        /\ streams' = [x \in {id} \cup DOMAIN table |->
                         IF x = id THEN Retain(s, n, size) ELSE table[x]]
        /\ box' = [c \in Clients |->
                     IF c \in running /\ AcceptsId(c, id) /\ AcceptsKind(c, kind)
                     THEN Push(box[c], Event(s.inc, n), size)
                     ELSE box[c]]

NewStream == [inc |-> Len(log) + 1, history |-> << >>, bytes |-> 0, first |-> 0,
              closed |-> FALSE]

\* Faulty: the stream that closed last makes way.
BadVictim ==
    IF Cardinality(DOMAIN streams) >= MaxStreams /\ closedAt # << >>
    THEN {closedAt[Len(closedAt)]} ELSE {}

\* When the registry is full the stream that closed first makes way, if any did.
Victim ==
    IF Cardinality(DOMAIN streams) >= MaxStreams /\ closedAt # << >>
    THEN {Head(closedAt)} ELSE {}

Open(id) ==
    LET left == DOMAIN streams \ Victim
    IN  /\ id \notin DOMAIN streams
        /\ Len(log) < MaxOpens
        /\ Cardinality(left) < MaxStreams
        /\ Publish(id, NewStream, Restrict(streams, left), "opened")
        /\ closedAt' = IF Victim = {} THEN closedAt ELSE Tail(closedAt)
        /\ UNCHANGED <<running, sending, seen>>

Active(id) == id \in DOMAIN streams /\ ~streams[id].closed

PayloadEvents ==
    UNION {{<<i, n>> : n \in {n \in DOMAIN log[i].kinds : Kind(i, n) \in Payloads}} :
              i \in DOMAIN log}

\* source() and derived()
Send(id, kind) ==
    /\ Active(id)
    /\ Cardinality(PayloadEvents) < MaxEvents
    /\ Publish(id, streams[id], streams, kind)
    /\ UNCHANGED <<closedAt, running, sending, seen>>

Close(id) ==
    /\ Active(id)
    /\ Publish(id, [streams[id] EXCEPT !.closed = TRUE], streams, "closed")
    /\ closedAt' = Append(closedAt, id)
    /\ UNCHANGED <<running, sending, seen>>

-----------------------------------------------------------------------------
(* Subscription *)

Selected(c) == {id \in DOMAIN streams : AcceptsId(c, id)}

\* The last cursor c was given for stream id, of whatever incarnation.
CursorOf(c, id) ==
    LET known == {i \in DOMAIN log : log[i].id = id /\ seen[c][i] > 0}
    IN  IF known = {} THEN [inc |-> 0, seq |-> 0]
        ELSE [inc |-> Max(known), seq |-> seen[c][Max(known)]]

\* Faulty: the incarnation of the cursor is not compared.
BadResumableAlias(c, id) ==
    /\ id \in Selected(c)
    /\ CursorOf(c, id).seq <= Len(log[streams[id].inc].kinds)
    /\ CursorOf(c, id).seq >= streams[id].first - 1

\* The checks on a replay cursor.
Resumable(c, id) ==
    /\ id \in Selected(c)
    /\ CursorOf(c, id).inc = streams[id].inc
    /\ CursorOf(c, id).seq <= Len(log[streams[id].inc].kinds)
    /\ CursorOf(c, id).seq >= streams[id].first - 1

\* The retained events of one stream that a subscription of c is hydrated with.
Replay(c, id, resume) ==
    LET s == streams[id]
    IN  {Event(s.inc, n) : n \in
           {n \in Range(s.history) : /\ id \in resume => n > CursorOf(c, id).seq
                                     /\ AcceptsKind(c, Kind(s.inc, n))}}

\* A snapshot comes before the events of its stream, the events come in order.
Before(x, y) == x.inc < y.inc \/ (x.inc = y.inc /\ x.seq < y.seq)

InOrder(S) ==
    [k \in 1..Cardinality(S) |->
        CHOOSE x \in S : Cardinality({y \in S : Before(y, x)}) = k - 1]

\* What a subscription of c is hydrated with: the two boundaries and, as asked
\* for, the snapshots and the retained events of the selected streams.
Entries(c, metadata, retained, resume) ==
    LET ids == Selected(c)
    IN  {Marker("begin", 0), Marker("end", MaxOpens + 1)}
        \cup (IF metadata THEN {Marker("snapshot", streams[id].inc) : id \in ids} ELSE {})
        \cup (IF retained THEN UNION {Replay(c, id, resume) : id \in ids} ELSE {})

\* The streams follow one another; the order in which they were opened stands
\* for the order of their UUIDs in streams_.
Hydration(c, metadata, retained, resume) ==
    IF metadata \/ retained THEN InOrder(Entries(c, metadata, retained, resume)) ELSE << >>

\* What c has to account for from here on: its cursor where it resumes, the
\* retained events where it replays, and otherwise only what is yet to come.
Baseline(c, retained, resume) ==
    [i \in Incarnations |->
        IF i \notin DOMAIN log THEN 0
        ELSE LET id == log[i].id
                 current == id \in DOMAIN streams /\ streams[id].inc = i
             IN  IF current /\ id \in resume THEN seen[c][i]
                 ELSE IF current /\ retained THEN streams[id].first - 1
                 ELSE Len(log[i].kinds)]

Subscribe(c, metadata, retained, resume) ==
    LET queue == Hydration(c, metadata, retained, resume)
    IN  /\ c \notin running
        /\ resume # {} => retained
        /\ Cardinality(running) < MaxSubscribers
        /\ \A id \in resume : Resumable(c, id)
        /\ TotalCost(queue) <= SubscriberBytes
        /\ running' = running \cup {c}
        /\ box' = [box EXCEPT ![c] = [pending |-> queue, bytes |-> TotalCost(queue),
                                      stopped |-> FALSE]]
        /\ seen' = [seen EXCEPT ![c] = Baseline(c, retained, resume)]
        /\ UNCHANGED <<log, streams, closedAt, sending>>

\* next(): the oldest response leaves the mailbox and is written.
Take(c) ==
    /\ c \in running /\ sending[c] = Nothing
    /\ box[c].pending # << >>
    /\ sending' = [sending EXCEPT ![c] = Head(box[c].pending)]
    /\ box' = [box EXCEPT ![c].pending = Tail(@), ![c].bytes = @ - Cost(Head(box[c].pending))]
    /\ UNCHANGED <<log, streams, closedAt, running, seen>>

\* The Write returns: the client has read the response.
Written(c) ==
    LET x == sending[c]
    IN  /\ c \in running /\ x # Nothing
        /\ seen' = IF x.tag = "event" THEN [seen EXCEPT ![c][x.inc] = x.seq] ELSE seen
        /\ sending' = [sending EXCEPT ![c] = Nothing]
        /\ UNCHANGED <<log, streams, closedAt, running, box>>

\* The client is gone, which the loop sees or the Write reports: cancel().
Cancel(c) ==
    /\ c \in running
    /\ ~box[c].stopped \/ sending[c] # Nothing
    /\ box' = [box EXCEPT ![c] = Stopped]
    /\ sending' = [sending EXCEPT ![c] = Nothing]
    /\ UNCHANGED <<log, streams, closedAt, running, seen>>

\* Faulty: the loop asks whether it was stopped only after a response.
BadReturn(c) ==
    /\ c \in running /\ sending[c] = Nothing
    /\ box[c].stopped
    /\ box[c].pending # << >>
    /\ running' = running \ {c}
    /\ box' = [box EXCEPT ![c] = EmptyBox]
    /\ UNCHANGED <<log, streams, closedAt, sending, seen>>

\* The RPC returns and lets go of the subscription; its slot is free again.
Return(c) ==
    /\ c \in running /\ sending[c] = Nothing
    /\ box[c].stopped
    /\ box[c].pending = << >>
    /\ running' = running \ {c}
    /\ box' = [box EXCEPT ![c] = EmptyBox]
    /\ UNCHANGED <<log, streams, closedAt, sending, seen>>

Init ==
    /\ log = << >>
    /\ streams = << >>
    /\ closedAt = << >>
    /\ running = {}
    /\ box = [c \in Clients |-> EmptyBox]
    /\ sending = [c \in Clients |-> Nothing]
    /\ seen = [c \in Clients |-> [i \in Incarnations |-> 0]]

Next ==
    \/ \E id \in Ids : Open(id) \/ Close(id) \/ \E k \in Payloads : Send(id, k)
    \/ \E c \in Clients :
         \/ \E metadata, retained \in BOOLEAN, resume \in SUBSET Ids :
               Subscribe(c, metadata, retained, resume)
         \/ Take(c)
         \/ Written(c)
         \/ Cancel(c)
         \/ Return(c)

Spec == Init /\ [][Next]_vars

\* The subscriber threads run on; nobody has to publish, subscribe, leave or read.
FairSpec == Spec /\ \A c \in Clients : WF_vars(Take(c)) /\ WF_vars(Return(c))

-----------------------------------------------------------------------------
(* Properties *)

\* Every variable keeps its type; a closed stream is listed once in closedAt.
TypeOK ==
    /\ log \in Seq([id : Ids, kinds : Seq(Kinds)])
    /\ DOMAIN streams \subseteq Ids
    /\ \A id \in DOMAIN streams : log[streams[id].inc].id = id
    /\ {closedAt[k] : k \in DOMAIN closedAt}
          = {id \in DOMAIN streams : streams[id].closed}
    /\ \A j, k \in DOMAIN closedAt : closedAt[j] = closedAt[k] => j = k
    /\ running \subseteq Clients
    /\ sending \in [Clients -> [tag : Tags, inc : Nat, seq : Nat]]
    /\ seen \in [Clients -> [Incarnations -> Nat]]

\* What a stream retains is an unbroken run of its newest events, within the
\* byte budget, counted right, and announced by first_retained_sequence.  (It is
\* empty after an event that is larger than the whole budget.)
HistoryIsNewestRun ==
    \A id \in DOMAIN streams :
        LET s == streams[id]
            last == Len(log[s.inc].kinds)
        IN  /\ s.history = [k \in 1..(last + 1 - s.first) |-> s.first + k - 1]
            /\ s.bytes = HistoryBytes(s.inc, s.history)
            /\ s.bytes <= RetentionBytes
            /\ s.history = << >> => Charge[Kind(s.inc, last)] > RetentionBytes

\* In a well-typed registry a mailbox never holds more than subscriber_bytes,
\* and bytes_ never drifts from what pending_ costs (it would wrap below zero).
MailboxWithinBudget ==
    /\ TypeOK
    /\ \A c \in Clients :
          /\ box[c].bytes = TotalCost(box[c].pending)
          /\ box[c].bytes <= SubscriberBytes

\* The mailbox of c and before it the response that is being written.
Outgoing(c) ==
    IF sending[c] = Nothing THEN box[c].pending ELSE <<sending[c]>> \o box[c].pending

\* A live mailbox, with the response in Write, holds in order and exactly once
\* every published event that its client selected and has not got yet, across
\* hydration, live delivery, reopened UUIDs and resumption from the last cursor
\* the client read.
MailboxIsTheRest ==
    \A c \in running : ~box[c].stopped =>
        \A i \in DOMAIN log : AcceptsId(c, log[i].id) =>
            LET queue  == Outgoing(c)
                queued == {k \in DOMAIN queue : queue[k].tag = "event" /\ queue[k].inc = i}
                owed   == {n \in 1..Len(log[i].kinds) : /\ n > seen[c][i]
                                                        /\ AcceptsKind(c, Kind(i, n))}
            IN  /\ {queue[k].seq : k \in queued} = owed
                /\ \A j, k \in queued : j < k => queue[j].seq < queue[k].seq

\* Only a closed stream is evicted, and the one that closed first: a stream in
\* use keeps its identity whatever else is opened.
OldestClosedMakesWay ==
    [][\A id \in DOMAIN streams :
          id \notin DOMAIN streams' \/ streams'[id].inc # streams[id].inc =>
             /\ streams[id].closed
             /\ id = Head(closedAt)]_vars

\* A subscriber that reads what it is sent gets the terminal event of every stream
\* it follows; one that does not keep up is told, and its RPC ends.  One that stops
\* reading holds its RPC in Write for as long as it likes.
TerminalEventArrives ==
    \A c \in Clients : []<>(sending[c] = Nothing) =>
        \A i \in Incarnations :
            (/\ c \in running
             /\ i \in DOMAIN log
             /\ AcceptsId(c, log[i].id)
             /\ log[i].kinds[Len(log[i].kinds)] = "closed")
            ~> (c \notin running \/ (i \in DOMAIN log /\ seen[c][i] = Len(log[i].kinds)))
=============================================================================
