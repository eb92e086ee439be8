------------------------------ MODULE LiveEvents ------------------------------
(***************************************************************************)
(* Live events of one workspace at one replica of the Open Data Fusion     *)
(* API, on PostgreSQL with Redis: RedisStreamEventDelivery reads the       *)
(* stream the outbox workers write, WorkspaceEventHub hands each event to  *)
(* the subscriptions of the workspace, and GET /workspaces/:id/events      *)
(* writes it to its client, after it has read the membership again.        *)
(*                                                                         *)
(* Presence, which only concerns who is online, and the API's own publish, *)
(* which PostgreSQL mode does not use, are left out.  The stream and the   *)
(* reader are shared by all workspaces, so the events of others take their *)
(* places.  SharedEventOutbox models how the stream is written: here the   *)
(* events come in any order, and each may come again at any time later.    *)
(***************************************************************************)
EXTENDS Integers, Sequences, FiniteSets

CONSTANTS
    Clients,         \* SSE clients, each with a user of its own
    ReadBatchSize,   \* COUNT of XREAD
    SeenEventLimit,  \* seenEventLimit
    MaxEvents,       \* bound of the model: committed events
    MaxRepeats,      \* bound of the model: repeated XADDs
    MaxTroubles      \* bound of the model: faults and restarts

ASSUME LiveEventsAssumption ==
    /\ ReadBatchSize \in Nat \ {0} /\ SeenEventLimit \in Nat \ {0}
    /\ {MaxEvents, MaxRepeats, MaxTroubles} \subseteq Nat

VARIABLES
    log,       \* committed events of all workspaces; an event is its index
    members,   \* odf.workspace_members
    until,     \* history: the last event committed while a client was a member
    stream,    \* the Redis stream
    redis,     \* redisActive
    cursor,    \* streamCursors of the topic
    reader,    \* the reader of the replica, and the part of the stream it is at
    seen,      \* seenEventIds, oldest first
    client,    \* the responses of the clients
    frames,    \* the events written to each response
    troubles   \* how many of them there were

database == <<log, members, until>>
delivery == <<redis, cursor, reader, seen>>
vars == <<database, stream, delivery, client, frames, troubles>>

-----------------------------------------------------------------------------
(* States *)

Events == 1..Len(log)

\* A membership event names its member.
Event == [kind : {"updated", "elsewhere"}, who : {"nobody"}]
            \cup [kind : {"added", "removed"}, who : Clients]

\* The hub has the subscriptions of this workspace only.
OfWorkspace(i) == log[i].kind # "elsewhere"

\* The cursor "$": whatever comes after XREAD begins.
FromNow == -1

\* delivery: the events of the promise chain; read: whether the membership has been
\* read for the first one.
Closed == [at |-> "closed", chain |-> <<>>, read |-> FALSE]
Opened(at) == [at |-> at, chain |-> <<>>, read |-> FALSE]
Response == [at : {"closed", "admitted", "open"}, chain : Seq(Nat), read : BOOLEAN]

Open(c) == client[c].at = "open"
Pending(c) == Open(c) /\ client[c].chain # <<>>
First(c) == Head(client[c].chain)

RemovalForActor(c, i) == log[i] = [kind |-> "removed", who |-> c]

OnStream == {stream[k] : k \in DOMAIN stream}

Trouble == troubles < MaxTroubles /\ troubles' = troubles + 1

End(c) ==
    /\ client' = [client EXCEPT ![c] = Closed]
    /\ frames' = [frames EXCEPT ![c] = <<>>]

-----------------------------------------------------------------------------
(* Commits, and the stream *)

Committed(event, now) ==
    /\ Len(log) < MaxEvents
    /\ log' = Append(log, event)
    /\ members' = now
    /\ until' = [c \in Clients |-> IF c \in now THEN Len(log) + 1 ELSE until[c]]
    /\ UNCHANGED <<stream, delivery, client, frames, troubles>>

Update == Committed([kind |-> "updated", who |-> "nobody"], members)

UpdateElsewhere == Committed([kind |-> "elsewhere", who |-> "nobody"], members)

Add(c) == c \notin members /\ Committed([kind |-> "added", who |-> c], members \cup {c})

Remove(c) == c \in members /\ Committed([kind |-> "removed", who |-> c], members \ {c})

Publish(i) ==
    /\ i \notin OnStream
    /\ stream' = Append(stream, i)
    /\ UNCHANGED <<database, delivery, client, frames, troubles>>

\* An XADD that was not marked published is repeated: after its lease, after
\* retries, or after an operator has requeued the event, so at any time.
PublishAgain(i) ==
    /\ i \in OnStream
    /\ Len(stream) - Cardinality(OnStream) < MaxRepeats
    /\ stream' = Append(stream, i)
    /\ UNCHANGED <<database, delivery, client, frames, troubles>>

-----------------------------------------------------------------------------
(* The reader of the replica *)

XRead ==
    /\ redis /\ reader.at = "idle"
    /\ LET from == IF cursor = FromNow THEN Len(stream) ELSE cursor
       IN  reader' = [at |-> "blocked", from |-> from, to |-> from]
    /\ UNCHANGED <<database, stream, redis, cursor, seen, client, frames, troubles>>

\* A null reply: nothing came for readBlockMilliseconds.
Timeout ==
    /\ reader.at = "blocked" /\ Len(stream) = reader.from
    /\ reader' = [reader EXCEPT !.at = "idle"]
    /\ UNCHANGED <<database, stream, redis, cursor, seen, client, frames, troubles>>

Reply ==
    /\ reader.at = "blocked"
    /\ \E to \in (reader.from + 1)..Len(stream) :
        /\ to - reader.from <= ReadBatchSize
        /\ reader' = [reader EXCEPT !.at = "consuming", !.to = to]
    /\ UNCHANGED <<database, stream, redis, cursor, seen, client, frames, troubles>>

AddNothing(i) == seen

\* BoundedSet.add
AddSeen(i) == IF Len(seen) < SeenEventLimit THEN Append(seen, i) ELSE Append(Tail(seen), i)

IsSeen(i) == \E k \in DOMAIN seen : seen[k] = i

\* The subscription of a removed member goes when its removal has been handed out.
Subscribed(c) ==
    Open(c) /\ \A k \in DOMAIN client[c].chain : ~RemovalForActor(c, client[c].chain[k])

Dispatch(i) ==
    client' = [c \in Clients |->
                 IF OfWorkspace(i) /\ Subscribed(c) THEN [client[c] EXCEPT !.chain = Append(@, i)] ELSE client[c]]

\* A cursor that moves to the end of the stream instead of the last message read.
ConsumeToEnd ==
    LET next == reader.from + 1
        i == stream[next]
    IN  /\ reader.at = "consuming"
        /\ cursor' = Len(stream)
        /\ reader' = [reader EXCEPT !.from = next, !.at = IF next = reader.to THEN "idle" ELSE @]
        /\ IF IsSeen(i) THEN UNCHANGED <<seen, client>> ELSE seen' = AddSeen(i) /\ Dispatch(i)
        /\ UNCHANGED <<database, stream, redis, frames, troubles>>

\* One message of the reply.  The process does nothing else until the last one.
Consume ==
    LET next == reader.from + 1
        i == stream[next]
    IN  /\ reader.at = "consuming"
        /\ cursor' = next
        /\ reader' = [reader EXCEPT !.from = next, !.at = IF next = reader.to THEN "idle" ELSE @]
        /\ IF IsSeen(i) THEN UNCHANGED <<seen, client>> ELSE seen' = AddSeen(i) /\ Dispatch(i)
        /\ UNCHANGED <<database, stream, redis, frames, troubles>>

\* disableRedis: nothing turns it on again; readiness is degraded.
RedisFails ==
    /\ redis /\ reader.at # "consuming"
    /\ Trouble
    /\ redis' = FALSE
    /\ reader' = [reader EXCEPT !.at = "idle"]
    /\ UNCHANGED <<database, stream, cursor, seen, client, frames>>

-----------------------------------------------------------------------------
(* The responses *)

Idle == reader.at # "consuming"

\* requireWorkspaceMember, which reads the database, and then the subscription.
Connect(c) ==
    /\ Idle /\ client[c] = Closed /\ c \in members
    /\ client' = [client EXCEPT ![c] = Opened("admitted")]
    /\ UNCHANGED <<database, stream, delivery, frames, troubles>>

Subscribe(c) ==
    /\ Idle /\ client[c].at = "admitted"
    /\ client' = [client EXCEPT ![c] = Opened("open")]
    /\ UNCHANGED <<database, stream, delivery, frames, troubles>>

IsMemberUnread(c) == TRUE
IsMember(c) == c \in members

\* getWorkspaceMember, before each event that is not the client's own removal.
ReadMember(c) ==
    /\ Idle /\ Pending(c) /\ ~client[c].read /\ ~RemovalForActor(c, First(c))
    /\ IF IsMember(c)
       THEN client' = [client EXCEPT ![c].read = TRUE] /\ UNCHANGED frames
       ELSE End(c)
    /\ UNCHANGED <<database, stream, delivery, troubles>>

Write(c) ==
    /\ Idle /\ Pending(c) /\ client[c].read
    /\ client' = [client EXCEPT ![c].chain = Tail(@), ![c].read = FALSE]
    /\ frames' = [frames EXCEPT ![c] = Append(@, First(c))]
    /\ UNCHANGED <<database, stream, delivery, troubles>>

\* The removal is written and the response ends; its frames are forgotten with it.
WriteRemoval(c) ==
    /\ Idle /\ Pending(c) /\ RemovalForActor(c, First(c))
    /\ End(c)
    /\ UNCHANGED <<database, stream, delivery, troubles>>

\* The client or the network ends the response, or the membership cannot be read.
Disconnect(c) ==
    /\ Idle /\ client[c] # Closed
    /\ Trouble
    /\ End(c)
    /\ UNCHANGED <<database, stream, delivery>>

\* The process ends, and another one takes its place; a degraded one is no further
\* trouble.
Restart ==
    /\ IF redis THEN Trouble ELSE UNCHANGED troubles
    /\ redis' = TRUE /\ cursor' = FromNow /\ seen' = <<>>
    /\ reader' = [at |-> "idle", from |-> 0, to |-> 0]
    /\ client' = [c \in Clients |-> Closed]
    /\ frames' = [c \in Clients |-> <<>>]
    /\ UNCHANGED <<database, stream>>

-----------------------------------------------------------------------------
Init ==
    /\ log = <<>> /\ stream = <<>>
    /\ members = Clients /\ until = [c \in Clients |-> 0]
    /\ redis = TRUE /\ cursor = FromNow /\ seen = <<>>
    /\ reader = [at |-> "idle", from |-> 0, to |-> 0]
    /\ client = [c \in Clients |-> Closed]
    /\ frames = [c \in Clients |-> <<>>]
    /\ troubles = 0

ReaderStep == XRead \/ Reply \/ Consume
ResponseStep(c) == ReadMember(c) \/ Write(c) \/ WriteRemoval(c)

Next ==
    \/ Update \/ UpdateElsewhere \/ \E c \in Clients : Add(c) \/ Remove(c)
    \/ \E i \in Events : Publish(i) \/ PublishAgain(i)
    \/ ReaderStep \/ Timeout \/ RedisFails \/ Restart
    \/ \E c \in Clients : Connect(c) \/ Subscribe(c) \/ ResponseStep(c) \/ Disconnect(c)

Spec == Init /\ [][Next]_vars

\* The loop of the reader and the promise chain of each response go on.
Fairness == WF_vars(ReaderStep) /\ \A c \in Clients : WF_vars(ResponseStep(c))

FairSpec == Spec /\ Fairness

-----------------------------------------------------------------------------
(* Properties *)

TypeOK ==
    /\ log \in Seq(Event)
    /\ members \subseteq Clients /\ until \in [Clients -> Nat]
    /\ stream \in Seq(Nat)
    /\ redis \in BOOLEAN /\ cursor \in Nat \cup {FromNow} /\ seen \in Seq(Nat)
    /\ reader \in [at : {"idle", "blocked", "consuming"}, from : Nat, to : Nat]
    /\ client \in [Clients -> Response]
    /\ frames \in [Clients -> Seq(Nat)]
    /\ troubles \in Nat

\* app.ts "a revoked client never receives a later workspace payload": what is written
\* to a client was committed while it was a member or before, whatever order the
\* stream has and however late the replica hears of the removal.
NothingAfterRevocation ==
    \A c \in Clients : \A k \in DOMAIN frames[c] : frames[c][k] <= until[c]

\* What the stream has between two places, other than i.
OthersBetween(i, p, q) == {stream[k] : k \in (p + 1)..(q - 1)} \ {i}

\* A response gets the events in the order of the stream, each message of it once
\* at most, and an event that workers repeat comes again only after at least
\* SeenEventLimit other events, of any workspace: until then the reader remembers
\* it (RedisStreamEventDelivery.consume, BoundedSet).
FramesFollowStream ==
    \A c \in Clients :
        \E at \in [DOMAIN frames[c] -> DOMAIN stream] :
            /\ \A k \in DOMAIN frames[c] : stream[at[k]] = frames[c][k]
            /\ \A j, k \in DOMAIN frames[c] :
                  j < k => /\ at[j] < at[k]
                           /\ frames[c][j] = frames[c][k] =>
                                Cardinality(OthersBetween(frames[c][j], at[j], at[k]))
                                    >= SeenEventLimit

\* Once a first message has set the cursor, every event of the workspace that the
\* stream gets reaches a connected client, or its response ends, or the replica is degraded.
Ahead(i) == cursor # FromNow /\ ~IsSeen(i) /\ \E k \in DOMAIN stream : k > cursor /\ stream[k] = i

Heard(c, i) == \E k \in DOMAIN frames[c] : frames[c][k] = i

EveryEventIsHeard ==
    \A c \in Clients : \A i \in 1..MaxEvents :
        redis /\ Open(c) /\ Ahead(i) /\ OfWorkspace(i) ~> Heard(c, i) \/ ~Open(c) \/ ~redis
=============================================================================
