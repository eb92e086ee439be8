--------------------------- MODULE LiveEventsProofs ---------------------------
(***************************************************************************)
(* Proofs about LiveEvents, for every set of clients, every batch size,    *)
(* and every number of events, repeats and troubles.                       *)
(*                                                                         *)
(* The argument: whoever is a member now was one at the last commit        *)
(* (MembersAreCurrent), so a membership that is read after an event was    *)
(* handed out covers it, and goes on covering it when the member is        *)
(* removed before the event is written (WritesAreCovered).  The second     *)
(* part, on the order of frames, has its argument before it.               *)
(***************************************************************************)
EXTENDS LiveEvents, FiniteSetTheorems, SequenceTheorems, TLAPS

MembersAreCurrent ==
    \A c \in Clients : until[c] <= Len(log) /\ (c \in members => until[c] = Len(log))

\* What is on the stream, or handed out, was committed.
OnlyCommitted ==
    /\ \A k \in DOMAIN stream : stream[k] \in Events
    /\ \A c \in Clients : \A k \in DOMAIN client[c].chain : client[c].chain[k] \in Events

\* The reader's places are on the stream.
PlacesOnStream ==
    /\ cursor <= Len(stream) /\ reader.from <= Len(stream) /\ reader.to <= Len(stream)
    /\ reader.at = "consuming" => reader.from < reader.to

WritesAreCovered == \A c \in Clients : client[c].read => Pending(c) /\ First(c) <= until[c]

IInv ==
    TypeOK /\ MembersAreCurrent /\ OnlyCommitted /\ PlacesOnStream
    /\ WritesAreCovered /\ NothingAfterRevocation

LEMMA InitIInv == Init => IInv
<1> SUFFICES ASSUME Init PROVE IInv
  OBVIOUS
<1>1. TypeOK
  BY DEF Init, TypeOK, Event, Response, Closed, FromNow
<1> QED
  BY <1>1 DEF Init, IInv, MembersAreCurrent, OnlyCommitted, PlacesOnStream, WritesAreCovered,
      NothingAfterRevocation, Closed, FromNow, Events

\* A commit adds an event after all others, and takes no member's past away.
LEMMA CommitKeeps ==
    ASSUME IInv, NEW event \in Event, NEW now \in SUBSET Clients, Committed(event, now)
    PROVE  IInv'
<1> USE DEF IInv
<1>1. /\ Len(log') = Len(log) + 1 /\ log' \in Seq(Event) /\ Len(log) \in Nat
      /\ \A c \in Clients : until[c] <= until'[c]
      /\ UNCHANGED <<stream, redis, cursor, reader, seen, client, frames, troubles>>
  BY DEF Committed, TypeOK, MembersAreCurrent, delivery
<1>2. TypeOK' /\ MembersAreCurrent'
  BY <1>1 DEF Committed, TypeOK, MembersAreCurrent
<1>3. OnlyCommitted'
  BY <1>1 DEF OnlyCommitted, Events
<1>4. PlacesOnStream'
  BY <1>1 DEF PlacesOnStream
<1>5. WritesAreCovered'
  <2>1. ASSUME NEW c \in Clients, client'[c].read
        PROVE  Pending(c)' /\ First(c)' <= until'[c]
    <3>1. client[c].read /\ Pending(c) /\ First(c) <= until[c] /\ First(c)' = First(c) /\ (Pending(c) <=> Pending(c)')
      BY <1>1, <2>1 DEF WritesAreCovered, Pending, Open, First
    <3>2. First(c) \in Nat
      <4>1. client[c].chain \in Seq(Nat) /\ client[c].chain # <<>>
        BY <3>1 DEF TypeOK, Response, Pending
      <4> QED
        BY <4>1 DEF First
    <3>3. until[c] \in Nat /\ until'[c] \in Nat
      BY <1>2 DEF TypeOK
    <3> QED
      BY <1>1, <3>1, <3>2, <3>3
  <2> QED
    BY <2>1 DEF WritesAreCovered
<1>6. NothingAfterRevocation'
  <2>1. ASSUME NEW c \in Clients, NEW k \in DOMAIN frames[c]
        PROVE  frames[c][k] <= until'[c]
    <3>1. until[c] \in Nat /\ until'[c] \in Nat
      BY <1>2 DEF TypeOK
    <3>2. frames[c] \in Seq(Nat)
      BY DEF TypeOK
    <3>3. frames[c][k] \in Nat
      BY <2>1, <3>2
    <3> QED
      BY <1>1, <2>1, <3>1, <3>3 DEF NothingAfterRevocation
  <2> QED
    BY <1>1, <2>1 DEF NothingAfterRevocation
<1> QED
  BY <1>2, <1>3, <1>4, <1>5, <1>6

LEMMA PublishKeeps ==
    ASSUME IInv, NEW i \in Events, stream' = Append(stream, i), troubles' \in Nat,
           UNCHANGED <<database, delivery, client, frames>>
    PROVE  IInv'
<1> USE DEF IInv
<1>1. /\ stream \in Seq(Nat) /\ i \in Nat /\ Len(stream) \in Nat
      /\ UNCHANGED <<log, members, until, redis, cursor, reader, seen, client, frames>>
  BY DEF TypeOK, Events, database, delivery
<1>2. /\ stream' \in Seq(Nat) /\ Len(stream') = Len(stream) + 1
      /\ \A k \in DOMAIN stream' : stream'[k] = i \/ (k \in DOMAIN stream /\ stream'[k] = stream[k])
  BY <1>1
<1>3. TypeOK' /\ MembersAreCurrent' /\ WritesAreCovered' /\ NothingAfterRevocation'
  BY <1>1, <1>2 DEF TypeOK, MembersAreCurrent, WritesAreCovered, Pending, Open, First, NothingAfterRevocation
<1>4. OnlyCommitted'
  BY <1>1, <1>2 DEF OnlyCommitted, Events
<1>5. PlacesOnStream'
  BY <1>1, <1>2 DEF PlacesOnStream, TypeOK, FromNow
<1> QED
  BY <1>3, <1>4, <1>5

LEMMA ReaderKeeps ==
    ASSUME IInv, XRead \/ Timeout \/ Reply \/ RedisFails
    PROVE  IInv'
<1> USE DEF IInv
<1>1. /\ UNCHANGED <<log, members, until, stream, cursor, seen, client, frames>>
      /\ redis' \in BOOLEAN /\ troubles' \in Nat
  <2>1. redis \in BOOLEAN /\ troubles \in Nat
    BY DEF TypeOK
  <2>2. CASE XRead
    BY <2>1, <2>2 DEF XRead, database
  <2>3. CASE Timeout
    BY <2>1, <2>3 DEF Timeout, database
  <2>4. CASE Reply
    BY <2>1, <2>4 DEF Reply, database
  <2>5. CASE RedisFails
    <3>1. redis' = FALSE /\ troubles' = troubles + 1
      BY <2>5 DEF RedisFails, Trouble
    <3>2. UNCHANGED <<log, members, until, stream, cursor, seen, client, frames>>
      BY <2>5 DEF RedisFails, database
    <3>3. redis' \in BOOLEAN
      BY <3>1
    <3>4. troubles' \in Nat
      BY <2>1, <3>1
    <3> QED
      BY <3>2, <3>3, <3>4
  <2> QED
    BY <2>2, <2>3, <2>4, <2>5
<1>2. reader' \in [at : {"idle", "blocked", "consuming"}, from : Nat, to : Nat]
      /\ reader'.from <= Len(stream) /\ reader'.to <= Len(stream)
      /\ (reader'.at = "consuming" => reader'.from < reader'.to)
  <2>1. Len(stream) \in Nat /\ reader.from \in Nat /\ reader.to \in Nat
        /\ reader \in [at : {"idle", "blocked", "consuming"}, from : Nat, to : Nat]
        /\ (cursor # FromNow => cursor \in Nat)
    BY DEF TypeOK
  <2>2. CASE XRead
    <3>1. PICK from \in Nat : from <= Len(stream) /\ reader' = [at |-> "blocked", from |-> from, to |-> from]
      <4>1. CASE cursor = FromNow
        BY <2>1, <2>2, <4>1 DEF XRead
      <4>2. CASE cursor # FromNow
        BY <2>1, <2>2, <4>2 DEF XRead, PlacesOnStream
      <4> QED
        BY <4>1, <4>2
    <3> QED
      BY <3>1
  <2>3. CASE Timeout \/ RedisFails
    BY <2>1, <2>3 DEF Timeout, RedisFails, PlacesOnStream
  <2>4. CASE Reply
    <3>1. PICK to \in Int : /\ reader.from < to /\ to <= Len(stream)
                            /\ reader' = [reader EXCEPT !.at = "consuming", !.to = to]
      <4>1. PICK to \in (reader.from + 1)..Len(stream) : reader' = [reader EXCEPT !.at = "consuming", !.to = to]
        BY <2>4 DEF Reply
      <4>2. to \in Int /\ reader.from < to /\ to <= Len(stream)
        BY <2>1, <4>1
      <4> QED
        BY <4>1, <4>2
    <3>2. to \in Nat /\ reader'.from = reader.from /\ reader'.to = to
      BY <2>1, <3>1
    <3>3. reader' \in [at : {"idle", "blocked", "consuming"}, from : Nat, to : Nat]
      BY <2>1, <3>1, <3>2
    <3> QED
      BY <2>1, <3>1, <3>2, <3>3 DEF PlacesOnStream
  <2> QED
    BY <2>2, <2>3, <2>4
<1>3. TypeOK'
  BY <1>1, <1>2 DEF TypeOK
<1>4. MembersAreCurrent' /\ OnlyCommitted' /\ WritesAreCovered' /\ NothingAfterRevocation'
  BY <1>1 DEF MembersAreCurrent, OnlyCommitted, Events, WritesAreCovered, Pending, Open, First, NothingAfterRevocation
<1>5. PlacesOnStream'
  BY <1>1, <1>2 DEF PlacesOnStream
<1> QED
  BY <1>3, <1>4, <1>5

\* An event is appended behind the one that may be about to be written.
LEMMA ConsumeKeeps ==
    ASSUME IInv, Consume
    PROVE  IInv'
<1> USE DEF IInv
<1> DEFINE next == reader.from + 1
<1>1. /\ next \in DOMAIN stream /\ next \in Nat /\ next <= reader.to /\ next <= Len(stream)
      /\ reader.to \in Nat /\ Len(stream) \in Nat
  BY DEF Consume, TypeOK, PlacesOnStream
<1>2. PICK i \in Events : i = stream[next]
  BY <1>1 DEF OnlyCommitted
<1>3. /\ UNCHANGED <<log, members, until, stream, redis, frames, troubles>>
      /\ cursor' = next
      /\ reader' = [reader EXCEPT !.from = next, !.at = IF next = reader.to THEN "idle" ELSE @]
      /\ (UNCHANGED <<seen, client>>) \/ (seen' = AddSeen(i) /\ Dispatch(i))
  BY <1>2 DEF Consume, database
<1>4. /\ reader' \in [at : {"idle", "blocked", "consuming"}, from : Nat, to : Nat]
      /\ reader'.from = next /\ reader'.to = reader.to
      /\ (reader'.at = "consuming" => next # reader.to)
  BY <1>1, <1>3 DEF TypeOK
<1>5. PlacesOnStream'
  BY <1>1, <1>3, <1>4 DEF PlacesOnStream
<1>6. seen' \in Seq(Nat)
  <2>1. i \in Nat /\ seen \in Seq(Nat) /\ SeenEventLimit \in Nat \ {0}
    BY <1>2, LiveEventsAssumption DEF TypeOK, Events
  <2>2. CASE Len(seen) < SeenEventLimit
    BY <1>3, <2>1, <2>2 DEF AddSeen
  <2>3. CASE ~(Len(seen) < SeenEventLimit)
    <3>1. seen # <<>>
      BY <2>1, <2>3
    <3>2. Append(Tail(seen), i) \in Seq(Nat)
      BY <2>1, <3>1
    <3> QED
      BY <1>3, <2>1, <2>3, <3>2 DEF AddSeen
  <2> QED
    BY <2>2, <2>3
<1>7. ASSUME NEW c \in Clients
      PROVE  /\ client'[c] \in Response /\ client'[c].at = client[c].at /\ client'[c].read = client[c].read
             /\ (client'[c].chain = client[c].chain) \/ (client'[c].chain = Append(client[c].chain, i))
             /\ client[c] \in Response
  <2>1. client[c] \in Response /\ i \in Nat
    BY <1>2 DEF TypeOK, Events
  <2>2. CASE client'[c] = client[c]
    BY <2>1, <2>2
  <2>3. CASE client'[c] = [client[c] EXCEPT !.chain = Append(client[c].chain, i)]
    <3>1. Append(client[c].chain, i) \in Seq(Nat)
      BY <2>1 DEF Response
    <3> QED
      BY <2>1, <2>3, <3>1 DEF Response
  <2> QED
    BY <1>3, <2>2, <2>3 DEF Dispatch
<1>8. client' \in [Clients -> Response]
  BY <1>3, <1>7 DEF Dispatch, TypeOK
<1>9. TypeOK' /\ MembersAreCurrent' /\ NothingAfterRevocation'
  BY <1>1, <1>3, <1>4, <1>6, <1>8 DEF TypeOK, MembersAreCurrent, NothingAfterRevocation
<1>10. OnlyCommitted'
  <2>1. ASSUME NEW c \in Clients, NEW k \in DOMAIN client'[c].chain
        PROVE  client'[c].chain[k] \in Events
    <3>1. client[c].chain \in Seq(Nat) /\ i \in Nat
      BY <1>2, <1>7 DEF Response, Events
    <3>2. client'[c].chain[k] = i \/ (k \in DOMAIN client[c].chain /\ client'[c].chain[k] = client[c].chain[k])
      <4>1. CASE client'[c].chain = client[c].chain
        BY <2>1, <4>1
      <4>2. CASE client'[c].chain = Append(client[c].chain, i)
        BY <2>1, <3>1, <4>2
      <4> QED
        BY <1>7, <4>1, <4>2
    <3> QED
      BY <1>2, <3>2 DEF OnlyCommitted
  <2>2. \A k \in DOMAIN stream' : stream'[k] \in Events
    BY <1>3 DEF OnlyCommitted
  <2>3. Events' = Events
    BY <1>3 DEF Events
  <2> QED
    BY <2>1, <2>2, <2>3 DEF OnlyCommitted
<1>11. WritesAreCovered'
  <2>1. ASSUME NEW c \in Clients, client'[c].read
        PROVE  Pending(c)' /\ First(c)' <= until'[c]
    <3>1. Open(c) /\ client[c].chain # <<>> /\ First(c) <= until[c] /\ client[c].chain \in Seq(Nat) /\ i \in Nat
      BY <1>2, <1>7, <2>1 DEF WritesAreCovered, Pending, Response, Events
    <3>2. client'[c].chain # <<>> /\ Head(client'[c].chain) = Head(client[c].chain)
      BY <1>7, <3>1
    <3> QED
      BY <1>3, <1>7, <3>1, <3>2 DEF Pending, Open, First
  <2> QED
    BY <2>1 DEF WritesAreCovered
<1> QED
  BY <1>5, <1>9, <1>10, <1>11

\* The steps of one response.
LEMMA ResponseKeeps ==
    ASSUME IInv, NEW c \in Clients,
           Connect(c) \/ Subscribe(c) \/ ResponseStep(c) \/ Disconnect(c)
    PROVE  IInv'
<1> USE DEF IInv
<1>1. /\ UNCHANGED <<log, members, until, stream, redis, cursor, reader, seen>>
      /\ troubles' \in Nat
  BY DEF Connect, Subscribe, ResponseStep, ReadMember, Write, WriteRemoval, Disconnect, Trouble,
         TypeOK, database, delivery
<1>2. client[c] \in Response /\ frames[c] \in Seq(Nat) /\ until[c] \in Nat
  BY DEF TypeOK
<1>3. /\ client' = [client EXCEPT ![c] = client'[c]]
      /\ frames' = [frames EXCEPT ![c] = frames'[c]]
  BY DEF Connect, Subscribe, ResponseStep, ReadMember, Write, WriteRemoval, Disconnect, End, TypeOK
<1>4. \A o \in Clients \ {c} : client'[o] = client[o] /\ frames'[o] = frames[o]
  BY <1>3 DEF TypeOK
<1> DEFINE Good(r, f) ==
      /\ r \in Response /\ f \in Seq(Nat)
      /\ \A k \in DOMAIN r.chain : r.chain[k] \in Events
      /\ (r.read => (r.at = "open" /\ r.chain # <<>> /\ Head(r.chain) <= until[c]))
      /\ \A k \in DOMAIN f : f[k] <= until[c]
<1>5. Good(client[c], frames[c])
  BY <1>2 DEF OnlyCommitted, WritesAreCovered, Pending, Open, First, NothingAfterRevocation
<1>6. Good(client'[c], frames'[c])
  <2>1. CASE End(c)
    <3>1. client'[c] = Closed /\ frames'[c] = <<>>
      BY <2>1 DEF End, TypeOK
    <3>2. Closed \in Response /\ <<>> \in Seq(Nat) /\ Closed.chain = <<>> /\ ~Closed.read
      BY DEF Closed, Response
    <3>3. (\A k \in DOMAIN Closed.chain : Closed.chain[k] \in Events) /\ (\A k \in DOMAIN <<>> : <<>>[k] <= until[c])
      BY <3>2
    <3>4. Good(Closed, <<>>)
      BY <3>2, <3>3
    <3>5. \A r, f : r = Closed /\ f = <<>> => Good(r, f)
      <4> HIDE DEF Good
      <4> QED
        BY <3>4
    <3> HIDE DEF Good
    <3> QED
      BY <3>1, <3>5
  <2>2. CASE Connect(c) \/ Subscribe(c)
    <3>1. frames'[c] = frames[c] /\ client'[c] \in {Opened("admitted"), Opened("open")}
      BY <2>2 DEF Connect, Subscribe, TypeOK
    <3>2. PICK r \in Response : client'[c] = r /\ r.chain = <<>> /\ ~r.read
      <4>1. ASSUME NEW at \in {"admitted", "open"}
            PROVE  Opened(at) \in Response /\ Opened(at).chain = <<>> /\ ~Opened(at).read
        BY DEF Opened, Response
      <4> QED
        BY <3>1, <4>1
    <3>3. \A k \in DOMAIN r.chain : r.chain[k] \in Events
      BY <3>2
    <3>4. Good(r, frames[c])
      BY <1>5, <3>2, <3>3
    <3> HIDE DEF Good
    <3> QED
      BY <3>1, <3>2, <3>4
  <2>3. CASE ReadMember(c) /\ IsMember(c)
    <3>1. client'[c] = [client[c] EXCEPT !.read = TRUE] /\ frames'[c] = frames[c] /\ Pending(c)
      BY <2>3 DEF ReadMember, TypeOK
    <3>2. until[c] = Len(log)
      BY <2>3 DEF IsMember, MembersAreCurrent
    <3>3. /\ client'[c].chain = client[c].chain /\ client'[c].at = "open" /\ client'[c] \in Response
          /\ client[c].chain # <<>> /\ client[c].chain \in Seq(Nat)
      BY <1>2, <3>1 DEF Response, Pending, Open
    <3>4. Head(client[c].chain) \in Events
      BY <3>3 DEF OnlyCommitted
    <3>5. Head(client[c].chain) <= until[c]
      BY <3>2, <3>4 DEF Events, TypeOK
    <3> QED
      BY <1>5, <3>1, <3>3, <3>5
  <2>4. CASE Write(c)
    <3>1. /\ client'[c] = [client[c] EXCEPT !.chain = Tail(client[c].chain), !.read = FALSE]
          /\ frames'[c] = Append(frames[c], First(c)) /\ Pending(c) /\ client[c].read
      BY <2>4 DEF Write, TypeOK
    <3>2. client[c].chain \in Seq(Nat) /\ client[c].chain # <<>> /\ First(c) \in Nat /\ First(c) <= until[c]
      BY <1>2, <1>5, <3>1 DEF Response, Pending, First
    <3>3. /\ Tail(client[c].chain) \in Seq(Nat)
          /\ \A k \in DOMAIN Tail(client[c].chain) :
                k + 1 \in DOMAIN client[c].chain /\ Tail(client[c].chain)[k] = client[c].chain[k + 1]
      BY <3>2
    <3>4. /\ client'[c] \in Response /\ ~client'[c].read /\ client'[c].chain = Tail(client[c].chain)
      BY <1>2, <3>1, <3>3 DEF Response
    <3>5. \A k \in DOMAIN client'[c].chain : client'[c].chain[k] \in Events
      BY <1>5, <3>3, <3>4
    <3>6. frames'[c] \in Seq(Nat) /\ \A k \in DOMAIN frames'[c] : frames'[c][k] <= until[c]
      BY <1>2, <1>5, <3>1, <3>2
    <3> QED
      BY <3>4, <3>5, <3>6
  <2> QED
    BY <2>1, <2>2, <2>3, <2>4 DEF ResponseStep, ReadMember, WriteRemoval, Disconnect
<1> HIDE DEF Good
<1>7. /\ client'[c] \in Response /\ frames'[c] \in Seq(Nat)
      /\ \A k \in DOMAIN client'[c].chain : client'[c].chain[k] \in Events
      /\ client'[c].read => client'[c].at = "open" /\ client'[c].chain # <<>> /\ Head(client'[c].chain) <= until[c]
      /\ \A k \in DOMAIN frames'[c] : frames'[c][k] <= until[c]
  BY <1>6 DEF Good
<1>8. TypeOK'
  <2>1. client' \in [Clients -> Response] /\ frames' \in [Clients -> Seq(Nat)]
    BY <1>3, <1>7 DEF TypeOK
  <2> QED
    BY <1>1, <2>1 DEF TypeOK
<1>9. MembersAreCurrent' /\ PlacesOnStream'
  BY <1>1 DEF MembersAreCurrent, PlacesOnStream
<1>10. OnlyCommitted'
  <2>1. Events' = Events /\ \A k \in DOMAIN stream' : stream'[k] \in Events
    BY <1>1 DEF Events, OnlyCommitted
  <2>2. ASSUME NEW o \in Clients, NEW k \in DOMAIN client'[o].chain
        PROVE  client'[o].chain[k] \in Events
    BY <1>4, <1>7 DEF OnlyCommitted
  <2> QED
    BY <2>1, <2>2 DEF OnlyCommitted
<1>11. WritesAreCovered'
  BY <1>1, <1>4, <1>7 DEF WritesAreCovered, Pending, Open, First
<1>12. NothingAfterRevocation'
  BY <1>1, <1>4, <1>7 DEF NothingAfterRevocation
<1> QED
  BY <1>8, <1>9, <1>10, <1>11, <1>12

LEMMA RestartKeeps == IInv /\ Restart => IInv'
<1> SUFFICES ASSUME IInv, Restart PROVE IInv'
  OBVIOUS
<1> USE DEF IInv
<1>1. UNCHANGED <<log, members, until, stream>> /\ troubles' \in Nat
  BY DEF Restart, Trouble, TypeOK, database
<1>2. TypeOK'
  BY <1>1 DEF Restart, TypeOK, Response, Closed, FromNow
<1>3. MembersAreCurrent' /\ NothingAfterRevocation' /\ WritesAreCovered'
  BY <1>1 DEF Restart, MembersAreCurrent, NothingAfterRevocation, WritesAreCovered, Closed
<1>4. OnlyCommitted' /\ PlacesOnStream'
  BY <1>1 DEF Restart, OnlyCommitted, Events, PlacesOnStream, Closed, FromNow, TypeOK
<1> QED
  BY <1>2, <1>3, <1>4

LEMMA NextIInv == IInv /\ [Next]_vars => IInv'
<1> SUFFICES ASSUME IInv, [Next]_vars PROVE IInv'
  OBVIOUS
<1>0. members \subseteq Clients /\ troubles \in Nat
  BY DEF IInv, TypeOK
<1>1. CASE Update \/ UpdateElsewhere
  BY <1>0, <1>1, CommitKeeps DEF Update, UpdateElsewhere, Event
<1>2. ASSUME NEW c \in Clients, Add(c)
      PROVE  IInv'
  <2>1. [kind |-> "added", who |-> c] \in Event /\ members \cup {c} \in SUBSET Clients
    BY <1>0 DEF Event
  <2> QED
    BY <1>2, <2>1, CommitKeeps DEF Add
<1>3. ASSUME NEW c \in Clients, Remove(c)
      PROVE  IInv'
  <2>1. [kind |-> "removed", who |-> c] \in Event /\ members \ {c} \in SUBSET Clients
    BY <1>0 DEF Event
  <2> QED
    BY <1>3, <2>1, CommitKeeps DEF Remove
<1>4. ASSUME NEW i \in Events, Publish(i) \/ PublishAgain(i)
      PROVE  IInv'
  BY <1>0, <1>4, PublishKeeps DEF Publish, PublishAgain
<1>5. CASE ReaderStep \/ Timeout \/ RedisFails
  BY <1>5, ReaderKeeps, ConsumeKeeps DEF ReaderStep
<1>6. CASE Restart
  BY <1>6, RestartKeeps
<1>7. ASSUME NEW c \in Clients, Connect(c) \/ Subscribe(c) \/ ResponseStep(c) \/ Disconnect(c)
      PROVE  IInv'
  BY <1>7, ResponseKeeps
<1>8. CASE UNCHANGED vars
  BY <1>8 DEF vars, database, delivery, IInv, TypeOK, MembersAreCurrent, OnlyCommitted, Events, PlacesOnStream,
              WritesAreCovered, Pending, Open, First, NothingAfterRevocation
<1> QED
  BY <1>1, <1>2, <1>3, <1>4, <1>5, <1>6, <1>7, <1>8 DEF Next

LEMMA InductiveInvariant == Spec => []IInv
BY InitIInv, NextIInv, PTL DEF Spec

\* Tables, stream, reader and responses keep their type.
THEOREM TypeCorrect == Spec => []TypeOK
BY InductiveInvariant, PTL DEF IInv

\* NothingAfterRevocation: no response gets an event that was committed after its user
\* was removed (GET /workspaces/:id/events), for any order of the stream, any delay of
\* the replica and any removal between the reading of the membership and the write.
THEOREM RevokedClientsHearNothingNew == Spec => []NothingAfterRevocation
BY InductiveInvariant, PTL DEF IInv

-----------------------------------------------------------------------------
(* The order of frames.  What a response was handed, written or not, has       *)
(* places on the part of the stream that was read (Line), in its order.  Each  *)
(* of these events is still among the ones remembered, and the ones remembered *)
(* after it came after it; or it was forgotten, and then SeenEventLimit others *)
(* have come since its place (Held): the ones remembered when it went.         *)

\* What s has between the places p and q, other than i.
Between(s, i, p, q) == {s[k] : k \in (p + 1)..(q - 1)} \ {i}

Apart(s, i, p, q) == Cardinality(Between(s, i, p, q)) >= SeenEventLimit

\* The event i of place p is in the memory b, with what came after it, or is far behind
\* the next place, n + 1.
Held(i, p, b, s, n) ==
    \/ \E m \in DOMAIN b : /\ b[m] = i
                           /\ \A o \in DOMAIN b : o > m => \E k \in (p + 1)..n : s[k] = b[o]
    \/ Apart(s, i, p, n + 1)

Placed(at, l, b, s, n) ==
    /\ \A k \in DOMAIN l : s[at[k]] = l[k] /\ Held(l[k], at[k], b, s, n)
    /\ \A j, k \in DOMAIN l :
          j < k => at[j] < at[k] /\ (l[j] = l[k] => Apart(s, l[j], at[j], at[k]))

\* l came, in order, among the first n of s.
Line(l, b, s, n) == l \in Seq(Nat) /\ \E at \in [DOMAIN l -> 1..n] : Placed(at, l, b, s, n)

\* b is a memory: a bounded list without repetitions.
Memory(b) ==
    /\ b \in Seq(Nat) /\ Len(b) <= SeenEventLimit
    /\ \A j, k \in DOMAIN b : b[j] = b[k] => j = k

LEMMA BetweenIsFinite ==
    ASSUME NEW N \in Nat, NEW s \in Seq(1..N), NEW i, NEW p \in Nat, NEW q \in Int, q - 1 <= Len(s)
    PROVE  IsFiniteSet(Between(s, i, p, q)) /\ Cardinality(Between(s, i, p, q)) \in Nat
<1>1. \A k \in (p + 1)..(q - 1) : s[k] \in 1..N
  <2>1. \A k \in (p + 1)..(q - 1) : k \in 1..Len(s)
    OBVIOUS
  <2> QED
    BY <2>1
<1>2. Between(s, i, p, q) \in SUBSET Nat /\ \A x \in Between(s, i, p, q) : x <= N
  BY <1>1 DEF Between
<1>3. IsFiniteSet(Between(s, i, p, q))
  BY <1>2, FS_BoundedSetOfNaturals
<1> QED
  BY <1>3, FS_CardinalityType

\* What is apart stays so: for a later place, in a stream t that has grown from s.
LEMMA ApartGrows ==
    ASSUME NEW N \in Nat, NEW s, NEW t \in Seq(1..N), NEW i, NEW p \in Nat,
           NEW q \in Int, NEW r \in Int, q <= r, r - 1 <= Len(t),
           \A k \in (p + 1)..(q - 1) : t[k] = s[k], Apart(s, i, p, q)
    PROVE  Apart(t, i, p, r)
<1>1. Between(s, i, p, q) \subseteq Between(t, i, p, r)
  <2>1. \A k \in (p + 1)..(q - 1) : k \in (p + 1)..(r - 1) /\ t[k] = s[k]
    OBVIOUS
  <2> QED
    BY <2>1 DEF Between
<1>2. IsFiniteSet(Between(t, i, p, r)) /\ Cardinality(Between(t, i, p, r)) \in Nat
  BY BetweenIsFinite
<1>3. /\ IsFiniteSet(Between(s, i, p, q))
      /\ Cardinality(Between(s, i, p, q)) <= Cardinality(Between(t, i, p, r))
  BY <1>1, <1>2, FS_Subset
<1>4. Cardinality(Between(s, i, p, q)) \in Nat
  BY <1>3, FS_CardinalityType
<1>5. SeenEventLimit \in Nat /\ Cardinality(Between(s, i, p, q)) >= SeenEventLimit
  BY LiveEventsAssumption DEF Apart
<1> HIDE DEF Between
<1> QED
  BY <1>2, <1>3, <1>4, <1>5 DEF Apart

\* The first n of s, and the first m of a stream t that s has grown to.
LEMMA Grow ==
    ASSUME NEW N \in Nat, NEW s, NEW t \in Seq(1..N),
           NEW n \in Nat, NEW m \in Nat, n <= m, m <= Len(t), \A k \in 1..n : t[k] = s[k],
           NEW l, NEW b, Line(l, b, s, n)
    PROVE  Line(l, b, t, m)
<1>1. PICK at \in [DOMAIN l -> 1..n] : Placed(at, l, b, s, n)
  BY DEF Line
<1>2. 1..n \subseteq 1..m /\ at \in [DOMAIN l -> 1..m]
  BY <1>1
<1>3. ASSUME NEW k \in DOMAIN l
      PROVE  t[at[k]] = l[k] /\ Held(l[k], at[k], b, t, m)
  <2>1. /\ at[k] \in 1..n /\ s[at[k]] = l[k] /\ Held(l[k], at[k], b, s, n)
    BY <1>1 DEF Placed
  <2>2. CASE Apart(s, l[k], at[k], n + 1)
    <3>1. \A x \in (at[k] + 1)..((n + 1) - 1) : t[x] = s[x]
      <4>1. \A x \in (at[k] + 1)..((n + 1) - 1) : x \in 1..n
        BY <2>1
      <4> QED
        BY <4>1
    <3>2. at[k] \in Nat /\ n + 1 \in Int /\ m + 1 \in Int /\ n + 1 <= m + 1 /\ (m + 1) - 1 <= Len(t)
      BY <2>1
    <3>3. Apart(t, l[k], at[k], m + 1)
      BY <2>2, <3>1, <3>2, ApartGrows
    <3> QED
      BY <2>1, <3>3 DEF Held
  <2>3. CASE \E o \in DOMAIN b : /\ b[o] = l[k]
                                 /\ \A x \in DOMAIN b : x > o => \E y \in (at[k] + 1)..n : s[y] = b[x]
    <3>1. \A y \in (at[k] + 1)..n : y \in (at[k] + 1)..m /\ t[y] = s[y]
      BY <2>1
    <3>2. PICK o \in DOMAIN b : /\ b[o] = l[k]
                                /\ \A x \in DOMAIN b : x > o => \E y \in (at[k] + 1)..n : s[y] = b[x]
      BY <2>3
    <3>3. \A x \in DOMAIN b : x > o => \E y \in (at[k] + 1)..m : t[y] = b[x]
      BY <3>1, <3>2
    <3> QED
      BY <2>1, <3>2, <3>3 DEF Held
  <2> QED
    BY <2>1, <2>2, <2>3 DEF Held
<1>4. ASSUME NEW j \in DOMAIN l, NEW k \in DOMAIN l, j < k
      PROVE  at[j] < at[k] /\ (l[j] = l[k] => Apart(t, l[j], at[j], at[k]))
  <2>1. /\ at[j] \in 1..n /\ at[k] \in 1..n /\ at[j] < at[k]
        /\ l[j] = l[k] => Apart(s, l[j], at[j], at[k])
    BY <1>1, <1>4 DEF Placed
  <2>2. ASSUME l[j] = l[k]
        PROVE  Apart(t, l[j], at[j], at[k])
    <3>1. /\ at[j] \in Nat /\ at[k] \in Int /\ at[k] <= at[k] /\ at[k] - 1 <= Len(t)
          /\ \A x \in (at[j] + 1)..(at[k] - 1) : t[x] = s[x]
      <4>1. PICK p \in 1..n, q \in 1..n : p = at[j] /\ q = at[k]
        BY <2>1
      <4>2. PICK z \in Nat : z = Len(t) /\ m <= z
        OBVIOUS
      <4>3. q - 1 <= z
        BY <4>2
      <4>4. \A x \in (p + 1)..(q - 1) : x \in 1..n
        OBVIOUS
      <4>5. \A x \in (p + 1)..(q - 1) : t[x] = s[x]
        BY <4>4
      <4> QED
        BY <4>1, <4>2, <4>3, <4>5
    <3>2. Apart(s, l[j], at[j], at[k])
      BY <2>1, <2>2
    <3> QED
      BY <3>1, <3>2, ApartGrows
  <2> QED
    BY <2>1, <2>2
<1>5. Placed(at, l, b, t, m)
  BY <1>3, <1>4 DEF Placed
<1> QED
  BY <1>2, <1>5 DEF Line

LEMMA AppendedOnce ==
    ASSUME NEW l \in Seq(Nat), NEW i \in Nat
    PROVE  /\ Append(l, i) \in Seq(Nat) /\ Append(l, i)[Len(l) + 1] = i
           /\ DOMAIN Append(l, i) = 1..(Len(l) + 1) /\ Len(l) \in Nat
           /\ \A k \in DOMAIN Append(l, i) : k = Len(l) + 1 \/ (k \in DOMAIN l /\ Append(l, i)[k] = l[k])
           /\ DOMAIN l = 1..Len(l)
<1>1. Len(l) \in Nat /\ DOMAIN l = 1..Len(l)
  OBVIOUS
<1>2. /\ Append(l, i) \in Seq(Nat) /\ Len(Append(l, i)) = Len(l) + 1 /\ Append(l, i)[Len(l) + 1] = i
      /\ \A k \in 1..Len(l) : Append(l, i)[k] = l[k]
  BY AppendProperties
<1>3. DOMAIN Append(l, i) = 1..(Len(l) + 1)
  BY <1>2
<1>4. \A k \in 1..(Len(l) + 1) : k = Len(l) + 1 \/ k \in 1..Len(l)
  <2>1. PICK x \in Nat : x = Len(l)
    BY <1>1
  <2>2. \A k \in 1..(x + 1) : k = x + 1 \/ k \in 1..x
    OBVIOUS
  <2> QED
    BY <2>1, <2>2
<1> QED
  BY <1>1, <1>2, <1>3, <1>4

\* What BoundedSet.add returns.
Added(b, i) == IF Len(b) < SeenEventLimit THEN Append(b, i) ELSE Append(Tail(b), i)

LEMMA AddedShifts ==
    ASSUME NEW b \in Seq(Nat), NEW i \in Nat, Len(b) <= SeenEventLimit
    PROVE  \E d \in Nat :
             /\ d <= 1 /\ Added(b, i) \in Seq(Nat) /\ Len(Added(b, i)) = Len(b) + 1 - d
             /\ Len(b) + 1 - d \in 1..SeenEventLimit
             /\ (d = 1 => Len(b) = SeenEventLimit)
             /\ \A k \in 1..Len(b) - d : Added(b, i)[k] = b[k + d]
             /\ Added(b, i)[Len(b) + 1 - d] = i
<1>1. SeenEventLimit \in Nat \ {0} /\ Len(b) \in Nat
  BY LiveEventsAssumption
<1>2. CASE Len(b) < SeenEventLimit
  <2>1. Added(b, i) = Append(b, i)
    BY <1>2 DEF Added
  <2> QED
    BY <1>1, <1>2, <2>1
<1>3. CASE ~(Len(b) < SeenEventLimit)
  <2>1. Added(b, i) = Append(Tail(b), i) /\ Len(b) = SeenEventLimit /\ b # <<>>
    BY <1>1, <1>3 DEF Added
  <2>2. Tail(b) \in Seq(Nat) /\ Len(Tail(b)) = Len(b) - 1 /\ \A k \in 1..Len(b) - 1 : Tail(b)[k] = b[k + 1]
    BY <2>1
  <2>3. /\ Append(Tail(b), i) \in Seq(Nat) /\ Len(Append(Tail(b), i)) = Len(b)
        /\ (\A k \in 1..Len(b) - 1 : Append(Tail(b), i)[k] = b[k + 1])
        /\ Append(Tail(b), i)[Len(b)] = i
    BY <1>1, <2>1, <2>2
  <2>4. Len(b) + 1 - 1 = Len(b) /\ Len(b) \in 1..SeenEventLimit
    BY <1>1, <2>1
  <2>5. Added(b, i) = Append(Tail(b), i)
    BY <2>1
  <2>6. 1 \in Nat /\ 1 <= 1
    OBVIOUS
  <2> HIDE DEF Added
  <2> QED
    BY <2>1, <2>3, <2>4, <2>5, <2>6
<1> QED
  BY <1>2, <1>3

\* The next event is not in the memory: it is now, and what goes for it is far behind.
LEMMA ConsumeNew ==
    ASSUME NEW N \in Nat, NEW s \in Seq(1..N), NEW n \in Nat, n + 1 <= Len(s),
           NEW b, Memory(b), \A k \in DOMAIN b : b[k] # s[n + 1]
    PROVE  /\ Memory(Added(b, s[n + 1]))
           /\ \A l : Line(l, b, s, n) =>
                /\ Line(l, Added(b, s[n + 1]), s, n + 1)
                /\ Line(Append(l, s[n + 1]), Added(b, s[n + 1]), s, n + 1)
<1> DEFINE a == Added(b, s[n + 1])
<1>1. /\ b \in Seq(Nat) /\ Len(b) <= SeenEventLimit /\ s[n + 1] \in 1..N /\ s[n + 1] \in Nat
      /\ Len(b) \in Nat /\ SeenEventLimit \in Nat /\ DOMAIN b = 1..Len(b) /\ Len(s) \in Nat
  BY LiveEventsAssumption DEF Memory
<1>2. PICK d \in Nat :
        /\ d <= 1 /\ a \in Seq(Nat) /\ Len(a) = Len(b) + 1 - d /\ Len(b) + 1 - d \in 1..SeenEventLimit
        /\ (d = 1 => Len(b) = SeenEventLimit)
        /\ \A k \in 1..Len(b) - d : a[k] = b[k + d]
        /\ a[Len(b) + 1 - d] = s[n + 1]
  BY <1>1, AddedShifts
<1> HIDE DEF a
<1>3. /\ DOMAIN a = 1..Len(a) /\ Len(a) \in Nat /\ Len(a) \in DOMAIN a /\ Len(a) <= SeenEventLimit
      /\ a[Len(a)] = s[n + 1]
  <2>1. DOMAIN a = 1..Len(a) /\ Len(a) \in Nat
    BY <1>2
  <2>2. Len(a) \in 1..SeenEventLimit
    BY <1>2
  <2>3. a[Len(a)] = s[n + 1]
    BY <1>2
  <2>4. Len(a) \in DOMAIN a /\ Len(a) <= SeenEventLimit
    BY <1>1, <2>1, <2>2
  <2> QED
    BY <2>1, <2>3, <2>4
<1>4. PICK y \in Nat : y = Len(b) /\ Len(a) = y + 1 - d /\ d <= y /\ (d = 1 => y = SeenEventLimit)
  <2>1. PICK y \in Nat : y = Len(b)
    BY <1>1
  <2>2. Len(a) = y + 1 - d /\ (d = 1 => y = SeenEventLimit) /\ (d = 0 \/ d = 1)
    BY <1>2, <2>1
  <2>3. d <= y
    BY <2>2, LiveEventsAssumption
  <2> QED
    BY <2>1, <2>2, <2>3
<1>5. ASSUME NEW k \in DOMAIN a, k # Len(a)
      PROVE  k \in 1..(y - d) /\ k + d \in DOMAIN b /\ a[k] = b[k + d]
  <2>1. k \in 1..(y + 1 - d) /\ k # y + 1 - d
    BY <1>3, <1>4, <1>5
  <2>2. k \in 1..(y - d)
    BY <1>4, <2>1
  <2>3. k + d \in 1..y
    BY <1>4, <2>2
  <2> QED
    BY <1>1, <1>2, <1>4, <2>2, <2>3
<1>6. \A j, k \in DOMAIN a : a[j] = a[k] => j = k
  <2> SUFFICES ASSUME NEW j \in DOMAIN a, NEW k \in DOMAIN a, a[j] = a[k]
               PROVE  j = k
    OBVIOUS
  <2>1. j = Len(a) \/ (j \in 1..(y - d) /\ a[j] = b[j + d] /\ j + d \in DOMAIN b)
    BY <1>5
  <2>2. k = Len(a) \/ (k \in 1..(y - d) /\ a[k] = b[k + d] /\ k + d \in DOMAIN b)
    BY <1>5
  <2>3. CASE j = Len(a)
    BY <1>3, <2>2, <2>3
  <2>4. CASE k = Len(a)
    BY <1>3, <2>1, <2>4
  <2>5. CASE j # Len(a) /\ k # Len(a)
    <3>1. b[j + d] = b[k + d]
      BY <2>1, <2>2, <2>5
    <3>2. j + d = k + d
      BY <2>1, <2>2, <2>5, <3>1 DEF Memory
    <3> QED
      BY <1>2, <2>1, <2>2, <2>5, <3>2
  <2> QED
    BY <2>3, <2>4, <2>5
<1>7. Memory(a)
  BY <1>2, <1>3, <1>6 DEF Memory
<1>8. ASSUME NEW p \in 1..n, NEW i, Held(i, p, b, s, n)
      PROVE  Held(i, p, a, s, n + 1)
  <2>1. CASE Apart(s, i, p, n + 1)
    <3>1. p \in Nat /\ n + 1 \in Int /\ (n + 1) + 1 \in Int /\ n + 1 <= (n + 1) + 1 /\ ((n + 1) + 1) - 1 <= Len(s)
      BY <1>1
    <3>2. Apart(s, i, p, (n + 1) + 1)
      BY <2>1, <3>1, ApartGrows
    <3> QED
      BY <3>2 DEF Held
  <2>2. CASE \E m \in DOMAIN b : /\ b[m] = i
                                 /\ \A o \in DOMAIN b : o > m => \E k \in (p + 1)..n : s[k] = b[o]
    <3>1. PICK m \in DOMAIN b : /\ b[m] = i
                                /\ \A o \in DOMAIN b : o > m => \E k \in (p + 1)..n : s[k] = b[o]
      BY <2>2
    <3>2. m \in Nat /\ 1 <= m /\ m <= y
      <4>1. m \in 1..y
        BY <1>1, <1>4, <3>1
      <4> QED
        BY <4>1
    \* Whatever a has behind m came behind p.
    <3>3. ASSUME NEW o \in DOMAIN a, o + d > m
          PROVE  \E k \in (p + 1)..(n + 1) : s[k] = a[o]
      <4>1. CASE o = Len(a)
        <5>1. n + 1 \in (p + 1)..(n + 1)
          OBVIOUS
        <5> QED
          BY <1>3, <4>1, <5>1
      <4>2. CASE o # Len(a)
        <5>1. o + d \in DOMAIN b /\ a[o] = b[o + d]
          BY <1>5, <4>2
        <5>2. PICK k \in (p + 1)..n : s[k] = b[o + d]
          BY <3>1, <3>3, <5>1
        <5>3. k \in (p + 1)..(n + 1)
          OBVIOUS
        <5> QED
          BY <5>1, <5>2, <5>3
      <4> QED
        BY <4>1, <4>2
    <3>4. CASE d < m
      <4>1. m - d \in 1..(y - d) /\ m - d \in 1..(y + 1 - d) /\ (m - d) + d = m
        BY <3>2, <3>4
      <4>2. m - d \in DOMAIN a /\ a[m - d] = i
        <5>1. m - d \in 1..Len(a) /\ m - d \in 1..(Len(b) - d)
          BY <1>4, <4>1
        <5> QED
          BY <1>2, <1>3, <3>1, <4>1, <5>1
      <4>3. \A o \in DOMAIN a : o > m - d => o + d > m
        BY <1>3, <3>2
      <4>4. \A o \in DOMAIN a : o > m - d => \E k \in (p + 1)..(n + 1) : s[k] = a[o]
        BY <3>3, <4>3
      <4> QED
        BY <4>2, <4>4 DEF Held
    \* i goes: what is remembered now are SeenEventLimit others, all behind p.
    <3>5. CASE ~(d < m)
      <4>1. d = 1 /\ m = 1 /\ Len(a) = SeenEventLimit
        BY <1>2, <1>4, <3>2, <3>5
      <4>2. ASSUME NEW o \in DOMAIN a
            PROVE  a[o] \in Between(s, i, p, (n + 1) + 1)
        <5>1. o + d > m
          BY <1>3, <4>1
        <5>2. PICK k \in (p + 1)..(n + 1) : s[k] = a[o]
          BY <3>3, <5>1
        <5>3. a[o] # i
          <6>1. CASE o = Len(a)
            BY <1>3, <3>1, <6>1
          <6>2. CASE o # Len(a)
            <7>1. o + d \in DOMAIN b /\ a[o] = b[o + d] /\ o + d # m
              BY <1>3, <1>5, <4>1, <6>2
            <7> QED
              BY <3>1, <7>1 DEF Memory
          <6> QED
            BY <6>1, <6>2
        <5>4. k \in (p + 1)..(((n + 1) + 1) - 1)
          BY <5>2
        <5> QED
          BY <5>2, <5>3, <5>4 DEF Between
      <4>3. /\ IsFiniteSet(Between(s, i, p, (n + 1) + 1))
            /\ Cardinality(Between(s, i, p, (n + 1) + 1)) \in Nat
        <5>1. p \in Nat /\ (n + 1) + 1 \in Int /\ ((n + 1) + 1) - 1 <= Len(s)
          BY <1>1
        <5> QED
          BY <5>1, BetweenIsFinite
      <4>4. DOMAIN a = 1..SeenEventLimit /\ a \in [1..SeenEventLimit -> Between(s, i, p, (n + 1) + 1)]
        <5>1. DOMAIN a = 1..SeenEventLimit
          BY <1>3, <4>1
        <5>2. a \in [1..Len(a) -> Nat]
          BY <1>2, LenProperties
        <5>3. a = [o \in DOMAIN a |-> a[o]]
          BY <5>2
        <5> QED
          BY <4>2, <5>1, <5>3
      <4>5. IsFiniteSet(1..SeenEventLimit) /\ Cardinality(1..SeenEventLimit) = SeenEventLimit
        BY <1>1, FS_Interval, LiveEventsAssumption
      <4>6. ~(Cardinality(Between(s, i, p, (n + 1) + 1)) < Cardinality(1..SeenEventLimit))
        <5> SUFFICES ASSUME Cardinality(Between(s, i, p, (n + 1) + 1)) < Cardinality(1..SeenEventLimit)
                     PROVE  FALSE
          OBVIOUS
        <5>1. \E j, k \in 1..SeenEventLimit : j # k /\ a[j] = a[k]
          BY <4>3, <4>4, <4>5, FS_PigeonHole
        <5> QED
          BY <1>6, <4>4, <5>1
      <4>7. Apart(s, i, p, (n + 1) + 1)
        BY <1>1, <4>3, <4>5, <4>6 DEF Apart
      <4> QED
        BY <4>7 DEF Held
    <3> QED
      BY <3>4, <3>5
  <2> QED
    BY <1>8, <2>1, <2>2 DEF Held
<1>9. ASSUME NEW l, Line(l, b, s, n)
      PROVE  Line(l, a, s, n + 1) /\ Line(Append(l, s[n + 1]), a, s, n + 1)
  <2>1. l \in Seq(Nat)
    BY <1>9 DEF Line
  <2>2. PICK at \in [DOMAIN l -> 1..n] : Placed(at, l, b, s, n)
    BY <1>9 DEF Line
  <2>3. ASSUME NEW k \in DOMAIN l
        PROVE  /\ at[k] \in 1..n /\ s[at[k]] = l[k]
               /\ Held(l[k], at[k], b, s, n) /\ Held(l[k], at[k], a, s, n + 1)
    <3>1. at[k] \in 1..n /\ s[at[k]] = l[k] /\ Held(l[k], at[k], b, s, n)
      BY <2>2 DEF Placed
    <3> QED
      BY <1>8, <3>1
  <2>4. ASSUME NEW j \in DOMAIN l, NEW k \in DOMAIN l, j < k
        PROVE  at[j] < at[k] /\ (l[j] = l[k] => Apart(s, l[j], at[j], at[k]))
    BY <2>2, <2>4 DEF Placed
  <2>5. Line(l, a, s, n + 1)
    <3>1. at \in [DOMAIN l -> 1..(n + 1)]
      OBVIOUS
    <3>2. Placed(at, l, a, s, n + 1)
      BY <2>3, <2>4 DEF Placed
    <3> QED
      BY <2>1, <3>1, <3>2 DEF Line
  <2> DEFINE w == Append(l, s[n + 1])
  <2>6. /\ w \in Seq(Nat) /\ w[Len(l) + 1] = s[n + 1] /\ DOMAIN w = 1..(Len(l) + 1) /\ Len(l) \in Nat
        /\ \A k \in DOMAIN w : k = Len(l) + 1 \/ (k \in DOMAIN l /\ w[k] = l[k])
        /\ DOMAIN l = 1..Len(l)
    BY <1>1, <2>1, AppendedOnce
  <2> HIDE DEF w
  <2> DEFINE to == [k \in DOMAIN w |-> IF k = Len(l) + 1 THEN n + 1 ELSE at[k]]
  <2>7. /\ to \in [DOMAIN w -> 1..(n + 1)]
        /\ \A k \in DOMAIN w : k = Len(l) + 1 => to[k] = n + 1
        /\ \A k \in DOMAIN l : k \in DOMAIN w /\ k # Len(l) + 1 /\ to[k] = at[k] /\ w[k] = l[k]
    <3>1. \A k \in DOMAIN w : k # Len(l) + 1 => at[k] \in 1..(n + 1)
      BY <2>3, <2>6
    <3>2. n + 1 \in 1..(n + 1)
      OBVIOUS
    <3>3. \A k \in DOMAIN l : k \in DOMAIN w /\ k # Len(l) + 1
      <4>1. PICK x \in Nat : x = Len(l)
        BY <2>6
      <4>2. \A k \in 1..x : k \in 1..(x + 1) /\ k # x + 1
        OBVIOUS
      <4> QED
        BY <2>6, <4>1, <4>2
    <3> QED
      BY <2>6, <3>1, <3>2, <3>3
  <2> HIDE DEF to
  <2>8. ASSUME NEW k \in DOMAIN w
        PROVE  s[to[k]] = w[k] /\ Held(w[k], to[k], a, s, n + 1)
    <3>1. CASE k = Len(l) + 1
      <4>1. \A o \in DOMAIN a : ~(o > Len(a))
        BY <1>3
      <4>2. w[k] = a[Len(a)] /\ to[k] = n + 1
        BY <1>3, <2>6, <2>7, <3>1
      <4>3. Held(w[k], to[k], a, s, n + 1)
        BY <1>3, <4>1, <4>2 DEF Held
      <4> QED
        BY <1>3, <4>2, <4>3
    <3>2. CASE k \in DOMAIN l
      BY <2>3, <2>7, <3>2
    <3> QED
      BY <2>6, <3>1, <3>2
  <2>9. ASSUME NEW j \in DOMAIN w, NEW k \in DOMAIN w, j < k
        PROVE  to[j] < to[k] /\ (w[j] = w[k] => Apart(s, w[j], to[j], to[k]))
    <3>1. j \in DOMAIN l
      <4>1. PICK x \in Nat : x = Len(l)
        BY <2>6
      <4>2. j \in 1..(x + 1) /\ k \in 1..(x + 1)
        BY <2>6, <4>1
      <4>3. j \in 1..x
        BY <2>9, <4>2
      <4> QED
        BY <2>6, <4>1, <4>3
    <3>2. w[j] = l[j] /\ to[j] = at[j] /\ at[j] \in 1..n /\ Held(l[j], at[j], b, s, n)
      BY <2>3, <2>7, <3>1
    <3>3. CASE k = Len(l) + 1
      <4>1. to[k] = n + 1 /\ w[k] = s[n + 1]
        BY <2>6, <2>7, <3>3
      <4>2. to[j] < to[k]
        BY <3>2, <4>1
      <4>3. w[j] = w[k] => Apart(s, w[j], to[j], to[k])
        BY <3>2, <4>1 DEF Held
      <4> QED
        BY <4>2, <4>3
    <3>4. CASE k \in DOMAIN l
      <4>1. w[k] = l[k] /\ to[k] = at[k]
        BY <2>7, <3>4
      <4> QED
        BY <2>4, <2>9, <3>1, <3>2, <3>4, <4>1
    <3> QED
      BY <2>6, <3>3, <3>4
  <2>10. Placed(to, w, a, s, n + 1)
    BY <2>8, <2>9 DEF Placed
  <2>11. Line(w, a, s, n + 1)
    BY <2>6, <2>7, <2>10 DEF Line
  <2> QED
    BY <2>5, <2>11 DEF w
<1> QED
  BY <1>7, <1>9 DEF a

\* l2 is a first part of l.
Starts(l2, l) == l2 \in Seq(Nat) /\ \A k \in DOMAIN l2 : k \in DOMAIN l /\ l2[k] = l[k]

LEMMA LineStarts ==
    ASSUME NEW l, NEW b, NEW s, NEW n, Line(l, b, s, n), NEW l2, Starts(l2, l)
    PROVE  Line(l2, b, s, n)
<1>1. PICK at \in [DOMAIN l -> 1..n] : Placed(at, l, b, s, n)
  BY DEF Line
<1>2. \A k \in DOMAIN l2 : k \in DOMAIN l /\ l2[k] = l[k]
  BY DEF Starts
<1> DEFINE to == [k \in DOMAIN l2 |-> at[k]]
<1>3. to \in [DOMAIN l2 -> 1..n] /\ \A k \in DOMAIN l2 : to[k] = at[k]
  BY <1>1, <1>2
<1> HIDE DEF to
<1>4. \A k \in DOMAIN l2 : s[to[k]] = l2[k] /\ Held(l2[k], to[k], b, s, n)
  BY <1>1, <1>2, <1>3 DEF Placed
<1>5. ASSUME NEW j \in DOMAIN l2, NEW k \in DOMAIN l2, j < k
      PROVE  to[j] < to[k] /\ (l2[j] = l2[k] => Apart(s, l2[j], to[j], to[k]))
  <2>1. j \in DOMAIN l /\ k \in DOMAIN l /\ l2[j] = l[j] /\ l2[k] = l[k] /\ to[j] = at[j] /\ to[k] = at[k]
    BY <1>2, <1>3
  <2>2. at[j] < at[k] /\ (l[j] = l[k] => Apart(s, l[j], at[j], at[k]))
    BY <1>1, <1>5, <2>1 DEF Placed
  <2> QED
    BY <2>1, <2>2
<1>6. Placed(to, l2, b, s, n)
  BY <1>4, <1>5 DEF Placed
<1> QED
  BY <1>3, <1>6 DEF Line, Starts

\* What writing, closing and handing out do to the frames f and the chain h of a response.
LEMMA HandedOutStarts ==
    ASSUME NEW f \in Seq(Nat), NEW h \in Seq(Nat), NEW i \in Nat
    PROVE  /\ Starts(f \o h, f \o h) /\ Starts(f \o <<>>, f \o h) /\ Starts(<<>> \o <<>>, f \o h)
           /\ h # <<>> => Starts(Append(f, Head(h)) \o Tail(h), f \o h)
           /\ Starts(f \o Append(h, i), Append(f \o h, i))
<1>1. ASSUME NEW a \in Seq(Nat), NEW b \in Seq(Nat)
      PROVE  /\ a \o b \in Seq(Nat) /\ DOMAIN (a \o b) = 1..(Len(a) + Len(b))
             /\ Len(a) \in Nat /\ Len(b) \in Nat
             /\ \A k \in DOMAIN (a \o b) : (a \o b)[k] = IF k <= Len(a) THEN a[k] ELSE b[k - Len(a)]
  <2>1. a \o b \in Seq(Nat) /\ Len(a \o b) = Len(a) + Len(b) /\ Len(a) \in Nat /\ Len(b) \in Nat
    OBVIOUS
  <2>2. \A k \in 1..(Len(a) + Len(b)) : (a \o b)[k] = IF k <= Len(a) THEN a[k] ELSE b[k - Len(a)]
    OBVIOUS
  <2>3. DOMAIN (a \o b) = 1..(Len(a) + Len(b))
    BY <2>1
  <2> QED
    BY <2>1, <2>2, <2>3
<1>2. Starts(f \o h, f \o h)
  BY <1>1 DEF Starts
<1>3. <<>> \in Seq(Nat) /\ Len(<<>>) = 0
  OBVIOUS
<1>4. Starts(f \o <<>>, f \o h)
  <2>1. f \o <<>> \in Seq(Nat) /\ \A k \in DOMAIN (f \o <<>>) : k \in 1..Len(f) /\ (f \o <<>>)[k] = f[k]
    BY <1>1, <1>3
  <2>2. \A k \in 1..Len(f) : k \in DOMAIN (f \o h) /\ (f \o h)[k] = f[k]
    BY <1>1
  <2> QED
    BY <2>1, <2>2 DEF Starts
<1>5. Starts(<<>> \o <<>>, f \o h)
  <2>1. <<>> \o <<>> \in Seq(Nat) /\ DOMAIN (<<>> \o <<>>) = {}
    BY <1>1, <1>3
  <2> QED
    BY <2>1 DEF Starts
<1>6. ASSUME h # <<>>
      PROVE  Starts(Append(f, Head(h)) \o Tail(h), f \o h)
  <2> DEFINE a == Append(f, Head(h))
             t == Tail(h)
  <2>1. /\ a \in Seq(Nat) /\ Len(a) = Len(f) + 1 /\ (\A k \in 1..Len(f) : a[k] = f[k])
        /\ a[Len(f) + 1] = h[1] /\ Len(f) \in Nat
    BY <1>6
  <2>2. t \in Seq(Nat) /\ Len(t) = Len(h) - 1 /\ (\A k \in 1..(Len(h) - 1) : t[k] = h[k + 1])
        /\ Len(h) \in Nat /\ Len(h) >= 1
    BY <1>6
  <2> HIDE DEF a, t
  <2>3. /\ a \o t \in Seq(Nat) /\ DOMAIN (a \o t) = 1..(Len(a) + Len(t))
        /\ \A k \in DOMAIN (a \o t) : (a \o t)[k] = IF k <= Len(a) THEN a[k] ELSE t[k - Len(a)]
    BY <1>1, <2>1, <2>2
  <2>4. DOMAIN (a \o t) = DOMAIN (f \o h)
    <3>1. Len(a) + Len(t) = Len(f) + Len(h)
      BY <2>1, <2>2
    <3> QED
      BY <1>1, <2>3, <3>1
  <2>5. ASSUME NEW k \in DOMAIN (a \o t)
        PROVE  (a \o t)[k] = (f \o h)[k]
    <3>0. k \in 1..(Len(f) + Len(h))
      BY <1>1, <2>4
    <3>1. (f \o h)[k] = IF k <= Len(f) THEN f[k] ELSE h[k - Len(f)]
      BY <1>1, <2>4
    <3>2. (a \o t)[k] = IF k <= Len(f) + 1 THEN a[k] ELSE t[k - (Len(f) + 1)]
      BY <2>1, <2>3
    <3>3. CASE k <= Len(f)
      <4>1. k \in 1..Len(f) /\ k <= Len(f) + 1
        BY <2>1, <3>0, <3>3
      <4> QED
        BY <2>1, <3>1, <3>2, <3>3, <4>1
    <3>4. CASE k = Len(f) + 1
      <4>1. ~(k <= Len(f)) /\ k <= Len(f) + 1 /\ k - Len(f) = 1
        BY <2>1, <3>4
      <4> QED
        BY <2>1, <3>1, <3>2, <3>4, <4>1
    <3>5. CASE k > Len(f) + 1
      <4>1. /\ ~(k <= Len(f)) /\ ~(k <= Len(f) + 1) /\ k - (Len(f) + 1) \in 1..(Len(h) - 1)
            /\ (k - (Len(f) + 1)) + 1 = k - Len(f)
        <5>1. PICK x \in Nat, y \in Nat : x = Len(f) /\ y = Len(h)
          BY <2>1, <2>2
        <5>2. k \in 1..(x + y) /\ k > x + 1
          BY <3>0, <3>5, <5>1
        <5>3. /\ ~(k <= x) /\ ~(k <= x + 1) /\ k - (x + 1) \in 1..(y - 1) /\ (k - (x + 1)) + 1 = k - x
          BY <5>2
        <5> QED
          BY <5>1, <5>3
      <4>2. t[k - (Len(f) + 1)] = h[k - Len(f)]
        BY <2>2, <4>1
      <4> QED
        BY <3>1, <3>2, <4>1, <4>2
    <3> QED
      BY <2>1, <3>0, <3>3, <3>4, <3>5
  <2>6. Starts(a \o t, f \o h)
    BY <2>3, <2>4, <2>5 DEF Starts
  <2> QED
    BY <2>6 DEF a, t
<1>7. Starts(f \o Append(h, i), Append(f \o h, i))
  <2> DEFINE a == Append(h, i)
             w == Append(f \o h, i)
  <2>1. /\ a \in Seq(Nat) /\ Len(a) = Len(h) + 1 /\ (\A k \in 1..Len(h) : a[k] = h[k]) /\ a[Len(h) + 1] = i
        /\ Len(h) \in Nat /\ Len(f) \in Nat
    OBVIOUS
  <2>2. /\ DOMAIN w = 1..(Len(f) + Len(h) + 1) /\ w[Len(f) + Len(h) + 1] = i
        /\ \A k \in 1..(Len(f) + Len(h)) : w[k] = IF k <= Len(f) THEN f[k] ELSE h[k - Len(f)]
    <3>1. PICK l : l = f \o h
      OBVIOUS
    <3>2. /\ l \in Seq(Nat) /\ Len(l) = Len(f) + Len(h)
          /\ \A k \in 1..(Len(f) + Len(h)) : l[k] = IF k <= Len(f) THEN f[k] ELSE h[k - Len(f)]
      BY <1>1, <3>1
    <3>3. /\ DOMAIN Append(l, i) = 1..(Len(l) + 1) /\ Append(l, i)[Len(l) + 1] = i
          /\ \A k \in 1..Len(l) : Append(l, i)[k] = l[k]
      BY <3>2
    <3> QED
      BY <3>1, <3>2, <3>3
  <2> HIDE DEF a, w
  <2>3. /\ f \o a \in Seq(Nat) /\ DOMAIN (f \o a) = 1..(Len(f) + Len(h) + 1)
        /\ \A k \in DOMAIN (f \o a) : (f \o a)[k] = IF k <= Len(f) THEN f[k] ELSE a[k - Len(f)]
    <3>1. Len(f) + Len(a) = Len(f) + Len(h) + 1
      BY <2>1
    <3> QED
      BY <1>1, <2>1, <3>1
  <2>4. ASSUME NEW k \in DOMAIN (f \o a)
        PROVE  (f \o a)[k] = w[k]
    <3>0. k \in 1..(Len(f) + Len(h) + 1)
      BY <2>3
    <3>1. CASE k = Len(f) + Len(h) + 1
      <4>1. ~(k <= Len(f)) /\ k - Len(f) = Len(h) + 1
        BY <2>1, <3>1
      <4> QED
        BY <2>1, <2>2, <2>3, <3>1, <4>1
    <3>2. CASE k # Len(f) + Len(h) + 1
      <4>1. k \in 1..(Len(f) + Len(h)) /\ (~(k <= Len(f)) => k - Len(f) \in 1..Len(h))
        <5>1. PICK x \in Nat, y \in Nat : x = Len(f) /\ y = Len(h)
          BY <2>1
        <5>2. k \in 1..(x + y + 1) /\ k # x + y + 1
          BY <3>0, <3>2, <5>1
        <5>3. k \in 1..(x + y) /\ (~(k <= x) => k - x \in 1..y)
          BY <5>2
        <5> QED
          BY <5>1, <5>3
      <4> QED
        BY <2>1, <2>2, <2>3, <4>1
    <3> QED
      BY <3>1, <3>2
  <2>5. Starts(f \o a, w)
    BY <2>2, <2>3, <2>4 DEF Starts
  <2> QED
    BY <2>5 DEF a, w
<1> QED
  BY <1>2, <1>4, <1>5, <1>6, <1>7

-----------------------------------------------------------------------------

HandedOut(c) == frames[c] \o client[c].chain

CursorIsPlace == cursor # FromNow => reader.from = cursor

InOrder ==
    /\ Memory(seen)
    /\ \A c \in Clients : Line(HandedOut(c), seen, stream, reader.from)

OInv == IInv /\ CursorIsPlace /\ InOrder

\* Before anything is handed out.
LEMMA NothingIsInOrder ==
    ASSUME NEW s, NEW n
    PROVE  Memory(<<>>) /\ Line(<<>> \o <<>>, <<>>, s, n)
<1>1. Memory(<<>>)
  BY LiveEventsAssumption DEF Memory
<1>2. <<>> \o <<>> \in Seq(Nat) /\ DOMAIN (<<>> \o <<>>) = {}
  OBVIOUS
<1> DEFINE at == [k \in {} |-> k]
<1>3. at \in [DOMAIN (<<>> \o <<>>) -> 1..n]
  BY <1>2
<1>4. Placed(at, <<>> \o <<>>, <<>>, s, n)
  BY <1>2 DEF Placed
<1> HIDE DEF at
<1> QED
  BY <1>1, <1>2, <1>3, <1>4 DEF Line

LEMMA InitOInv == Init => OInv
<1> SUFFICES ASSUME Init PROVE OInv
  OBVIOUS
<1>1. stream = <<>> /\ seen = <<>> /\ cursor = FromNow
  BY DEF Init
<1>2. \A c \in Clients : HandedOut(c) = <<>> \o <<>>
  BY DEF HandedOut, Init, Closed
<1> QED
  BY <1>1, <1>2, InitIInv, NothingIsInOrder DEF OInv, CursorIsPlace, InOrder

\* What is committed, and on the stream.
LEMMA StreamOfEvents ==
    ASSUME IInv
    PROVE  /\ stream \in Seq(1..Len(log)) /\ stream \in Seq(Nat) /\ Len(log) \in Nat
           /\ Len(stream) \in Nat /\ reader.from \in Nat /\ reader.from <= Len(stream)
<1>1. stream \in Seq(Nat) /\ Len(log) \in Nat /\ reader.from \in Nat /\ reader.from <= Len(stream)
  BY DEF IInv, TypeOK, PlacesOnStream
<1>2. \A k \in 1..Len(stream) : stream[k] \in 1..Len(log)
  BY <1>1 DEF IInv, OnlyCommitted, Events
<1> QED
  BY <1>1, <1>2

\* The order stands while the stream and the reader go on and nothing new is handed out.
LEMMA NothingNewIsInOrder ==
    ASSUME IInv, IInv', InOrder, seen' = seen, reader.from <= reader'.from,
           \A k \in DOMAIN stream : k \in DOMAIN stream' /\ stream'[k] = stream[k],
           \A c \in Clients : Starts(HandedOut(c)', HandedOut(c))
    PROVE  InOrder'
<1>1. PICK s, t, n, m : s = stream /\ t = stream' /\ n = reader.from /\ m = reader'.from
  OBVIOUS
<1>2. t \in Seq(1..Len(log')) /\ Len(log') \in Nat /\ Len(t) \in Nat /\ m \in Nat /\ m <= Len(t)
  <2>1. stream' \in Seq(Nat) /\ Len(log') \in Nat /\ reader'.from \in Nat /\ reader'.from <= Len(stream')
    BY DEF IInv, TypeOK, PlacesOnStream
  <2>2. \A k \in 1..Len(stream') : stream'[k] \in 1..Len(log')
    BY <2>1 DEF IInv, OnlyCommitted, Events
  <2> QED
    BY <1>1, <2>1, <2>2
<1>3. n \in Nat /\ n <= m /\ \A k \in 1..n : t[k] = s[k]
  <2>1. s \in Seq(Nat) /\ n \in Nat /\ n <= Len(s)
    BY <1>1, StreamOfEvents
  <2> QED
    BY <1>1, <2>1
<1>4. ASSUME NEW c \in Clients
      PROVE  Line(HandedOut(c)', seen, t, m)
  <2>1. PICK l, l2 : l = HandedOut(c) /\ l2 = HandedOut(c)'
    OBVIOUS
  <2>2. Line(l, seen, s, n) /\ Starts(l2, l)
    BY <1>1, <2>1 DEF InOrder
  <2>3. PICK b : b = seen
    OBVIOUS
  <2>4. Line(l, b, t, m)
    BY <1>2, <1>3, <2>2, <2>3, Grow
  <2>5. Line(l2, b, t, m)
    BY <2>2, <2>4, LineStarts
  <2> QED
    BY <2>1, <2>3, <2>5
<1> QED
  BY <1>1, <1>4 DEF InOrder

\* What is handed out to a response whose step is none.
LEMMA SameIsHandedOut ==
    ASSUME IInv, NEW c \in Clients, frames'[c] = frames[c], client'[c] = client[c]
    PROVE  Starts(HandedOut(c)', HandedOut(c))
<1>1. frames[c] \in Seq(Nat) /\ client[c].chain \in Seq(Nat) /\ 0 \in Nat
  BY DEF IInv, TypeOK, Response
<1>2. HandedOut(c)' = HandedOut(c)
  BY DEF HandedOut
<1>3. Starts(frames[c] \o client[c].chain, frames[c] \o client[c].chain)
  BY <1>1, HandedOutStarts
<1> QED
  BY <1>2, <1>3 DEF HandedOut

LEMMA PublishIsInOrder ==
    ASSUME OInv, IInv', NEW i \in Events, Publish(i) \/ PublishAgain(i)
    PROVE  OInv'
<1>1. /\ UNCHANGED <<cursor, reader, seen, client, frames>>
      /\ stream' = Append(stream, i)
  BY DEF Publish, PublishAgain, delivery
<1>2. \A k \in DOMAIN stream : k \in DOMAIN stream' /\ stream'[k] = stream[k]
  <2>1. stream \in Seq(Nat) /\ i \in Nat
    BY StreamOfEvents DEF OInv, Events
  <2> QED
    BY <1>1, <2>1
<1>3. \A c \in Clients : Starts(HandedOut(c)', HandedOut(c))
  BY <1>1, SameIsHandedOut DEF OInv
<1>4. reader.from <= reader'.from
  BY <1>1, StreamOfEvents DEF OInv
<1>5. InOrder'
  BY <1>1, <1>2, <1>3, <1>4, NothingNewIsInOrder DEF OInv
<1> QED
  BY <1>1, <1>5 DEF OInv, CursorIsPlace

LEMMA ConsumeIsInOrder ==
    ASSUME OInv, IInv', Consume
    PROVE  OInv'
<1> DEFINE next == reader.from + 1
<1>1. /\ stream \in Seq(1..Len(log)) /\ stream \in Seq(Nat) /\ Len(log) \in Nat /\ Len(stream) \in Nat
      /\ reader.from \in Nat /\ next <= Len(stream) /\ next \in DOMAIN stream
  <2>1. /\ stream \in Seq(1..Len(log)) /\ stream \in Seq(Nat) /\ Len(log) \in Nat /\ Len(stream) \in Nat
        /\ reader.from \in Nat
    BY StreamOfEvents DEF OInv
  <2>2. next <= Len(stream)
    BY <2>1 DEF OInv, IInv, TypeOK, PlacesOnStream, Consume
  <2>3. next \in DOMAIN stream
    BY <2>1, <2>2
  <2> QED
    BY <2>1, <2>2, <2>3
<1>2. PICK i \in Nat : i = stream[next]
  BY <1>1
<1>3. /\ UNCHANGED <<log, members, until, stream, redis, frames, troubles>>
      /\ cursor' = next /\ reader'.from = next
      /\ IF IsSeen(i) THEN UNCHANGED <<seen, client>> ELSE seen' = AddSeen(i) /\ Dispatch(i)
  BY <1>2 DEF Consume, database, OInv, IInv, TypeOK
<1>4. ASSUME NEW c \in Clients
      PROVE  frames[c] \in Seq(Nat) /\ client[c] \in Response /\ client[c].chain \in Seq(Nat)
  BY DEF OInv, IInv, TypeOK, Response
<1>5. CASE IsSeen(i)
  <2>1. \A c \in Clients : Starts(HandedOut(c)', HandedOut(c))
    BY <1>3, <1>5, SameIsHandedOut DEF OInv
  <2>2. seen' = seen /\ reader.from <= reader'.from /\ stream' = stream
    BY <1>1, <1>3, <1>5
  <2> HIDE DEF next
  <2>3. InOrder'
    BY <2>1, <2>2, NothingNewIsInOrder DEF OInv
  <2> QED
    BY <1>3, <2>3 DEF OInv, CursorIsPlace
<1>6. CASE ~IsSeen(i)
  <2>1. seen' = Added(seen, i)
    BY <1>3, <1>6 DEF AddSeen, Added
  <2>2. /\ Memory(Added(seen, stream[next]))
        /\ \A l : Line(l, seen, stream, reader.from) =>
                    /\ Line(l, Added(seen, stream[next]), stream, next)
                    /\ Line(Append(l, stream[next]), Added(seen, stream[next]), stream, next)
    <3>1. \A k \in DOMAIN seen : seen[k] # stream[next]
      BY <1>2, <1>6 DEF IsSeen
    <3>2. Memory(seen)
      BY DEF OInv, InOrder
    <3> QED
      BY <1>1, <3>1, <3>2, ConsumeNew
  <2> HIDE DEF next
  <2>3. ASSUME NEW c \in Clients
        PROVE  Line(HandedOut(c)', seen', stream, next)
    <3>1. PICK f, h : f = frames[c] /\ h = client[c].chain
      OBVIOUS
    <3>2. Line(f \o h, seen, stream, reader.from)
      BY <3>1 DEF OInv, InOrder, HandedOut
    <3>3. Line(f \o h, seen', stream, next) /\ Line(Append(f \o h, i), seen', stream, next)
      BY <1>2, <2>1, <2>2, <3>2
    <3>4. Starts(f \o h, f \o h) /\ Starts(f \o Append(h, i), Append(f \o h, i))
      BY <1>2, <1>4, <3>1, HandedOutStarts
    <3>5. client'[c].chain = h \/ client'[c].chain = Append(h, i)
      <4>1. CASE client'[c] = client[c]
        BY <3>1, <4>1
      <4>2. CASE client'[c] = [client[c] EXCEPT !.chain = Append(client[c].chain, i)]
        BY <1>4, <3>1, <4>2 DEF Response
      <4> QED
        BY <1>3, <1>6, <4>1, <4>2 DEF Dispatch
    <3>6. HandedOut(c)' = f \o client'[c].chain
      BY <1>3, <3>1 DEF HandedOut
    <3>7. CASE client'[c].chain = h
      BY <3>3, <3>6, <3>7
    <3>8. CASE client'[c].chain = Append(h, i)
      <4>1. Line(f \o Append(h, i), seen', stream, next)
        BY <3>3, <3>4, LineStarts
      <4> QED
        BY <3>6, <3>8, <4>1
    <3> QED
      BY <3>5, <3>7, <3>8
  <2>4. InOrder'
    BY <1>2, <1>3, <2>1, <2>2, <2>3 DEF InOrder
  <2> QED
    BY <1>3, <2>4 DEF OInv, CursorIsPlace
<1> QED
  BY <1>5, <1>6

LEMMA ResponseIsInOrder ==
    ASSUME OInv, IInv', NEW c \in Clients,
           Connect(c) \/ Subscribe(c) \/ ResponseStep(c) \/ Disconnect(c)
    PROVE  OInv'
<1>1. UNCHANGED <<stream, cursor, reader, seen>>
  BY DEF Connect, Subscribe, ResponseStep, ReadMember, Write, WriteRemoval, Disconnect, delivery
<1>2. ASSUME NEW o \in Clients, o # c
      PROVE  frames'[o] = frames[o] /\ client'[o] = client[o]
  BY <1>2 DEF Connect, Subscribe, ResponseStep, ReadMember, Write, WriteRemoval, Disconnect, End, OInv, IInv, TypeOK
<1>3. PICK f, h : f = frames[c] /\ h = client[c].chain
  OBVIOUS
<1>4. f \in Seq(Nat) /\ h \in Seq(Nat) /\ client[c] \in Response /\ 0 \in Nat
  BY <1>3 DEF OInv, IInv, TypeOK, Response
<1>5. /\ Starts(f \o h, f \o h) /\ Starts(f \o <<>>, f \o h) /\ Starts(<<>> \o <<>>, f \o h)
      /\ h # <<>> => Starts(Append(f, Head(h)) \o Tail(h), f \o h)
  BY <1>4, HandedOutStarts
<1>6. HandedOut(c) = f \o h /\ HandedOut(c)' = frames'[c] \o client'[c].chain
  BY <1>3 DEF HandedOut
<1>7. Starts(frames'[c] \o client'[c].chain, f \o h)
  <2>1. CASE End(c)
    <3>1. frames'[c] = <<>> /\ client'[c].chain = <<>>
      BY <2>1 DEF End, OInv, IInv, TypeOK, Closed
    <3> QED
      BY <1>5, <3>1
  <2>2. CASE Connect(c) \/ Subscribe(c)
    <3>1. frames'[c] = f /\ client'[c].chain = <<>>
      BY <1>3, <2>2 DEF Connect, Subscribe, Opened, OInv, IInv, TypeOK
    <3> QED
      BY <1>5, <3>1
  <2>3. CASE ReadMember(c) /\ IsMember(c)
    <3>1. frames'[c] = f /\ client'[c] = [client[c] EXCEPT !.read = TRUE]
      BY <1>3, <2>3 DEF ReadMember, OInv, IInv, TypeOK
    <3>2. client'[c].chain = h
      BY <1>3, <1>4, <3>1 DEF Response
    <3> QED
      BY <1>5, <3>1, <3>2
  <2>4. CASE Write(c)
    <3>1. /\ frames'[c] = Append(f, Head(h)) /\ h # <<>>
          /\ client'[c] = [client[c] EXCEPT !.chain = Tail(h), !.read = FALSE]
      BY <1>3, <2>4 DEF Write, Pending, First, OInv, IInv, TypeOK
    <3>2. client'[c].chain = Tail(h)
      BY <1>4, <3>1 DEF Response
    <3> QED
      BY <1>5, <3>1, <3>2
  <2> QED
    BY <2>1, <2>2, <2>3, <2>4 DEF ResponseStep, ReadMember, WriteRemoval, Disconnect
<1>8. \A o \in Clients : Starts(HandedOut(o)', HandedOut(o))
  <2>1. ASSUME NEW o \in Clients, o # c
        PROVE  Starts(HandedOut(o)', HandedOut(o))
    BY <1>2, <2>1, SameIsHandedOut DEF OInv
  <2> QED
    BY <1>6, <1>7, <2>1
<1>9. reader.from <= reader'.from
  BY <1>1, StreamOfEvents DEF OInv
<1>10. InOrder'
  BY <1>1, <1>8, <1>9, NothingNewIsInOrder DEF OInv
<1> QED
  BY <1>1, <1>10 DEF OInv, CursorIsPlace

LEMMA RestartIsInOrder ==
    ASSUME OInv, IInv', Restart
    PROVE  OInv'
<1>1. seen' = <<>> /\ cursor' = FromNow
  BY DEF Restart
<1>2. \A c \in Clients : HandedOut(c)' = <<>> \o <<>>
  BY DEF HandedOut, Restart, Closed
<1>3. PICK t, m : t = stream' /\ m = reader'.from
  OBVIOUS
<1>4. Memory(<<>>) /\ Line(<<>> \o <<>>, <<>>, t, m)
  BY NothingIsInOrder
<1> QED
  BY <1>1, <1>2, <1>3, <1>4 DEF OInv, CursorIsPlace, InOrder

\* The other steps hand nothing out: the stream stays, and the reader does not go back.
LEMMA OthersAreInOrder ==
    ASSUME OInv, IInv', UNCHANGED <<stream, cursor, seen, client, frames>>,
           reader' = reader \/ XRead \/ Timeout \/ Reply \/ RedisFails
    PROVE  OInv'
<1>1. reader.from <= reader'.from /\ (cursor # FromNow => reader'.from = cursor)
  <2>1. /\ reader.from \in Nat /\ reader.from <= Len(stream) /\ (cursor # FromNow => reader.from = cursor)
        /\ reader \in [at : {"idle", "blocked", "consuming"}, from : Nat, to : Nat]
        /\ Len(stream) \in Nat
    BY DEF OInv, CursorIsPlace, IInv, TypeOK, PlacesOnStream
  <2>2. CASE reader'.from = reader.from
    BY <2>1, <2>2
  <2>3. CASE XRead
    <3>1. reader'.from = IF cursor = FromNow THEN Len(stream) ELSE cursor
      BY <2>3 DEF XRead
    <3> QED
      BY <2>1, <3>1
  <2>4. CASE Timeout \/ Reply \/ RedisFails
    <3>1. reader'.from = reader.from
      BY <2>1, <2>4 DEF Timeout, Reply, RedisFails
    <3> QED
      BY <2>2, <3>1
  <2> QED
    BY <2>2, <2>3, <2>4
<1>2. \A c \in Clients : Starts(HandedOut(c)', HandedOut(c))
  BY SameIsHandedOut DEF OInv
<1>3. InOrder'
  BY <1>1, <1>2, NothingNewIsInOrder DEF OInv
<1> QED
  BY <1>1, <1>3 DEF OInv, CursorIsPlace

LEMMA NextOInv == OInv /\ [Next]_vars => OInv'
<1> SUFFICES ASSUME OInv, [Next]_vars PROVE OInv'
  OBVIOUS
<1>1. IInv'
  BY NextIInv DEF OInv
<1>2. CASE Update \/ UpdateElsewhere \/ \E c \in Clients : Add(c) \/ Remove(c)
  <2>1. UNCHANGED <<stream, delivery, client, frames>>
    BY <1>2 DEF Update, UpdateElsewhere, Add, Remove, Committed
  <2> QED
    BY <1>1, <2>1, OthersAreInOrder DEF delivery
<1>3. CASE \E i \in Events : Publish(i) \/ PublishAgain(i)
  BY <1>1, <1>3, PublishIsInOrder
<1>4. CASE Consume
  BY <1>1, <1>4, ConsumeIsInOrder
<1>5. CASE XRead \/ Reply \/ Timeout \/ RedisFails
  <2>1. UNCHANGED <<stream, cursor, seen, client, frames>>
    BY <1>5 DEF XRead, Reply, Timeout, RedisFails
  <2> QED
    BY <1>1, <1>5, <2>1, OthersAreInOrder
<1>6. CASE Restart
  BY <1>1, <1>6, RestartIsInOrder
<1>7. CASE \E c \in Clients : Connect(c) \/ Subscribe(c) \/ ResponseStep(c) \/ Disconnect(c)
  BY <1>1, <1>7, ResponseIsInOrder
<1>8. CASE UNCHANGED vars
  BY <1>1, <1>8, OthersAreInOrder DEF vars, delivery
<1> QED
  BY <1>2, <1>3, <1>4, <1>5, <1>6, <1>7, <1>8 DEF Next, ReaderStep

LEMMA InOrderFollowsStream == OInv => FramesFollowStream
<1> SUFFICES ASSUME OInv, NEW c \in Clients
             PROVE  \E at \in [DOMAIN frames[c] -> DOMAIN stream] :
                      /\ \A k \in DOMAIN frames[c] : stream[at[k]] = frames[c][k]
                      /\ \A j, k \in DOMAIN frames[c] :
                            j < k => /\ at[j] < at[k]
                                     /\ frames[c][j] = frames[c][k] =>
                                          Cardinality(OthersBetween(frames[c][j], at[j], at[k]))
                                              >= SeenEventLimit
  BY DEF FramesFollowStream
<1>1. PICK f, h : f = frames[c] /\ h = client[c].chain
  OBVIOUS
<1>2. f \in Seq(Nat) /\ h \in Seq(Nat)
  BY <1>1 DEF OInv, IInv, TypeOK, Response
<1>3. Starts(f, f \o h)
  <2>1. Starts(f \o <<>>, f \o h)
    BY <1>2, HandedOutStarts
  <2>2. f \o <<>> = f
    BY <1>2
  <2> QED
    BY <2>1, <2>2
<1>4. Line(f, seen, stream, reader.from)
  <2>1. Line(f \o h, seen, stream, reader.from)
    BY <1>1 DEF OInv, InOrder, HandedOut
  <2>2. PICK b, s, n : b = seen /\ s = stream /\ n = reader.from
    OBVIOUS
  <2> QED
    BY <1>3, <2>1, <2>2, LineStarts
<1>5. PICK at \in [DOMAIN f -> 1..reader.from] : Placed(at, f, seen, stream, reader.from)
  BY <1>4 DEF Line
<1>6. 1..reader.from \subseteq DOMAIN stream
  BY StreamOfEvents DEF OInv
<1>7. at \in [DOMAIN f -> DOMAIN stream]
  BY <1>5, <1>6
<1>8. ASSUME NEW j \in DOMAIN f, NEW k \in DOMAIN f, j < k
      PROVE  /\ at[j] < at[k]
             /\ f[j] = f[k] => Cardinality(OthersBetween(f[j], at[j], at[k])) >= SeenEventLimit
  <2>1. at[j] < at[k] /\ (f[j] = f[k] => Apart(stream, f[j], at[j], at[k]))
    BY <1>5, <1>8 DEF Placed
  <2> QED
    BY <2>1 DEF Apart, Between, OthersBetween
<1>9. \A k \in DOMAIN f : stream[at[k]] = f[k]
  BY <1>5 DEF Placed
<1> QED
  BY <1>1, <1>7, <1>8, <1>9

\* FramesFollowStream: a response gets the events in the order of the stream, and one
\* that workers repeat, at any time, again only after at least SeenEventLimit others
\* (RedisStreamEventDelivery.consume, BoundedSet): with no bound on repeats, on what
\* other workspaces publish, or on how far apart two XADDs of an event are.
THEOREM FramesInStreamOrder == Spec => []FramesFollowStream
BY InitOInv, NextOInv, InOrderFollowsStream, PTL DEF Spec
=============================================================================
