---------------------- MODULE GattEngineSessions_proofs ----------------------
(***************************************************************************)
(* The life of a connection, from connect() to the report of its end, in   *)
(* orderly circumstances: the queue exists before the first event and      *)
(* drops none, no completion crosses a deadline or the next connect(), and *)
(* no handle is reused before the end of its last link was handled.  What  *)
(* engines promise their listeners rests on it: GattClientContract.        *)
(***************************************************************************)
EXTENDS NimbleGattEngine_proofs

Orderly == {"late", "overflow", "setup", "reuse"} \cap Allowed = {}

-----------------------------------------------------------------------------
(* The inductive invariant.  What the queue holds for an engine is         *)
(* nothing, or a failure alone, or a link's beginning, what came of the    *)
(* link, and its end, each of the three perhaps handled or yet to come.    *)

Made == capacity = QueueCapacity

\* An attempt is all an engine has: no handle, no link, no event.
DialInv ==
    dial # NoDial =>
        /\ connHandle[dial.owner] = NoHandle
        /\ dial.peer = target[dial.owner]
        /\ \A i \in Positions : queue[i].owner # dial.owner
        /\ \A h \in Handles : ~Owns(dial.owner, h)

\* A link is the only one of its engine, to the peer asked for last, and used by no
\* other engine.  The engine knows it or is about to, and no end of it is queued.
KnownLink(h) ==
    LET e == link[h].owner
    IN  /\ link[h].peer = target[e]
        /\ \A k \in Handles : Owns(e, k) => k = h
        /\ \A p \in 1 .. Len(link[h].procs) : link[h].procs[p].owner = e
        /\ \/ connHandle[e] = h
           \/ /\ connHandle[e] = NoHandle /\ link[h].procs = <<>>
              /\ \E i \in Positions : Started(i, e, h)
        /\ \A i \in Positions : queue[i].type = "DISCONNECT" =>
              queue[i].owner # e /\ queue[i].handle # h

LinkInv == \A h \in Handles : link[h] # NoLink => KnownLink(h)

\* The outcome of an attempt comes before every other event of its engine, a failure
\* without any.
FirstInv ==
    \A i \in Positions : queue[i].type \in Results =>
        /\ connHandle[queue[i].owner] = NoHandle
        /\ \A j \in Positions : queue[j].owner = queue[i].owner =>
              /\ i <= j
              /\ queue[j].type \notin {"DISC_DONE", "ATTR_OP"}
              /\ queue[i].type = "CONNECT_FAIL" => i = j
        /\ queue[i].type = "CONNECT_FAIL" => \A h \in Handles : ~Owns(queue[i].owner, h)
        /\ queue[i].type = "CONNECT_OK" => queue[i].op = "NONE"

\* Every other event finds the engine connected.
LaterInv ==
    \A i \in Positions : queue[i].type \notin Results =>
        \/ connHandle[queue[i].owner] # NoHandle
        \/ \E j \in Positions :
              j < i /\ queue[j].type = "CONNECT_OK" /\ queue[j].owner = queue[i].owner

\* The end of a link comes after every other event of its engine.
LastInv ==
    \A i \in Positions : queue[i].type = "DISCONNECT" =>
        \A j \in Positions : queue[j].owner = queue[i].owner => j <= i

LifeInv == Made /\ DialInv /\ LinkInv /\ FirstInv /\ LaterInv /\ LastInv

Base == Inv /\ HandlesInv /\ AttemptsInv

-----------------------------------------------------------------------------
(* Host steps.                                                             *)

LEMMA Engaged ==
    ASSUME Base, LifeInv, NEW e \in Engines, NEW h \in Handles, Owns(e, h)
    PROVE  /\ dial # NoDial => dial.owner # e
           /\ connHandle[e] # NoHandle \/ \E j \in Positions : Started(j, e, h)
           /\ \A i \in Positions :
                 queue[i].owner = e => queue[i].type \notin {"CONNECT_FAIL", "DISCONNECT"}
           /\ link[h].procs # <<>> => connHandle[e] = h
<1>1. KnownLink(h) /\ link[h].owner = e
    BY DEF Owns, LifeInv, LinkInv
<1>2. h # NoHandle
    BY HostAssumption
<1>3. QED
    BY <1>1, <1>2 DEF KnownLink, LifeInv, DialInv, FirstInv, Results

\* The host tells an engine with a link something other than the outcome of an attempt.
LEMMA LifeTold ==
    ASSUME Base, LifeInv, NEW ev \in Events, queue' = Append(queue, ev),
           NEW h \in Handles, Owns(ev.owner, h), ev.type \notin Results,
           ev.type \in {"DISC_DONE", "ATTR_OP"} => connHandle[ev.owner] = h,
           ev.type = "DISCONNECT" => ev.handle = h /\ link'[h] = NoLink,
           UNCHANGED <<dial, connHandle, target>>, capacity' = capacity,
           \A k \in Handles : k # h => link'[k] = link[k],
           link'[h] # NoLink =>
              /\ link'[h].owner = link[h].owner /\ link'[h].peer = link[h].peer
              /\ \/ link'[h].procs = link[h].procs
                 \/ link[h].procs # <<>> /\ link'[h].procs = Tail(link[h].procs)
    PROVE  LifeInv'
<1> DEFINE n == Len(queue) + 1
           e == ev.owner
<1>1. /\ n \in Positions' /\ queue'[n] = ev
      /\ Positions' = Positions \cup {n}
      /\ \A i \in Positions : i \in Positions' /\ queue'[i] = queue[i] /\ i < n /\ i <= n /\ i \in Int
      /\ n \in Int
    BY Appended DEF Base, Inv, TypeOK, HostTypeOK, QueueTypeOK, Positions
<1>2. e \in Engines /\ h # NoHandle /\ link \in [Handles -> Links \cup {NoLink}]
    BY HostAssumption DEF Events, Base, Inv, TypeOK, HostTypeOK, LinkTypeOK
<1> HIDE DEF n, e
<1>3. /\ dial # NoDial => dial.owner # e
      /\ connHandle[e] # NoHandle \/ \E j \in Positions : Started(j, e, h)
      /\ \A i \in Positions :
            queue[i].owner = e => queue[i].type \notin {"CONNECT_FAIL", "DISCONNECT"}
      /\ link[h].procs # <<>> => connHandle[e] = h
    BY <1>2, Engaged DEF e
<1>4. link[h] # NoLink /\ link[h].owner = e /\ KnownLink(h)
    BY DEF Owns, LifeInv, LinkInv, e
<1>5. Made' /\ DialInv'
  <2>1. \A k \in Handles : Owns(dial.owner, k)' => Owns(dial.owner, k)
    BY DEF Owns
  <2>2. QED
    BY <1>1, <1>3, <2>1 DEF LifeInv, Made, DialInv, e
<1>6. LinkInv'
  <2> SUFFICES ASSUME NEW k \in Handles, link'[k] # NoLink PROVE KnownLink(k)'
    BY DEF LinkInv
  <2>1. link[k] # NoLink /\ link'[k].owner = link[k].owner /\ link'[k].peer = link[k].peer
    BY <1>4
  <2> DEFINE o == link[k].owner
  <2>2. KnownLink(k)
    BY <2>1 DEF LifeInv, LinkInv
  <2>3. \A m \in Handles : link'[m] # NoLink /\ link'[m].owner = o => m = k
    BY <1>4, <2>2 DEF KnownLink, Owns
  <2>4. \A p \in 1 .. Len(link'[k].procs) : link'[k].procs[p].owner = o
    <3>1. CASE link'[k].procs = link[k].procs
        BY <2>2, <3>1 DEF KnownLink
    <3>2. CASE link[k].procs # <<>> /\ link'[k].procs = Tail(link[k].procs)
      <4>1. link[k].procs \in Seq(Procs)
          BY <1>2, <2>1 DEF Links
      <4>2. \A p \in 1 .. Len(link'[k].procs) : p + 1 \in 1 .. Len(link[k].procs)
                                                /\ link'[k].procs[p] = link[k].procs[p + 1]
          BY <3>2, <4>1
      <4>3. QED
          BY <2>2, <4>2 DEF KnownLink
    <3>3. QED
        BY <3>1, <3>2
  <2>5. \/ connHandle[o] = k
        \/ /\ connHandle[o] = NoHandle /\ link'[k].procs = <<>>
           /\ \E i \in Positions' : queue'[i].type = "CONNECT_OK" /\ queue'[i].owner = o /\ queue'[i].handle = k
    <3>1. link[k].procs = <<>> => link'[k].procs = <<>>
        BY <1>4
    <3>2. QED
        BY <1>1, <2>2, <3>1 DEF KnownLink, Started
  <2>6. \A i \in Positions' : queue'[i].type = "DISCONNECT" => queue'[i].owner # o /\ queue'[i].handle # k
    <3>1. ev.type = "DISCONNECT" => k # h /\ ev.owner # o /\ ev.handle # k
        BY <1>4, <2>1, <2>2 DEF KnownLink, Owns, e
    <3>2. QED
        BY <1>1, <2>2, <3>1 DEF KnownLink
  <2>7. QED
    BY <2>1, <2>2, <2>3, <2>4, <2>5, <2>6 DEF KnownLink, Owns, Started
<1>7. FirstInv'
  <2> SUFFICES ASSUME NEW i \in Positions', queue'[i].type \in Results
               PROVE  /\ connHandle[queue'[i].owner] = NoHandle
                      /\ \A j \in Positions' : queue'[j].owner = queue'[i].owner =>
                            /\ i <= j
                            /\ queue'[j].type \notin {"DISC_DONE", "ATTR_OP"}
                            /\ queue'[i].type = "CONNECT_FAIL" => i = j
                      /\ queue'[i].type = "CONNECT_FAIL" => \A k \in Handles :
                            ~(link'[k] # NoLink /\ link'[k].owner = queue'[i].owner)
                      /\ queue'[i].type = "CONNECT_OK" => queue'[i].op = "NONE"
    BY DEF FirstInv, Owns
  <2>1. i \in Positions /\ queue'[i] = queue[i]
    BY <1>1 DEF e
  <2>2. /\ connHandle[queue[i].owner] = NoHandle
        /\ \A j \in Positions : queue[j].owner = queue[i].owner =>
              /\ i <= j
              /\ queue[j].type \notin {"DISC_DONE", "ATTR_OP"}
              /\ queue[i].type = "CONNECT_FAIL" => i = j
        /\ queue[i].type = "CONNECT_FAIL" => \A k \in Handles : ~Owns(queue[i].owner, k)
        /\ queue[i].type = "CONNECT_OK" => queue[i].op = "NONE"
    BY <2>1 DEF LifeInv, FirstInv
  <2>3. e = queue[i].owner => ev.type \notin {"DISC_DONE", "ATTR_OP"} /\ queue[i].type # "CONNECT_FAIL"
    BY <1>2, <1>3, <2>1, <2>2 DEF e
  <2>4. \A k \in Handles : link'[k] # NoLink /\ link'[k].owner = queue'[i].owner
                              => Owns(queue[i].owner, k)
    BY <1>4, <2>1 DEF Owns
  <2>5. QED
    BY <1>1, <2>1, <2>2, <2>3, <2>4 DEF e
<1>8. LaterInv'
  <2> SUFFICES ASSUME NEW i \in Positions', queue'[i].type \notin Results
               PROVE  \/ connHandle[queue'[i].owner] # NoHandle
                      \/ \E j \in Positions' :
                            j < i /\ queue'[j].type = "CONNECT_OK" /\ queue'[j].owner = queue'[i].owner
    BY DEF LaterInv
  <2>1. CASE i = n
    BY <1>1, <1>3, <2>1 DEF Started, e
  <2>2. CASE i \in Positions
    <3>1. \/ connHandle[queue[i].owner] # NoHandle
          \/ \E j \in Positions :
                j < i /\ queue[j].type = "CONNECT_OK" /\ queue[j].owner = queue[i].owner
        BY <1>1, <2>2 DEF LifeInv, LaterInv
    <3>2. QED
        BY <1>1, <2>2, <3>1
  <2>3. QED
    BY <1>1, <2>1, <2>2
<1>9. LastInv'
  <2> SUFFICES ASSUME NEW i \in Positions', NEW j \in Positions',
                      queue'[i].type = "DISCONNECT", queue'[j].owner = queue'[i].owner
               PROVE  j <= i
    BY DEF LastInv
  <2>1. CASE i = n
    BY <1>1, <2>1
  <2>2. CASE i \in Positions
    <3>1. queue[i].owner # e
        BY <1>1, <1>3, <2>2
    <3>2. j \in Positions
        BY <1>1, <2>2, <3>1 DEF e
    <3>3. QED
        BY <1>1, <2>2, <3>2 DEF LifeInv, LastInv
  <2>3. QED
    BY <1>1, <2>1, <2>2
<1>10. QED
    BY <1>5, <1>6, <1>7, <1>8, <1>9 DEF LifeInv

\* An attempt ends: the queue had nothing for its engine.
LEMMA LifeAnswered ==
    ASSUME Base, LifeInv, Orderly, NEW ev \in Events, queue' = Append(queue, ev),
           UNCHANGED <<connHandle, target>>, capacity' = capacity,
           SendsFail(ev) \/ \E h \in Handles : SendsOk(ev, h)
    PROVE  LifeInv'
<1> DEFINE n == Len(queue) + 1
           e == ev.owner
<1>1. /\ n \in Positions' /\ queue'[n] = ev
      /\ Positions' = Positions \cup {n}
      /\ \A i \in Positions : i \in Positions' /\ queue'[i] = queue[i] /\ i < n /\ i <= n /\ i \in Int
      /\ n \in Int
    BY Appended DEF Base, Inv, TypeOK, HostTypeOK, QueueTypeOK, Positions
<1> HIDE DEF n, e
<1>2. dial # NoDial /\ dial' = NoDial /\ dial.owner = e
    BY DEF SendsFail, SendsOk, Dialing, e
<1>3. /\ connHandle[e] = NoHandle /\ dial.peer = target[e]
      /\ \A i \in Positions : queue[i].owner # e
      /\ \A h \in Handles : ~(link[h] # NoLink /\ link[h].owner = e)
    BY <1>2 DEF LifeInv, DialInv, Owns
<1>4. Made' /\ DialInv'
    BY <1>2 DEF LifeInv, Made, DialInv
<1>5. /\ ev.type \in Results /\ ev.owner = e
      /\ ev.type = "CONNECT_FAIL" => UNCHANGED link
      /\ ev.type = "CONNECT_OK" => ev.op = "NONE"
    BY DEF SendsFail, SendsOk, Event, Results, e
<1>6. /\ LinkInv'
      /\ \A h \in Handles : link'[h] # NoLink =>
            \/ link[h] # NoLink /\ link'[h].owner = link[h].owner
            \/ ev.type = "CONNECT_OK" /\ link'[h].owner = e
  <2>1. ASSUME NEW k \in Handles, link[k] # NoLink, link'[k] = link[k],
               \A m \in Handles : link'[m] # NoLink => link'[m] = link[m] \/ link'[m].owner = e
        PROVE  KnownLink(k)'
    <3> DEFINE o == link[k].owner
    <3>1. KnownLink(k) /\ o # e
        BY <1>3, <2>1 DEF LifeInv, LinkInv
    <3>2. \A m \in Handles : link'[m] # NoLink /\ link'[m].owner = o => m = k
        BY <2>1, <3>1 DEF KnownLink, Owns
    <3>3. \/ connHandle[o] = k
          \/ /\ connHandle[o] = NoHandle /\ link[k].procs = <<>>
             /\ \E i \in Positions' : queue'[i].type = "CONNECT_OK" /\ queue'[i].owner = o /\ queue'[i].handle = k
        BY <1>1, <3>1 DEF KnownLink, Started
    <3>4. \A i \in Positions' : queue'[i].type = "DISCONNECT" => queue'[i].owner # o /\ queue'[i].handle # k
        BY <1>1, <1>5, <3>1 DEF KnownLink, Results
    <3>5. QED
        BY <2>1, <3>1, <3>2, <3>3, <3>4 DEF KnownLink, Owns, Started
  <2>2. CASE SendsFail(ev)
    BY <2>1, <2>2 DEF SendsFail, LinkInv
  <2>3. ASSUME NEW h \in Handles, SendsOk(ev, h)
        PROVE  /\ LinkInv'
               /\ \A k \in Handles : link'[k] # NoLink =>
                     \/ link[k] # NoLink /\ link'[k].owner = link[k].owner
                     \/ ev.type = "CONNECT_OK" /\ link'[k].owner = e
    <3>1. /\ link[h] = NoLink /\ link'[h] # NoLink
          /\ link'[h].owner = e /\ link'[h].peer = dial.peer /\ link'[h].procs = <<>>
          /\ \A k \in Handles : k # h => link'[k] = link[k]
          /\ ev.type = "CONNECT_OK" /\ ev.handle = h
        BY <2>3 DEF SendsOk, Event, e
    <3>2. \A i \in Positions : queue[i].type = "DISCONNECT" => queue[i].handle # h
        BY <2>3 DEF SendsOk, Orderly, EndQueued, Positions
    <3>3. KnownLink(h)'
      <4>1. \A m \in Handles : link'[m] # NoLink /\ link'[m].owner = e => m = h
          BY <1>3, <3>1
      <4>2. \E i \in Positions' : queue'[i].type = "CONNECT_OK" /\ queue'[i].owner = e /\ queue'[i].handle = h
          BY <1>1, <1>5, <3>1
      <4>3. \A i \in Positions' : queue'[i].type = "DISCONNECT" => queue'[i].owner # e /\ queue'[i].handle # h
          BY <1>1, <1>3, <3>1, <3>2
      <4>4. 1 .. Len(link'[h].procs) = {}
          BY <3>1
      <4>5. UNCHANGED <<target, connHandle>>
          OBVIOUS
      <4>6. QED
          BY <1>3, <3>1, <4>1, <4>2, <4>3, <4>4, <4>5 DEF KnownLink, Owns, Started
    <3>4. QED
        BY <2>1, <3>1, <3>3 DEF LinkInv
  <2>4. QED
    BY <2>2, <2>3 DEF SendsFail
<1>7. FirstInv'
  <2> SUFFICES ASSUME NEW i \in Positions', queue'[i].type \in Results
               PROVE  /\ connHandle[queue'[i].owner] = NoHandle
                      /\ \A j \in Positions' : queue'[j].owner = queue'[i].owner =>
                            /\ i <= j
                            /\ queue'[j].type \notin {"DISC_DONE", "ATTR_OP"}
                            /\ queue'[i].type = "CONNECT_FAIL" => i = j
                      /\ queue'[i].type = "CONNECT_FAIL" => \A k \in Handles :
                            ~(link'[k] # NoLink /\ link'[k].owner = queue'[i].owner)
                      /\ queue'[i].type = "CONNECT_OK" => queue'[i].op = "NONE"
    BY DEF FirstInv, Owns
  <2>1. CASE i = n
    <3>1. \A j \in Positions' : queue'[j].owner = e => j = n
        BY <1>1, <1>3
    <3>2. queue'[i] = ev /\ ev.owner = e /\ ev.type \in {"CONNECT_OK", "CONNECT_FAIL"}
        BY <1>1, <1>5, <2>1 DEF Results
    <3>3. ev.type = "CONNECT_FAIL" => \A k \in Handles : ~(link'[k] # NoLink /\ link'[k].owner = e)
        BY <1>3, <1>5
    <3>4. n <= n
        BY <1>1
    <3>5. QED
        BY <1>3, <1>5, <2>1, <3>1, <3>2, <3>3, <3>4
  <2>2. CASE i \in Positions
    <3>1. /\ connHandle[queue[i].owner] = NoHandle
          /\ \A j \in Positions : queue[j].owner = queue[i].owner =>
                /\ i <= j
                /\ queue[j].type \notin {"DISC_DONE", "ATTR_OP"}
                /\ queue[i].type = "CONNECT_FAIL" => i = j
          /\ queue[i].type = "CONNECT_FAIL" => \A k \in Handles : ~Owns(queue[i].owner, k)
          /\ queue[i].type = "CONNECT_OK" => queue[i].op = "NONE"
        BY <1>1, <2>2 DEF LifeInv, FirstInv
    <3>2. queue[i].owner # e /\ queue'[i] = queue[i]
        BY <1>1, <1>3, <2>2
    <3>3. QED
        BY <1>1, <1>5, <1>6, <3>1, <3>2 DEF Owns
  <2>3. QED
    BY <1>1, <2>1, <2>2
<1>8. LaterInv'
  <2> SUFFICES ASSUME NEW i \in Positions', queue'[i].type \notin Results
               PROVE  \/ connHandle[queue'[i].owner] # NoHandle
                      \/ \E j \in Positions' :
                            j < i /\ queue'[j].type = "CONNECT_OK" /\ queue'[j].owner = queue'[i].owner
    BY DEF LaterInv
  <2>1. i \in Positions /\ queue'[i] = queue[i]
    BY <1>1, <1>5
  <2>2. \/ connHandle[queue[i].owner] # NoHandle
        \/ \E j \in Positions :
              j < i /\ queue[j].type = "CONNECT_OK" /\ queue[j].owner = queue[i].owner
    BY <2>1 DEF LifeInv, LaterInv
  <2>3. QED
    BY <1>1, <2>1, <2>2
<1>9. LastInv'
  <2> SUFFICES ASSUME NEW i \in Positions', NEW j \in Positions',
                      queue'[i].type = "DISCONNECT", queue'[j].owner = queue'[i].owner
               PROVE  j <= i
    BY DEF LastInv
  <2>1. i \in Positions
    BY <1>1, <1>5 DEF Results
  <2>2. j \in Positions
    BY <1>1, <1>3, <1>5, <2>1
  <2>3. QED
    BY <1>1, <2>1, <2>2 DEF LifeInv, LastInv
<1>10. QED
    BY <1>4, <1>6, <1>7, <1>8, <1>9 DEF LifeInv

LEMMA LifeHost ==
    ASSUME Base, LifeInv, Orderly, HostStep, UNCHANGED <<connHandle, target>>
    PROVE  LifeInv'
<1>1. ASSUME NEW h \in Handles, Breaks(h) PROVE LifeInv'
  <2>1. /\ \A k \in Handles : (link'[k] # NoLink) <=> (link[k] # NoLink)
        /\ \A k \in Handles : link[k] # NoLink =>
              /\ link'[k].owner = link[k].owner /\ link'[k].peer = link[k].peer
              /\ link'[k].procs = link[k].procs
        /\ UNCHANGED <<queue, capacity, dial>>
    BY <1>1 DEF Breaks
  <2>2. LinkInv'
    BY <2>1 DEF LifeInv, LinkInv, KnownLink, Owns, Started, Positions
  <2>3. QED
    BY <2>1, <2>2 DEF LifeInv, Made, DialInv, FirstInv, LaterInv, LastInv, Owns, Positions
<1>2. ASSUME NEW ev \in Events, Push(ev), KeepsUp,
             \/ SendsFail(ev)
             \/ \E h \in Handles : \/ SendsOk(ev, h) \/ SendsEnd(ev, h)
                                   \/ SendsAnswer(ev, h) \/ SendsOther(ev, h)
      PROVE  LifeInv'
  <2>1. capacity' = capacity /\ queue' = Append(queue, ev)
    BY <1>2, PushKeeps DEF LifeInv, Made, Orderly, Base, Inv, TypeOK, HostTypeOK
  <2>2. CASE SendsFail(ev) \/ \E h \in Handles : SendsOk(ev, h)
    BY <2>1, <2>2, LifeAnswered
  <2>3. ASSUME NEW h \in Handles, SendsEnd(ev, h) PROVE LifeInv'
    BY <2>1, <2>3, LifeTold DEF SendsEnd, Event, Results
  <2>4. ASSUME NEW h \in Handles, SendsAnswer(ev, h) PROVE LifeInv'
    <3>1. KnownLink(h) /\ link[h].procs \in Seq(Procs) /\ link[h].procs # <<>>
        BY <2>4 DEF SendsAnswer, LifeInv, LinkInv, Base, Inv, TypeOK, HostTypeOK, LinkTypeOK, Links
    <3>2. 1 \in 1 .. Len(link[h].procs) /\ Head(link[h].procs) = link[h].procs[1]
        BY <3>1
    <3>3. ev.owner = link[h].owner /\ connHandle[ev.owner] = h
        BY <2>4, <3>1, <3>2 DEF SendsAnswer, KnownLink
    <3>4. ev.type \in {"DISC_DONE", "ATTR_OP"}
        BY <2>4 DEF SendsAnswer
    <3>5. QED
        BY <2>1, <2>4, <3>3, <3>4, LifeTold DEF SendsAnswer, Owns, Results
  <2>5. ASSUME NEW h \in Handles, SendsOther(ev, h) PROVE LifeInv'
    BY <2>1, <2>5, LifeTold DEF SendsOther, Results
  <2>6. QED
    BY <1>2, <2>2, <2>3, <2>4, <2>5
<1>3. QED
    BY <1>1, <1>2, HostKinds DEF Base

-----------------------------------------------------------------------------
(* Steps of the main thread.                                               *)

\* An engine that connect() accepts has nothing queued and no link.
LEMMA NothingLeft ==
    ASSUME Base, LifeInv, Orderly, NEW e \in Engines, connHandle[e] = NoHandle, NothingLate(e)
    PROVE  /\ \A i \in Positions : queue[i].owner # e
           /\ \A h \in Handles : ~Owns(e, h)
<1>1. \A i \in Positions : queue[i].owner = e => queue[i].type \notin Results
    BY DEF Orderly, NothingLate, QueuedFor, Positions, Results
<1>2. \A i \in Positions : queue[i].owner # e
    BY <1>1 DEF LifeInv, LaterInv, Results
<1>3. \A h \in Handles : ~Owns(e, h)
    BY <1>2, HostAssumption DEF LifeInv, LinkInv, KnownLink, Owns, Started
<1>4. QED
    BY <1>2, <1>3

LEMMA LifeConnect ==
    ASSUME Base, LifeInv, Orderly, NEW e \in Engines, NEW p \in Peers, NEW s \in ConnStates,
           ConnectFrom(e, p, s), NothingLate(e)
    PROVE  LifeInv'
<1>1. /\ connHandle[e] = NoHandle /\ UNCHANGED <<queue, capacity, link, connHandle>>
      /\ dial' # NoDial /\ dial'.owner = e /\ dial'.peer = p
      /\ target' = [target EXCEPT ![e] = p]
  <2>1. [owner |-> e, peer |-> p, cancelled |-> FALSE] \in Dials
    BY DEF Dials
  <2>2. QED
    BY <2>1, HostAssumption DEF ConnectFrom, MayConnect
<1>2. /\ \A i \in Positions : queue[i].owner # e
      /\ \A h \in Handles : ~Owns(e, h)
    BY <1>1, NothingLeft
<1>3. target'[e] = p /\ \A d \in Engines : d # e => target'[d] = target[d]
    BY <1>1 DEF Base, Inv, TypeOK
<1>4. Made' /\ DialInv'
    BY <1>1, <1>2, <1>3 DEF LifeInv, Made, DialInv, Owns, Positions
<1>5. \A h \in Handles : link[h] # NoLink => link[h].owner \in Engines /\ link[h].owner # e
    BY <1>2 DEF Owns, Base, Inv, TypeOK, HostTypeOK, LinkTypeOK, Links
<1>6. LinkInv'
    BY <1>1, <1>3, <1>5 DEF LifeInv, LinkInv, KnownLink, Owns, Started, Positions
<1>7. QED
    BY <1>1, <1>4, <1>6 DEF LifeInv, FirstInv, LaterInv, LastInv, Owns, Positions

\* A call into the host leaves a link known, if its engine knows it still.
LEMMA CallsKeepKnown ==
    ASSUME Base, LifeInv, LinksKept, NEW h \in Handles, link'[h] # NoLink
    PROVE  /\ KnownLink(h) /\ link[h] # NoLink
           /\ link'[h].owner = link[h].owner /\ link'[h].peer = link[h].peer
           /\ \A k \in Handles : link'[k] # NoLink /\ link'[k].owner = link[h].owner => k = h
           /\ \A p \in 1 .. Len(link'[h].procs) : link'[h].procs[p].owner = link[h].owner
           /\ connHandle[link[h].owner] # h => link'[h].procs = <<>>
<1>1. /\ link[h] # NoLink /\ link'[h].owner = link[h].owner /\ link'[h].peer = link[h].peer
      /\ \/ link'[h].procs = link[h].procs
         \/ \E e \in Engines, k \in Ops \cup {"DISC"} :
               /\ connHandle[e] = h
               /\ link'[h].procs = Append(link[h].procs, [kind |-> k, owner |-> e])
    BY DEF LinksKept, LinkKept
<1>2. KnownLink(h)
    BY <1>1 DEF LifeInv, LinkInv
<1>3. \A k \in Handles : link'[k] # NoLink /\ link'[k].owner = link[h].owner => k = h
    BY <1>2 DEF LinksKept, LinkKept, KnownLink, Owns
<1>4. \A e \in Engines : connHandle[e] = h => e = link[h].owner
  <2> SUFFICES ASSUME NEW e \in Engines, connHandle[e] = h PROVE e = link[h].owner
    OBVIOUS
  <2>1. Owns(e, h) \/ \E i \in Positions : Ended(i, e, h)
    BY DEF Base, HandlesInv, HeldInv
  <2>2. QED
    BY <1>2, <2>1 DEF KnownLink, Owns, Ended
<1>5. /\ \A p \in 1 .. Len(link'[h].procs) : link'[h].procs[p].owner = link[h].owner
      /\ connHandle[link[h].owner] # h => link'[h].procs = <<>>
  <2>1. CASE link'[h].procs = link[h].procs
    BY <1>2, <2>1 DEF KnownLink
  <2>2. ASSUME NEW e \in Engines, NEW k \in Ops \cup {"DISC"}, connHandle[e] = h,
               link'[h].procs = Append(link[h].procs, [kind |-> k, owner |-> e])
        PROVE  /\ \A p \in 1 .. Len(link'[h].procs) : link'[h].procs[p].owner = link[h].owner
               /\ connHandle[link[h].owner] # h => link'[h].procs = <<>>
    <3>1. e = link[h].owner
        BY <1>4, <2>2
    <3>2. link[h].procs \in Seq(Procs)
        BY <1>1 DEF Base, Inv, TypeOK, HostTypeOK, LinkTypeOK, Links
    <3> DEFINE q == link[h].procs
               x == [kind |-> k, owner |-> e]
               q2 == Append(q, x)
    <3>3. \A p \in 1 .. Len(q2) : IF p = Len(q) + 1 THEN q2[p] = x ELSE p \in 1 .. Len(q) /\ q2[p] = q[p]
        BY <3>2
    <3>4. link'[h].procs = q2
        BY <2>2
    <3> HIDE DEF q2
    <3>5. \A p \in 1 .. Len(q2) : q2[p].owner = link[h].owner
        BY <1>2, <3>1, <3>3 DEF KnownLink
    <3>6. QED
        BY <2>2, <3>1, <3>4, <3>5
  <2>3. QED
    BY <1>1, <2>1, <2>2
<1>6. QED
    BY <1>1, <1>2, <1>3, <1>5

LEMMA LifeCalm ==
    ASSUME Base, LifeInv, Calm
    PROVE  LifeInv'
<1>1. UNCHANGED <<queue, connHandle, target>> /\ LinksKept
    BY DEF Calm
<1>2. capacity' = capacity
  <2>1. capacity = QueueCapacity /\ QueueCapacity \in Nat \ {0}
    BY HostAssumption DEF LifeInv, Made
  <2>2. QED
    BY <2>1 DEF Calm, Created, NoQueue
<1>3. /\ dial' # NoDial => dial # NoDial
      /\ dial # NoDial => dial'.owner = dial.owner /\ dial'.peer = dial.peer
    BY DEF Calm, Base, Inv, TypeOK, HostTypeOK, Dials
<1>4. \A h \in Handles : link'[h] # NoLink => link[h] # NoLink /\ link'[h].owner = link[h].owner
    BY <1>1 DEF LinksKept, LinkKept
<1>5. LinkInv'
  <2> SUFFICES ASSUME NEW h \in Handles, link'[h] # NoLink PROVE KnownLink(h)'
    BY DEF LinkInv
  <2>1. /\ KnownLink(h) /\ link[h] # NoLink
        /\ link'[h].owner = link[h].owner /\ link'[h].peer = link[h].peer
        /\ \A k \in Handles : link'[k] # NoLink /\ link'[k].owner = link[h].owner => k = h
        /\ \A p \in 1 .. Len(link'[h].procs) : link'[h].procs[p].owner = link[h].owner
        /\ connHandle[link[h].owner] # h => link'[h].procs = <<>>
    BY <1>1, CallsKeepKnown
  <2>2. QED
    BY <1>1, <2>1 DEF KnownLink, Owns, Started, Positions
<1>6. Made' /\ DialInv'
    BY <1>1, <1>2, <1>3, <1>4 DEF LifeInv, Made, DialInv, Owns, Positions
<1>7. FirstInv'
    BY <1>1, <1>4 DEF LifeInv, FirstInv, Owns, Positions
<1>8. LaterInv' /\ LastInv'
    BY <1>1 DEF LifeInv, LaterInv, LastInv, Positions
<1>9. QED
    BY <1>5, <1>6, <1>7, <1>8 DEF LifeInv

\* What the first event finds.
LEMMA HeadFinds ==
    ASSUME Base, LifeInv, queue # <<>>
    PROVE  LET ev == Head(queue)
           IN  /\ ev = queue[1] /\ 1 \in Positions /\ ev \in Events /\ ev.owner \in Engines
               /\ ev.type \in Results =>
                     /\ connHandle[ev.owner] = NoHandle
                     /\ ev.type = "CONNECT_OK" => ev.handle \in Handles /\ ev.handle # NoHandle
                     /\ \A i \in Positions :
                           queue[i].owner = ev.owner /\ queue[i].type \in Results => i = 1
               /\ ev.type \notin Results => connHandle[ev.owner] # NoHandle
               /\ ev.type = "CONNECT_FAIL" =>
                     /\ \A i \in Positions : queue[i].owner = ev.owner => i = 1
                     /\ \A h \in Handles : ~Owns(ev.owner, h)
               /\ ev.type = "DISCONNECT" =>
                     /\ \A i \in Positions : queue[i].owner = ev.owner => i = 1
                     /\ \A h \in Handles : ~Owns(ev.owner, h)
<1> DEFINE ev == Head(queue)
<1>1. queue \in Seq(Events)
    BY DEF Base, Inv, TypeOK, HostTypeOK, QueueTypeOK
<1>2. ev = queue[1] /\ 1 \in Positions /\ \A i \in Positions : i \in Nat /\ 1 <= i
    BY <1>1 DEF Positions
<1>3. ev \in Events /\ ev.owner \in Engines
    BY <1>1, <1>2, EventTypes
<1> HIDE DEF ev
<1>4. ev.type \in Results =>
         /\ connHandle[ev.owner] = NoHandle
         /\ ev.type = "CONNECT_OK" => ev.handle \in Handles /\ ev.handle # NoHandle
         /\ \A i \in Positions :
               queue[i].owner = ev.owner /\ queue[i].type \in Results => i = 1
    BY <1>2, HostAssumption DEF LifeInv, FirstInv, Base, AttemptsInv, OutcomeInv
<1>5. ev.type \notin Results => connHandle[ev.owner] # NoHandle
    BY <1>2 DEF LifeInv, LaterInv
<1>6. ev.type = "CONNECT_FAIL" =>
         /\ \A i \in Positions : queue[i].owner = ev.owner => i = 1
         /\ \A h \in Handles : ~Owns(ev.owner, h)
    BY <1>2 DEF LifeInv, FirstInv, Results
<1>7. ev.type = "DISCONNECT" =>
         /\ \A i \in Positions : queue[i].owner = ev.owner => i = 1
         /\ \A h \in Handles : ~Owns(ev.owner, h)
  <2> SUFFICES ASSUME ev.type = "DISCONNECT"
               PROVE  /\ \A i \in Positions : queue[i].owner = ev.owner => i = 1
                      /\ \A h \in Handles : ~Owns(ev.owner, h)
    OBVIOUS
  <2>1. \A i \in Positions : queue[i].owner = ev.owner => i <= 1
    BY <1>2 DEF LifeInv, LastInv
  <2>2. \A h \in Handles : ~Owns(ev.owner, h)
    BY <1>2 DEF LifeInv, LinkInv, KnownLink, Owns
  <2>3. QED
    BY <1>2, <2>1, <2>2
<1>8. QED
    BY <1>2, <1>3, <1>4, <1>5, <1>6, <1>7 DEF ev

LEMMA LifePop ==
    ASSUME Base, LifeInv, Pop
    PROVE  LifeInv'
<1> DEFINE ev == Head(queue)
           e == ev.owner
<1>1. /\ queue \in Seq(Events) /\ queue # <<>> /\ queue' = Tail(queue) /\ LinksKept
      /\ UNCHANGED <<capacity, dial, target>>
      /\ connHandle \in [Engines -> Handles \cup {NoHandle}] /\ NoHandle \notin Handles
    BY PopKinds, HostAssumption DEF Base, Inv, TypeOK, HostTypeOK, QueueTypeOK
<1>2. \A i \in Positions' : /\ i \in Int /\ i + 1 \in Int /\ i + 1 # 1
                            /\ i + 1 \in Positions /\ queue'[i] = queue[i + 1]
                            /\ queue'[i].owner \in Engines
    BY <1>1, Popped, EventTypes DEF Positions
<1>3. \A i \in Positions : i \in Int /\ (i # 1 => i - 1 \in Positions' /\ queue'[i - 1] = queue[i])
    BY <1>1, Popped DEF Positions
<1>4. /\ ev = queue[1] /\ 1 \in Positions /\ e \in Engines
      /\ ev.type \in Results =>
            /\ connHandle[e] = NoHandle
            /\ ev.type = "CONNECT_OK" => ev.handle \in Handles /\ ev.handle # NoHandle
            /\ \A i \in Positions : queue[i].owner = e /\ queue[i].type \in Results => i = 1
      /\ ev.type \notin Results => connHandle[e] # NoHandle
      /\ ev.type \in {"CONNECT_FAIL", "DISCONNECT"} =>
            /\ \A i \in Positions : queue[i].owner = e => i = 1
            /\ \A h \in Handles : ~Owns(e, h)
    BY <1>1, HeadFinds
<1>5. /\ \A d \in Engines : d # e => connHandle'[d] = connHandle[d]
      /\ ev.type = "CONNECT_OK" => connHandle'[e] = ev.handle
      /\ ev.type \notin {"CONNECT_OK", "CONNECT_FAIL", "DISCONNECT"} => connHandle'[e] = connHandle[e]
  <2>1. connHandle' = CASE ev.type = "CONNECT_OK" -> [connHandle EXCEPT ![e] = ev.handle]
                        [] ev.type \in {"CONNECT_FAIL", "DISCONNECT"} ->
                              [connHandle EXCEPT ![e] = NoHandle]
                        [] OTHER -> connHandle
    BY PopKinds DEF Base
  <2> HIDE DEF ev, e
  <2>2. QED
    BY <1>1, <1>4, <2>1
<1>6. \A h \in Handles : link'[h] # NoLink => link[h] # NoLink /\ link'[h].owner = link[h].owner
    BY <1>1 DEF LinksKept, LinkKept
<1> HIDE DEF ev, e
<1>7. Made'
    BY <1>1 DEF LifeInv, Made
<1>8. DialInv'
  <2> SUFFICES ASSUME dial # NoDial PROVE DialInv'
    BY <1>1 DEF DialInv
  <2> DEFINE d == dial.owner
  <2>1. /\ connHandle[d] = NoHandle /\ dial.peer = target[d]
        /\ \A i \in Positions : queue[i].owner # d
        /\ \A h \in Handles : ~Owns(d, h)
    BY DEF LifeInv, DialInv
  <2>2. d \in Engines /\ d # e
    BY <1>4, <2>1 DEF Base, Inv, TypeOK, HostTypeOK, Dials, e
  <2>3. QED
    BY <1>1, <1>2, <1>5, <1>6, <2>1, <2>2 DEF DialInv, Owns
<1>9. LinkInv'
  <2> SUFFICES ASSUME NEW h \in Handles, link'[h] # NoLink PROVE KnownLink(h)'
    BY DEF LinkInv
  <2> DEFINE o == link[h].owner
  <2>1. /\ KnownLink(h) /\ link[h] # NoLink
        /\ link'[h].owner = o /\ link'[h].peer = link[h].peer
        /\ \A k \in Handles : link'[k] # NoLink /\ link'[k].owner = o => k = h
        /\ \A p \in 1 .. Len(link'[h].procs) : link'[h].procs[p].owner = o
        /\ connHandle[o] # h => link'[h].procs = <<>>
    BY <1>1, CallsKeepKnown
  <2>2. o \in Engines /\ Owns(o, h)
    BY <2>1 DEF Owns, Base, Inv, TypeOK, HostTypeOK, LinkTypeOK, Links
  <2>3. \/ connHandle'[o] = h
        \/ /\ connHandle'[o] = NoHandle /\ link'[h].procs = <<>>
           /\ \E i \in Positions' : queue'[i].type = "CONNECT_OK" /\ queue'[i].owner = o /\ queue'[i].handle = h
    <3>1. \/ connHandle[o] = h
          \/ /\ connHandle[o] = NoHandle
             /\ \E i \in Positions : queue[i].type = "CONNECT_OK" /\ queue[i].owner = o /\ queue[i].handle = h
        BY <2>1 DEF KnownLink, Started
    <3>2. CASE o # e
      <4>1. connHandle'[o] = connHandle[o] /\ queue[1].owner # o
          BY <1>4, <1>5, <2>2, <3>2 DEF e
      <4>2. QED
          BY <1>1, <1>3, <2>1, <3>1, <4>1
    <3>3. CASE o = e /\ ev.type = "CONNECT_OK"
      <4>1. PICK i \in Positions : queue[i].type = "CONNECT_OK" /\ queue[i].owner = e /\ queue[i].handle = h
          BY <1>1, <1>4, <3>1, <3>3 DEF Results
      <4>2. i = 1
          BY <1>4, <3>3, <4>1 DEF Results
      <4>3. QED
          BY <1>4, <1>5, <3>3, <4>1, <4>2
    <3>4. CASE o = e /\ ev.type # "CONNECT_OK"
      <4>1. ev.type \notin {"CONNECT_OK", "CONNECT_FAIL", "DISCONNECT"}
          BY <1>4, <2>2, <3>4
      <4>2. connHandle'[e] = connHandle[e] /\ connHandle[e] # NoHandle
          BY <1>4, <1>5, <4>1 DEF Results
      <4>3. QED
          BY <3>1, <3>4, <4>2
    <3>5. QED
        BY <3>2, <3>3, <3>4
  <2>4. \A i \in Positions' : queue'[i].type = "DISCONNECT" => queue'[i].owner # o /\ queue'[i].handle # h
    BY <1>2, <2>1 DEF KnownLink
  <2>5. link'[h].peer = target'[o]
    BY <1>1, <2>1 DEF KnownLink
  <2>6. QED
    BY <2>1, <2>3, <2>4, <2>5 DEF KnownLink, Owns, Started
<1>10. FirstInv'
  <2> SUFFICES ASSUME NEW i \in Positions', queue'[i].type \in Results
               PROVE  /\ connHandle'[queue'[i].owner] = NoHandle
                      /\ \A j \in Positions' : queue'[j].owner = queue'[i].owner =>
                            /\ i <= j
                            /\ queue'[j].type \notin {"DISC_DONE", "ATTR_OP"}
                            /\ queue'[i].type = "CONNECT_FAIL" => i = j
                      /\ queue'[i].type = "CONNECT_FAIL" => \A k \in Handles :
                            ~(link'[k] # NoLink /\ link'[k].owner = queue'[i].owner)
                      /\ queue'[i].type = "CONNECT_OK" => queue'[i].op = "NONE"
    BY DEF FirstInv, Owns
  <2>1. i + 1 \in Positions /\ queue'[i] = queue[i + 1] /\ queue'[i].owner \in Engines
    BY <1>2
  <2>2. /\ connHandle[queue[i + 1].owner] = NoHandle
        /\ \A j \in Positions : queue[j].owner = queue[i + 1].owner =>
              /\ i + 1 <= j
              /\ queue[j].type \notin {"DISC_DONE", "ATTR_OP"}
              /\ queue[i + 1].type = "CONNECT_FAIL" => i + 1 = j
        /\ queue[i + 1].type = "CONNECT_FAIL" => \A h \in Handles : ~Owns(queue[i + 1].owner, h)
        /\ queue[i + 1].type = "CONNECT_OK" => queue[i + 1].op = "NONE"
    BY <2>1 DEF LifeInv, FirstInv
  <2>3. queue'[i].owner # e
    BY <1>2, <1>4, <2>1, <2>2 DEF e, Positions
  <2>4. connHandle'[queue'[i].owner] = NoHandle
    BY <1>5, <2>1, <2>2, <2>3
  <2>5. \A j \in Positions' : queue'[j].owner = queue'[i].owner =>
            /\ i <= j
            /\ queue'[j].type \notin {"DISC_DONE", "ATTR_OP"}
            /\ queue'[i].type = "CONNECT_FAIL" => i = j
    BY <1>2, <2>1, <2>2
  <2>6. QED
    BY <1>6, <2>1, <2>2, <2>4, <2>5 DEF Owns
<1>11. LaterInv'
  <2> SUFFICES ASSUME NEW i \in Positions', queue'[i].type \notin Results
               PROVE  \/ connHandle'[queue'[i].owner] # NoHandle
                      \/ \E j \in Positions' :
                            j < i /\ queue'[j].type = "CONNECT_OK" /\ queue'[j].owner = queue'[i].owner
    BY DEF LaterInv
  <2>1. i + 1 \in Positions /\ queue'[i] = queue[i + 1] /\ queue'[i].owner \in Engines
    BY <1>2
  <2>2. \/ connHandle[queue[i + 1].owner] # NoHandle
        \/ \E j \in Positions :
              j < i + 1 /\ queue[j].type = "CONNECT_OK" /\ queue[j].owner = queue[i + 1].owner
    BY <2>1 DEF LifeInv, LaterInv
  <2>3. CASE queue'[i].owner # e
    <3>1. connHandle'[queue'[i].owner] = connHandle[queue'[i].owner] /\ queue[1].owner # queue'[i].owner
        BY <1>4, <1>5, <2>1, <2>3 DEF e
    <3>2. \A j \in Positions : j < i + 1 /\ queue[j].owner = queue'[i].owner =>
             j - 1 \in Positions' /\ j - 1 < i /\ queue'[j - 1] = queue[j]
        BY <1>2, <1>3, <3>1
    <3>3. QED
        BY <2>1, <2>2, <3>1, <3>2
  <2>4. CASE queue'[i].owner = e
    <3>1. ev.type \notin {"CONNECT_FAIL", "DISCONNECT"}
        BY <1>2, <1>4, <2>1, <2>4
    <3>2. connHandle'[e] # NoHandle
        BY <1>4, <1>5, <3>1 DEF Results
    <3>3. QED
        BY <2>4, <3>2
  <2>5. QED
    BY <2>3, <2>4
<1>12. LastInv'
  <2> SUFFICES ASSUME NEW i \in Positions', NEW j \in Positions',
                      queue'[i].type = "DISCONNECT", queue'[j].owner = queue'[i].owner
               PROVE  j <= i
    BY DEF LastInv
  <2>1. j + 1 <= i + 1
    BY <1>2 DEF LifeInv, LastInv
  <2>2. QED
    BY <1>2, <2>1
<1>13. QED
    BY <1>7, <1>8, <1>9, <1>10, <1>11, <1>12 DEF LifeInv

LEMMA LifeNext ==
    ASSUME Base, LifeInv, Orderly, [Next]_vars
    PROVE  LifeInv'
BY StepKinds, LifeHost, LifeConnect, LifeCalm, LifePop DEF Base

LEMMA BaseNext ==
    ASSUME Orderly, Base, [Next]_vars
    PROVE  Base'
BY NextInv, HandlesNext, AttemptsNext DEF Base, Orderly

-----------------------------------------------------------------------------
(* Sessions: what a listener was told against what its engine has.         *)

\* The attempt of an engine is in progress, or its outcome on the way.
Awaiting(e) ==
    Dialing(e) \/ \E i \in Positions : queue[i].owner = e /\ queue[i].type \in Results

SessionInv ==
    \A e \in Engines :
        /\ Awaiting(e) => session[e] = IF reported[e] THEN "none" ELSE "asked"
        /\ session[e] = "asked" => Awaiting(e)
        /\ connHandle[e] # NoHandle <=> session[e] \in {"up", "settled"}
        /\ state[e] = "CONNECTING" => session[e] = "asked"
        /\ Dialing(e) /\ reported[e] => dial.cancelled
        /\ \A i \in Positions :
              queue[i].owner = e /\ queue[i].type = "CONNECT_OK" => ~reported[e]

\* A callback is over before the deadline is polled, and "up" finds a handle.
CallInv ==
    cb # NoCall => main.at # "poll" /\ (cb.kind = "up" => connHandle[cb.to] # NoHandle)

SessionsInv == Base /\ LifeInv /\ SessionInv /\ CallInv

\* A step of the main thread that tells no listener anything, or ends a callback.
Quiet ==
    /\ Calm
    /\ UNCHANGED <<session, reported>>
    /\ cb' = cb \/ (cb # NoCall /\ cb' = NoCall)
    /\ main'.at = "poll" => main.at = "poll" \/ cb' = NoCall
    /\ \A e \in Engines : state'[e] = "CONNECTING" => state[e] = "CONNECTING"

\* A deadline comes due: of an attempt, or of a discovery.
Fired(e) ==
    /\ Calm /\ NothingLate(e)
    /\ main.at = "poll" /\ main'.at = "idle"
    /\ connHandle[e] = NoHandle /\ dial' # NoDial => dial'.cancelled
    /\ pendingOp' = [pendingOp EXCEPT ![e] = "NONE"]
    /\ \A d \in Engines : d # e =>
          state'[d] = state[d] /\ session'[d] = session[d] /\ reported'[d] = reported[d]
    /\ \/ /\ state[e] = "CONNECTING" /\ reported'[e]
          /\ Told(e, "CONNECT_TIMEOUT", "down", "none")
       \/ /\ state[e] = "DISCOVERING" /\ UNCHANGED reported
          /\ Told(e, "DISCOVER_TIMEOUT", "undiscovered", "settled")

LEMMA PollFired ==
    ASSUME Inv, NEW e \in Engines, PollFires(e)
    PROVE  Fired(e)
<1>1. /\ state \in [Engines -> ConnStates] /\ reported \in [Engines -> BOOLEAN]
      /\ session \in [Engines -> {"none", "asked", "up", "settled"}]
      /\ dial \in Dials \cup {NoDial}
    BY DEF Inv, TypeOK, HostTypeOK
<1>2. Calm
    BY CallsAreCalm
<1>3. /\ main.at = "poll" /\ main'.at = "idle" /\ NothingLate(e)
      /\ pendingOp' = [pendingOp EXCEPT ![e] = "NONE"]
      /\ state' = [state EXCEPT ![e] = After(state[e], TimeoutEvent(state[e]))]
      /\ state[e] \in {"CONNECTING", "DISCOVERING"}
    BY DEF PollFires, Idle, HandleFsmEvent, Deadlined
<1>4. connHandle[e] = NoHandle /\ dial' # NoDial => dial'.cancelled
  <2>1. \A d \in Dials : [d EXCEPT !.cancelled = TRUE].cancelled
    BY DEF Dials
  <2>2. QED
    BY <1>1, <2>1 DEF PollFires, CancelDial
<1>5. CASE state[e] = "CONNECTING"
  <2>1. ~reported[e]
    BY <1>5 DEF Inv, AttemptIsOpen
  <2>2. Raise(e, "down") /\ reported' = [reported EXCEPT ![e] = TRUE]
    BY <1>5, <2>1 DEF PollFires
  <2>3. TimeoutEvent(state[e]) = "CONNECT_TIMEOUT"
    BY <1>5 DEF TimeoutEvent
  <2>4. QED
    BY <1>1, <1>2, <1>3, <1>4, <1>5, <2>2, <2>3 DEF Fired, Told, Raise
<1>6. CASE state[e] = "DISCOVERING"
  <2>1. Raise(e, "undiscovered") /\ UNCHANGED reported
    BY <1>6 DEF PollFires
  <2>2. TimeoutEvent(state[e]) = "DISCOVER_TIMEOUT"
    BY <1>6 DEF TimeoutEvent
  <2>3. QED
    BY <1>1, <1>2, <1>3, <1>4, <1>6, <2>1, <2>2 DEF Fired, Told, Raise
<1>7. QED
    BY <1>3, <1>5, <1>6

LEMMA SessionKinds ==
    ASSUME Inv, [Next]_vars
    PROVE  \/ HostStep /\ UNCHANGED <<engineVars, main, cb, session, target>>
           \/ \E e \in Engines, p \in Peers, s \in ConnStates :
                 ConnectFrom(e, p, s) /\ NothingLate(e) /\ cb = NoCall
           \/ Pop
           \/ Quiet
           \/ \E e \in Engines : Fired(e)
<1>1. state \in [Engines -> ConnStates] /\ main.at \in {"idle", "drain", "poll"}
    BY DEF Inv, TypeOK
<1>2. ASSUME NEW e \in Engines, NEW ev, ev # "CONNECT_REQUEST", HandleFsmEvent(e, ev)
      PROVE  \A d \in Engines : state'[d] = "CONNECTING" => state[d] = "CONNECTING"
    BY <1>1, <1>2, TableStep DEF HandleFsmEvent
<1>3. ASSUME NEW e \in Engines, GattDisconnect(e), UNCHANGED <<main, session>>,
             cb' = cb \/ (cb # NoCall /\ cb' = NoCall)
      PROVE  Quiet
  <2>1. HandleFsmEvent(e, "DISCONNECT_REQUEST") \/ UNCHANGED state
    BY <1>3 DEF GattDisconnect
  <2>2. UNCHANGED reported
    BY <1>3 DEF GattDisconnect
  <2>3. QED
    BY <1>2, <1>3, <2>1, <2>2, CallsAreCalm DEF Quiet
<1>4. ASSUME NEW e \in Engines, UserCall(e)
      PROVE  \/ Quiet
             \/ \E p \in Peers, s \in ConnStates :
                   ConnectFrom(e, p, s) /\ NothingLate(e) /\ cb = NoCall
  <2>1. state[e] \in ConnStates /\ After(state[e], "BACKOFF_ELAPSED") \in ConnStates
    BY <1>1, TableStep
  <2>2. cb = NoCall /\ UNCHANGED main
    BY <1>4 DEF UserCall
  <2>3. ASSUME NEW p \in Peers, RetryRefused(e, p) PROVE Quiet
    BY <1>2, <2>2, <2>3, Untouched DEF RetryRefused, hostVars, Calm, Quiet
  <2>4. ASSUME NEW op \in Ops, StartOp(e, op) PROVE Quiet
    BY <2>2, <2>4, CallsAreCalm DEF StartOp, Quiet
  <2>5. QED
    BY <1>3, <1>4, <2>1, <2>2, <2>3, <2>4 DEF UserCall, Connect, RetryConnect
<1>5. CASE CallbackReturns
  <2>1. cb.to \in Engines /\ cb # NoCall /\ cb' = NoCall /\ UNCHANGED <<main, session>>
    BY <1>5 DEF CallbackReturns, Inv, TypeOK, Callbacks
  <2>2. CASE UNCHANGED <<hostVars, engineVars, target>>
    BY <2>1, <2>2, Untouched DEF hostVars, engineVars, Calm, Quiet
  <2>3. CASE DiscoverServices(cb.to)
    BY <2>1, <2>3, CallsAreCalm DEF DiscoverServices, engineVars, Quiet
  <2>4. QED
    BY <1>3, <1>5, <2>1, <2>2, <2>3 DEF CallbackReturns
<1>6. ASSUME NEW e \in Engines, LoopBegins(e) PROVE Quiet
    BY <1>6, Untouched DEF LoopBegins, engineVars, Calm, Quiet
<1>7. CASE DrainEnds \/ PollQuiet \/ UNCHANGED vars
    BY <1>7, Untouched DEF DrainEnds, PollQuiet, Idle, vars, hostVars, engineVars, Calm, Quiet
<1>8. QED
    BY <1>4, <1>5, <1>6, <1>7, PollFired DEF Next, Loop

LEMMA CalmDial ==
    ASSUME dial \in Dials \cup {NoDial}, Calm
    PROVE  /\ \A e \in Engines : Dialing(e)' <=> Dialing(e)
           /\ dial # NoDial /\ dial.cancelled => dial'.cancelled
<1>1. CASE dial' = dial
    BY <1>1 DEF Dialing
<1>2. CASE dial # NoDial /\ dial' = [dial EXCEPT !.cancelled = TRUE]
  <2>1. /\ dial' \in Dials /\ dial'.owner = dial.owner /\ dial'.cancelled = TRUE
    BY <1>2 DEF Dials
  <2>2. dial' # NoDial
    BY <2>1, HostAssumption
  <2>3. QED
    BY <1>2, <2>1, <2>2 DEF Dialing
<1>3. QED
    BY <1>1, <1>2 DEF Calm

LEMMA SessionHost ==
    ASSUME SessionsInv, Orderly, HostStep, UNCHANGED <<engineVars, main, cb, session, target>>
    PROVE  SessionInv' /\ CallInv'
<1>1. UNCHANGED <<state, connHandle, reported, main, cb, session>>
    BY DEF engineVars
<1>2. CallInv'
    BY <1>1 DEF SessionsInv, CallInv
<1>3. queue \in Seq(Events) /\ Inv /\ QueueTypeOK
    BY DEF SessionsInv, Base, Inv, TypeOK, HostTypeOK, QueueTypeOK
<1>4. ASSUME NEW h \in Handles, Breaks(h) PROVE SessionInv'
    BY <1>1, <1>4 DEF Breaks, SessionsInv, SessionInv, Awaiting, Dialing, Positions
<1>5. ASSUME NEW ev \in Events, Push(ev), KeepsUp,
             \/ SendsFail(ev)
             \/ \E h \in Handles : \/ SendsOk(ev, h) \/ SendsEnd(ev, h)
                                   \/ SendsAnswer(ev, h) \/ SendsOther(ev, h)
      PROVE  SessionInv'
  <2> DEFINE n == Len(queue) + 1
             o == ev.owner
  <2>1. queue' = Append(queue, ev)
    BY <1>3, <1>5, PushKeeps DEF SessionsInv, LifeInv, Made, Orderly
  <2>2. /\ n \in Positions' /\ queue'[n] = ev
        /\ Positions' = Positions \cup {n}
        /\ \A i \in Positions : i \in Positions' /\ queue'[i] = queue[i]
    BY <1>3, <2>1, Appended
  <2>3. /\ ev.type \in Results => Dialing(o) /\ dial' = NoDial
        /\ ev.type \notin Results => UNCHANGED dial
        /\ ev.type = "CONNECT_OK" => ~dial.cancelled
    <3>1. \A h : SendsAnswer(ev, h) \/ SendsOther(ev, h) \/ SendsEnd(ev, h)
                    => ev.type \notin Results /\ UNCHANGED dial
        BY DEF SendsAnswer, SendsOther, SendsEnd, Event, Results
    <3>2. \A h \in Handles : SendsOk(ev, h) =>
             ev.type = "CONNECT_OK" /\ Dialing(o) /\ dial' = NoDial /\ ~dial.cancelled
        BY DEF SendsOk, Event, Orderly
    <3>3. SendsFail(ev) => Dialing(o) /\ dial' = NoDial /\ ev.type = "CONNECT_FAIL"
        BY DEF SendsFail, Event
    <3>4. QED
        BY <1>5, <3>1, <3>2, <3>3 DEF Results
  <2> HIDE DEF n, o
  <2> SUFFICES ASSUME NEW e \in Engines
               PROVE  /\ Awaiting(e)' <=> Awaiting(e)
                      /\ Dialing(e)' /\ reported'[e] => dial'.cancelled
                      /\ \A i \in Positions' :
                            queue'[i].owner = e /\ queue'[i].type = "CONNECT_OK" => ~reported'[e]
    BY <1>1 DEF SessionsInv, SessionInv
  <2>4. Awaiting(e)' <=> Dialing(e)' \/ \E i \in Positions' : queue'[i].owner = e /\ queue'[i].type \in Results
    BY DEF Awaiting
  <2>5. Awaiting(e)' <=> Awaiting(e)
    <3>1. CASE ev.type \in Results /\ o = e
        BY <2>2, <2>3, <2>4, <3>1 DEF Awaiting, o
    <3>2. CASE ~(ev.type \in Results /\ o = e)
      <4>1. Dialing(e)' <=> Dialing(e)
          BY <2>3, <3>2 DEF Dialing
      <4>2. QED
          BY <2>2, <2>4, <3>2, <4>1 DEF Awaiting, o
    <3>3. QED
        BY <3>1, <3>2
  <2>6. Dialing(e)' /\ reported'[e] => dial'.cancelled
    BY <1>1, <2>3 DEF Dialing, SessionsInv, SessionInv
  <2>7. \A i \in Positions' :
           queue'[i].owner = e /\ queue'[i].type = "CONNECT_OK" => ~reported'[e]
    <3>1. ev.owner = e /\ ev.type = "CONNECT_OK" => ~reported[e]
        BY <2>3 DEF SessionsInv, SessionInv, Results, o
    <3>2. QED
        BY <1>1, <2>2, <3>1 DEF SessionsInv, SessionInv
  <2>8. QED
    BY <2>5, <2>6, <2>7
<1>6. QED
    BY <1>2, <1>3, <1>4, <1>5, HostKinds

LEMMA SessionConnect ==
    ASSUME SessionsInv, Orderly, NEW e \in Engines, NEW p \in Peers, NEW s \in ConnStates,
           ConnectFrom(e, p, s), NothingLate(e), cb = NoCall
    PROVE  SessionInv' /\ CallInv' /\ session[e] = "none"
<1>1. /\ connHandle[e] = NoHandle /\ UNCHANGED <<queue, connHandle, cb>>
      /\ dial = NoDial /\ dial' # NoDial /\ dial'.owner = e
  <2>1. [owner |-> e, peer |-> p, cancelled |-> FALSE] \in Dials
    BY DEF Dials
  <2>2. QED
    BY <2>1, HostAssumption DEF ConnectFrom, MayConnect, CanDial
<1>2. \A i \in Positions : queue[i].owner # e
    BY <1>1, NothingLeft DEF SessionsInv
<1>3. /\ ~reported'[e] /\ session'[e] = "asked"
      /\ \A d \in Engines : d # e =>
            reported'[d] = reported[d] /\ session'[d] = session[d] /\ state'[d] = state[d]
    BY DEF ConnectFrom, SessionsInv, Base, Inv, TypeOK
<1>4. ~Awaiting(e) /\ session[e] = "none"
  <2>1. ~Awaiting(e)
    BY <1>1, <1>2 DEF Awaiting, Dialing
  <2>2. session[e] \in {"none", "asked", "up", "settled"}
    BY DEF SessionsInv, Base, Inv, TypeOK
  <2>3. QED
    BY <1>1, <2>1, <2>2 DEF SessionsInv, SessionInv
<1>5. CallInv'
    BY <1>1 DEF CallInv
<1>6. SessionInv'
  <2>1. \A d \in Engines : Awaiting(d)' <=> d = e \/ Awaiting(d)
    BY <1>1 DEF Awaiting, Dialing, Positions
  <2>2. \A d \in Engines : d # e => ~Dialing(d)'
    BY <1>1 DEF Dialing
  <2>3. QED
    BY <1>1, <1>2, <1>3, <2>1, <2>2 DEF SessionsInv, SessionInv, Positions
<1>7. QED
    BY <1>4, <1>5, <1>6

LEMMA SessionQuiet ==
    ASSUME SessionsInv, Quiet
    PROVE  SessionInv' /\ CallInv'
<1>1. /\ UNCHANGED <<queue, connHandle, session, reported>>
      /\ \A e \in Engines : Dialing(e)' <=> Dialing(e)
      /\ dial # NoDial /\ dial.cancelled => dial'.cancelled
      /\ \A e \in Engines : state'[e] = "CONNECTING" => state[e] = "CONNECTING"
  <2>1. Calm /\ dial \in Dials \cup {NoDial}
    BY DEF Quiet, SessionsInv, Base, Inv, TypeOK, HostTypeOK
  <2>2. QED
    BY <2>1, CalmDial DEF Quiet, Calm
<1>2. SessionInv'
  <2>1. \A e \in Engines : Dialing(e) => dial # NoDial
    BY DEF Dialing
  <2>2. \A e \in Engines : Awaiting(e)' <=> Awaiting(e)
    BY <1>1 DEF Awaiting, Positions
  <2>3. QED
    BY <1>1, <2>1, <2>2 DEF SessionsInv, SessionInv, Positions
<1>3. CallInv'
    BY DEF Quiet, Calm, SessionsInv, CallInv
<1>4. QED
    BY <1>2, <1>3

LEMMA SessionFired ==
    ASSUME SessionsInv, Orderly, NEW e \in Engines, Fired(e)
    PROVE  /\ SessionInv' /\ CallInv' /\ cb = NoCall
           /\ state[e] = "CONNECTING" => session[e] = "asked"
           /\ state[e] = "DISCOVERING" => session[e] \in {"up", "settled"}
<1>1. /\ UNCHANGED <<queue, connHandle>> /\ main.at = "poll" /\ main'.at = "idle"
      /\ \A d \in Engines : Dialing(d)' <=> Dialing(d)
      /\ dial # NoDial /\ dial.cancelled => dial'.cancelled
      /\ \A d \in Engines : d # e =>
            state'[d] = state[d] /\ session'[d] = session[d] /\ reported'[d] = reported[d]
  <2>1. Calm /\ dial \in Dials \cup {NoDial}
    BY DEF Fired, SessionsInv, Base, Inv, TypeOK, HostTypeOK
  <2>2. QED
    BY <2>1, CalmDial DEF Fired, Calm
<1>2. \A d \in Engines : Awaiting(d)' <=> Awaiting(d)
    BY <1>1 DEF Awaiting, Dialing, Positions
<1>3. state[e] = "CONNECTING" => connHandle[e] = NoHandle /\ session[e] = "asked"
    BY DEF SessionsInv, SessionInv, Base, Inv, AttemptIsOpen
<1>4. state[e] = "DISCOVERING" => connHandle[e] # NoHandle /\ session[e] \in {"up", "settled"}
    BY DEF SessionsInv, SessionInv, Base, AttemptsInv, DrivenInv, Driven
<1>5. /\ After("CONNECTING", "CONNECT_TIMEOUT") = "BACKOFF"
      /\ After("DISCOVERING", "DISCOVER_TIMEOUT") = "BACKOFF"
    BY DEF After, Accepts, Target
<1>6. cb' = [to |-> e, kind |-> cb'.kind] /\ cb'.kind # "up" /\ cb = NoCall
    BY <1>1 DEF Fired, Told, SessionsInv, CallInv
<1>7. CallInv'
    BY <1>1, <1>6 DEF CallInv
<1>8. /\ Awaiting(e) => session'[e] = IF reported'[e] THEN "none" ELSE "asked"
      /\ session'[e] = "asked" => Awaiting(e)
      /\ connHandle[e] # NoHandle <=> session'[e] \in {"up", "settled"}
      /\ state'[e] = "CONNECTING" => session'[e] = "asked"
      /\ Dialing(e)' /\ reported'[e] => dial'.cancelled
      /\ \A i \in Positions :
            queue[i].owner = e /\ queue[i].type = "CONNECT_OK" => ~reported'[e]
  <2>1. CASE state[e] = "CONNECTING"
    <3>1. /\ state'[e] = "BACKOFF" /\ session'[e] = "none" /\ reported'[e]
          /\ dial' # NoDial => dial'.cancelled
        BY <1>3, <1>5, <2>1 DEF Fired, Told
    <3>2. \A i \in Positions : queue[i].owner = e => queue[i].type \notin Results
        BY DEF Fired, Orderly, NothingLate, QueuedFor, Positions, Results
    <3>3. Dialing(e)' => dial' # NoDial
        BY DEF Dialing
    <3>4. QED
        BY <1>3, <2>1, <3>1, <3>2, <3>3 DEF Results
  <2>2. CASE state[e] = "DISCOVERING"
    <3>1. /\ state'[e] = "BACKOFF" /\ session'[e] = "settled" /\ reported'[e] = reported[e]
        BY <1>5, <2>2 DEF Fired, Told
    <3>2. ~Awaiting(e)
        BY <1>4, <2>2 DEF SessionsInv, SessionInv
    <3>3. QED
        BY <1>1, <1>4, <2>2, <3>1, <3>2 DEF Dialing, Awaiting, SessionsInv, SessionInv, Results
  <2>3. QED
    BY <2>1, <2>2 DEF Fired
<1>9. SessionInv'
  <2> SUFFICES ASSUME NEW d \in Engines
               PROVE  /\ Awaiting(d)' => session'[d] = IF reported'[d] THEN "none" ELSE "asked"
                      /\ session'[d] = "asked" => Awaiting(d)'
                      /\ connHandle'[d] # NoHandle <=> session'[d] \in {"up", "settled"}
                      /\ state'[d] = "CONNECTING" => session'[d] = "asked"
                      /\ Dialing(d)' /\ reported'[d] => dial'.cancelled
                      /\ \A i \in Positions' :
                            queue'[i].owner = d /\ queue'[i].type = "CONNECT_OK" => ~reported'[d]
    BY DEF SessionInv
  <2>1. CASE d = e
    BY <1>1, <1>2, <1>8, <2>1 DEF Positions
  <2>2. CASE d # e
    <3>1. state'[d] = state[d] /\ session'[d] = session[d] /\ reported'[d] = reported[d]
        BY <1>1, <2>2
    <3>2. Dialing(d) => dial # NoDial
        BY DEF Dialing
    <3>3. QED
        BY <1>1, <1>2, <3>1, <3>2 DEF SessionsInv, SessionInv, Positions
  <2>3. QED
    BY <2>1, <2>2
<1>10. QED
    BY <1>3, <1>4, <1>6, <1>7, <1>9

LEMMA SessionPop ==
    ASSUME SessionsInv, Orderly, Pop
    PROVE  /\ SessionInv' /\ CallInv'
           /\ LET e == Head(queue).owner
              IN  \/ UNCHANGED <<session, cb>>
                  \/ session[e] = "asked" /\ session'[e] = "up" /\ cb' = [to |-> e, kind |-> "up"]
                  \/ session[e] = "asked" /\ session'[e] = "none" /\ cb' = [to |-> e, kind |-> "down"]
                  \/ /\ session[e] \in {"up", "settled"}
                     /\ session'[e] = "none" /\ cb' = [to |-> e, kind |-> "down"]
                  \/ /\ session[e] \in {"up", "settled"} /\ session'[e] = "settled"
                     /\ \E kind \in {"discovered", "undiscovered"} : cb' = [to |-> e, kind |-> kind]
<1> DEFINE ev == Head(queue)
           e == ev.owner
<1>1. /\ queue \in Seq(Events) /\ queue # <<>> /\ queue' = Tail(queue)
      /\ UNCHANGED dial
      /\ connHandle \in [Engines -> Handles \cup {NoHandle}]
      /\ state \in [Engines -> ConnStates] /\ Base /\ LifeInv /\ Inv
    BY PopKinds DEF SessionsInv, Base, Inv, TypeOK, HostTypeOK, QueueTypeOK
<1>2. \A i \in Positions' : /\ i \in Int /\ i + 1 # 1
                            /\ i + 1 \in Positions /\ queue'[i] = queue[i + 1]
    BY <1>1, Popped DEF Positions
<1>3. \A i \in Positions : i \in Int /\ (i # 1 => i - 1 \in Positions' /\ queue'[i - 1] = queue[i])
    BY <1>1, Popped DEF Positions
<1>4. /\ ev = queue[1] /\ 1 \in Positions /\ e \in Engines /\ ev \in Events
      /\ ev.type \in Results =>
            /\ connHandle[e] = NoHandle
            /\ ev.type = "CONNECT_OK" => ev.handle # NoHandle
            /\ \A i \in Positions : queue[i].owner = e /\ queue[i].type \in Results => i = 1
      /\ ev.type \notin Results => connHandle[e] # NoHandle
    BY <1>1, HeadFinds
<1>5. /\ Handled(e, ev.type)
      /\ \A d \in Engines : d # e =>
            state'[d] = state[d] /\ session'[d] = session[d] /\ reported'[d] = reported[d]
      /\ cb = NoCall /\ main'.at = "drain"
    BY <1>1, PopMoves
<1>6. /\ \A d \in Engines : d # e => connHandle'[d] = connHandle[d]
      /\ ev.type = "CONNECT_OK" => connHandle'[e] # NoHandle
      /\ ev.type \in {"CONNECT_FAIL", "DISCONNECT"} => connHandle'[e] = NoHandle
      /\ ev.type \notin {"CONNECT_OK", "CONNECT_FAIL", "DISCONNECT"} => connHandle'[e] = connHandle[e]
  <2>1. connHandle' = CASE ev.type = "CONNECT_OK" -> [connHandle EXCEPT ![e] = ev.handle]
                        [] ev.type \in {"CONNECT_FAIL", "DISCONNECT"} ->
                              [connHandle EXCEPT ![e] = NoHandle]
                        [] OTHER -> connHandle
    BY <1>1, PopKinds
  <2> HIDE DEF ev, e
  <2>2. QED
    BY <1>1, <1>4, <2>1 DEF Results
<1> HIDE DEF ev, e
<1>7. ~Dialing(e)
    BY <1>1, <1>4 DEF LifeInv, DialInv, Dialing, e
<1>8. \A d \in Engines : Awaiting(d)' <=> Awaiting(d) /\ ~(d = e /\ ev.type \in Results)
  <2> SUFFICES ASSUME NEW d \in Engines PROVE Awaiting(d)' <=> Awaiting(d) /\ ~(d = e /\ ev.type \in Results)
    OBVIOUS
  <2>1. /\ Awaiting(d)' <=> Dialing(d) \/ \E i \in Positions' : queue'[i].owner = d /\ queue'[i].type \in Results
        /\ Awaiting(d) <=> Dialing(d) \/ \E i \in Positions : queue[i].owner = d /\ queue[i].type \in Results
    BY <1>1 DEF Awaiting, Dialing
  <2>2. CASE d = e /\ ev.type \in Results
    BY <1>2, <1>4, <1>7, <2>1, <2>2
  <2>3. CASE ~(d = e /\ ev.type \in Results)
    BY <1>2, <1>3, <1>4, <2>1, <2>3 DEF e
  <2>4. QED
    BY <2>2, <2>3
<1>9. /\ Awaiting(e) <=> ev.type \in Results
      /\ ev.type \in Results => session[e] = IF reported[e] THEN "none" ELSE "asked"
      /\ ev.type \notin Results => session[e] \in {"up", "settled"} /\ state[e] # "CONNECTING"
      /\ ev.type = "CONNECT_OK" => ~reported[e]
  <2>1. ev.type \in Results => Awaiting(e)
    BY <1>4 DEF Awaiting, e
  <2>2. ev.type \notin Results => session[e] \in {"up", "settled"}
    BY <1>4 DEF SessionsInv, SessionInv
  <2>3. ev.type = "CONNECT_OK" => ~reported[e]
    BY <1>4 DEF SessionsInv, SessionInv, e
  <2>4. QED
    BY <1>4, <2>1, <2>2, <2>3 DEF SessionsInv, SessionInv
<1> DEFINE Tells == \/ UNCHANGED <<session, cb>>
                    \/ session[e] = "asked" /\ session'[e] = "up" /\ cb' = [to |-> e, kind |-> "up"]
                    \/ session[e] = "asked" /\ session'[e] = "none" /\ cb' = [to |-> e, kind |-> "down"]
                    \/ /\ session[e] \in {"up", "settled"}
                       /\ session'[e] = "none" /\ cb' = [to |-> e, kind |-> "down"]
                    \/ /\ session[e] \in {"up", "settled"} /\ session'[e] = "settled"
                       /\ \E kind \in {"discovered", "undiscovered"} : cb' = [to |-> e, kind |-> kind]
<1>10. /\ session'[e] # "asked" /\ state'[e] # "CONNECTING" /\ Tells
       /\ connHandle'[e] # NoHandle <=> session'[e] \in {"up", "settled"}
       /\ cb' # NoCall /\ cb'.kind = "up" => ev.type = "CONNECT_OK" /\ cb'.to = e
  <2>1. state[e] \in ConnStates /\ (state[e] = "CONNECTING" => session[e] = "asked")
    BY <1>1, <1>4 DEF SessionsInv, SessionInv
  <2>2. /\ After("CONNECTING", "GAP_CONNECT_OK") # "CONNECTING"
        /\ After("CONNECTING", "GAP_CONNECT_FAIL") # "CONNECTING"
    BY DEF After, Accepts, Target
  <2>3. \A t : t # "CONNECT_REQUEST" /\ After(state[e], t) = "CONNECTING" => state[e] = "CONNECTING"
    BY <2>1, TableStep
  <2>4. CASE ev.type = "CONNECT_OK"
    BY <1>4, <1>5, <1>6, <1>9, <2>1, <2>2, <2>3, <2>4 DEF Handled, Told, Results
  <2>5. CASE ev.type = "CONNECT_FAIL"
    BY <1>4, <1>5, <1>6, <1>9, <2>1, <2>2, <2>3, <2>5 DEF Handled, Told, Results
  <2>6. CASE ev.type = "DISCONNECT"
    BY <1>4, <1>5, <1>6, <1>9, <2>1, <2>2, <2>3, <2>6 DEF Handled, Told, Results
  <2>7. CASE ev.type = "DISC_DONE"
    BY <1>4, <1>5, <1>6, <1>9, <2>1, <2>2, <2>3, <2>7 DEF Handled, Told, Results
  <2>8. CASE ev.type \in {"ATTR_OP", "OTHER"}
    BY <1>4, <1>5, <1>6, <1>9, <2>1, <2>2, <2>3, <2>8 DEF Handled, Told, Results
  <2>9. QED
    BY <1>4, <2>4, <2>5, <2>6, <2>7, <2>8 DEF Events
<1>11. CallInv'
    BY <1>5, <1>6, <1>10 DEF CallInv
<1>12. SessionInv'
  <2> SUFFICES ASSUME NEW d \in Engines
               PROVE  /\ Awaiting(d)' => session'[d] = IF reported'[d] THEN "none" ELSE "asked"
                      /\ session'[d] = "asked" => Awaiting(d)'
                      /\ connHandle'[d] # NoHandle <=> session'[d] \in {"up", "settled"}
                      /\ state'[d] = "CONNECTING" => session'[d] = "asked"
                      /\ Dialing(d)' /\ reported'[d] => dial'.cancelled
                      /\ \A i \in Positions' :
                            queue'[i].owner = d /\ queue'[i].type = "CONNECT_OK" => ~reported'[d]
    BY DEF SessionInv
  <2>1. Dialing(d)' <=> Dialing(d)
    BY <1>1 DEF Dialing
  <2>2. CASE d = e
    <3>1. \A i \in Positions' : ~(queue'[i].owner = d /\ queue'[i].type = "CONNECT_OK")
      <4>1. ~Awaiting(d)'
          BY <1>4, <1>8, <1>9, <2>2
      <4>2. QED
          BY <4>1 DEF Awaiting, Results
    <3>2. QED
        BY <1>4, <1>7, <1>8, <1>9, <1>10, <2>1, <2>2, <3>1
  <2>3. CASE d # e
    <3>1. /\ state'[d] = state[d] /\ session'[d] = session[d] /\ reported'[d] = reported[d]
          /\ connHandle'[d] = connHandle[d] /\ (Awaiting(d)' <=> Awaiting(d))
        BY <1>5, <1>6, <1>8, <2>3
    <3>2. /\ Awaiting(d) => session[d] = IF reported[d] THEN "none" ELSE "asked"
          /\ session[d] = "asked" => Awaiting(d)
          /\ connHandle[d] # NoHandle <=> session[d] \in {"up", "settled"}
          /\ state[d] = "CONNECTING" => session[d] = "asked"
          /\ Dialing(d) /\ reported[d] => dial.cancelled
          /\ \A i \in Positions :
                queue[i].owner = d /\ queue[i].type = "CONNECT_OK" => ~reported[d]
        BY DEF SessionsInv, SessionInv
    <3>3. \A i \in Positions' :
             queue'[i].owner = d /\ queue'[i].type = "CONNECT_OK" => ~reported'[d]
        BY <1>2, <3>1, <3>2
    <3>4. QED
        BY <1>1, <2>1, <3>1, <3>2, <3>3
  <2>4. QED
    BY <2>2, <2>3
<1>13. QED
    BY <1>10, <1>11, <1>12 DEF e, ev


LEMMA SessionsStart ==
    ASSUME Orderly
    PROVE  Init => SessionsInv
<1> SUFFICES ASSUME Init PROVE SessionsInv
    OBVIOUS
<1>1. Positions = {}
    BY DEF Init, HostInit, Positions
<1>2. HandlesInv
    BY <1>1, HostAssumption
       DEF Init, HostInit, HandlesInv, QueueInv, HeldInv, GivenInv, PlainInv
<1>3. Base
    BY <1>2, InitInv, AttemptsStart DEF Base
<1>4. LifeInv
    BY <1>1 DEF Orderly, Init, HostInit, LifeInv, Made, DialInv, LinkInv, FirstInv, LaterInv, LastInv
<1>5. SessionInv /\ CallInv
    BY <1>1 DEF Init, HostInit, SessionInv, Awaiting, Dialing, CallInv
<1>6. QED
    BY <1>3, <1>4, <1>5 DEF SessionsInv

LEMMA SessionsNext ==
    ASSUME Orderly, SessionsInv, [Next]_vars
    PROVE  SessionsInv'
<1>1. Base' /\ LifeInv'
    BY BaseNext, LifeNext DEF SessionsInv
<1>2. SessionInv' /\ CallInv'
    BY SessionKinds, SessionHost, SessionConnect, SessionPop, SessionQuiet, SessionFired
       DEF SessionsInv, Base
<1>3. QED
    BY <1>1, <1>2 DEF SessionsInv

LEMMA SessionsHold ==
    ASSUME Orderly
    PROVE  Spec => []SessionsInv
BY SessionsStart, SessionsNext, PTL DEF Spec

\* A connection reported up is the listener's own, to the peer it asked for last: even
\* when the user goes on to connect(), tear down and retry while events are queued
\* (handle_event_ and finish_connect_ in nimble_gattc.cpp), and the host refuses calls.
THEOREM UpForThePeer ==
    ASSUME Orderly
    PROVE  Spec => []UpIsForThePeer
<1>1. SessionsInv => UpIsForThePeer
  <2> SUFFICES ASSUME SessionsInv, cb # NoCall, cb.kind = "up",
                      link[connHandle[cb.to]] # NoLink
               PROVE  /\ link[connHandle[cb.to]].owner = cb.to
                      /\ link[connHandle[cb.to]].peer = target[cb.to]
    BY DEF UpIsForThePeer
  <2> DEFINE e == cb.to
             h == connHandle[e]
  <2>1. e \in Engines
    BY DEF SessionsInv, Base, Inv, TypeOK, Callbacks
  <2>2. h \in Handles
    BY <2>1 DEF SessionsInv, CallInv, Base, Inv, TypeOK
  <2>3. KnownLink(h)
    BY <2>2 DEF SessionsInv, LifeInv, LinkInv
  <2>4. Owns(e, h)
    BY <2>1, <2>2, <2>3 DEF SessionsInv, Base, HandlesInv, HeldInv, KnownLink, Ended
  <2>5. QED
    BY <2>3, <2>4 DEF KnownLink, Owns
<1>2. QED
    BY <1>1, SessionsHold, PTL

\* Every step of the engines is one of the contract's, seen from the listeners.
LEMMA ContractStep ==
    ASSUME Orderly, SessionsInv, SessionsInv', [Next]_vars
    PROVE  [Contract!Next]_<<session, cb>>
<1>1. /\ session \in [Engines -> {"none", "asked", "up", "settled"}]
      /\ session' \in [Engines -> {"none", "asked", "up", "settled"}] /\ Inv
    BY DEF SessionsInv, Base, Inv, TypeOK
<1>2. ASSUME NEW e \in Engines, \A d \in Engines : d # e => session'[d] = session[d]
      PROVE  session' = [session EXCEPT ![e] = session'[e]]
    BY <1>1, <1>2
<1>3. CASE HostStep /\ UNCHANGED <<engineVars, main, cb, session, target>>
    BY <1>3
<1>4. ASSUME NEW e \in Engines, NEW p \in Peers, NEW s \in ConnStates,
             ConnectFrom(e, p, s), NothingLate(e), cb = NoCall
      PROVE  Contract!Next
  <2>1. session[e] = "none"
    BY <1>4, SessionConnect
  <2>2. Contract!Accept(e)
    BY <1>4, <2>1 DEF ConnectFrom, Contract!Accept
  <2>3. QED
    BY <2>2 DEF Contract!Next
<1>5. CASE Pop
  <2> DEFINE e == Head(queue).owner
  <2>1. /\ e \in Engines /\ cb = NoCall
        /\ \A d \in Engines : d # e => session'[d] = session[d]
    BY <1>1, <1>5, PopMoves DEF Events
  <2>2. session' = [session EXCEPT ![e] = session'[e]]
    BY <1>2, <2>1
  <2> HIDE DEF e
  <2>3. \/ UNCHANGED <<session, cb>>
        \/ session[e] = "asked" /\ session'[e] = "up" /\ cb' = [to |-> e, kind |-> "up"]
        \/ session[e] = "asked" /\ session'[e] = "none" /\ cb' = [to |-> e, kind |-> "down"]
        \/ /\ session[e] \in {"up", "settled"}
           /\ session'[e] = "none" /\ cb' = [to |-> e, kind |-> "down"]
        \/ /\ session[e] \in {"up", "settled"} /\ session'[e] = "settled"
           /\ \E kind \in {"discovered", "undiscovered"} : cb' = [to |-> e, kind |-> kind]
    BY <1>5, SessionPop DEF e
  <2>4. QED
    BY <2>1, <2>2, <2>3 DEF Contract!Next, Contract!Call
<1>6. CASE Quiet
    BY <1>6 DEF Quiet, Contract!Next, Contract!Return
<1>7. ASSUME NEW e \in Engines, Fired(e) PROVE Contract!Next
  <2>1. /\ cb = NoCall
        /\ state[e] = "CONNECTING" => session[e] = "asked"
        /\ state[e] = "DISCOVERING" => session[e] \in {"up", "settled"}
    BY <1>7, SessionFired
  <2>2. session' = [session EXCEPT ![e] = session'[e]]
    BY <1>2, <1>7 DEF Fired
  <2>3. \/ session[e] = "asked" /\ session'[e] = "none" /\ cb' = [to |-> e, kind |-> "down"]
        \/ /\ session[e] \in {"up", "settled"} /\ session'[e] = "settled"
           /\ cb' = [to |-> e, kind |-> "undiscovered"]
    BY <1>7, <2>1 DEF Fired, Told
  <2>4. QED
    BY <2>1, <2>2, <2>3 DEF Contract!Next, Contract!Call
<1>8. QED
    BY <1>1, <1>3, <1>4, <1>5, <1>6, <1>7, SessionKinds

\* The engines keep the listeners' contract (GattClientListener in ble_gatt_client.h):
\* every accepted connect() has at most one outcome, nothing is reported of a
\* connection that is not up, and callbacks are made one at a time.
THEOREM EnginesKeepContract ==
    ASSUME Orderly
    PROVE  Spec => KeepsContract
<1>1. Init => Contract!Init
    BY DEF Init, Contract!Init
<1>2. SessionsInv /\ SessionsInv' /\ [Next]_vars => [Contract!Next]_<<session, cb>>
    BY ContractStep
<1>3. QED
    BY <1>1, <1>2, SessionsHold, PTL DEF Spec, KeepsContract, Contract!Spec

-----------------------------------------------------------------------------
(* What runs on a link: who drives it, which attribute operation its       *)
(* engine waits for, and whether a discovery is under way that will end.   *)
(* A procedure is on its link or its end is in the queue, so each fact is  *)
(* again one about host, queue and engine.                                 *)


Up(h) == link[h] # NoLink /\ link[h].phase = "up"

Drives(s) == s \in {"DISCOVERING", "READY"}

-----------------------------------------------------------------------------
(* Steps of the main thread that handle no event, by what they do to a     *)
(* link.                                                                   *)

\* Nothing is done to a link; a machine may leave BACKOFF.
Rests ==
    /\ UNCHANGED <<queue, link, connHandle, pendingOp>>
    /\ \A d \in Engines : state'[d] \in {state[d], After(state[d], "BACKOFF_ELAPSED")}
    /\ cb' = cb \/ (cb # NoCall /\ cb.kind = "up" => "cached" \in Allowed)

\* An engine ends its link, if it has one, because its user or a deadline says so.
LetsGo(e) ==
    /\ UNCHANGED <<queue, connHandle>>
    /\ IF connHandle[e] = NoHandle THEN UNCHANGED link ELSE Terminate(connHandle[e])
    /\ pendingOp' = pendingOp \/ (state[e] \in Deadlined /\ pendingOp' = [pendingOp EXCEPT ![e] = "NONE"])
    /\ \A d \in Engines : d # e => state'[d] = state[d]
    /\ state'[e] = "DISCOVERING" => state[e] = "DISCOVERING"
    /\ Drives(state[e]) => Drives(state'[e]) \/ connHandle[e] # NoHandle
    /\ cb' = cb \/ cb = NoCall \/ cb.to = e

\* An engine begins a discovery, in its listener's callback, or an operation.
Begins(e, k) ==
    /\ UNCHANGED <<queue, connHandle, state>>
    /\ CanRun(connHandle[e]) /\ RunProc(connHandle[e], k, e)
    /\ \/ k = "DISC" /\ UNCHANGED pendingOp /\ cb # NoCall /\ cb.to = e
       \/ /\ k \in Ops /\ (state[e] = "READY" \/ "cached" \in Allowed)
          /\ pendingOp[e] = "NONE" /\ pendingOp' = [pendingOp EXCEPT ![e] = k]
          /\ cb' = cb

LEMMA Deeds ==
    ASSUME SessionsInv, [Next]_vars
    PROVE  \/ HostStep /\ UNCHANGED <<engineVars, main, cb, session, target>>
           \/ \E e \in Engines, p \in Peers, s \in ConnStates :
                 /\ ConnectFrom(e, p, s) /\ NothingLate(e) /\ cb = NoCall
                 /\ s \in {state[e], After(state[e], "BACKOFF_ELAPSED")}
           \/ Pop
           \/ Rests
           \/ \E e \in Engines : LetsGo(e)
           \/ \E e \in Engines, k \in Ops \cup {"DISC"} : Begins(e, k)
<1>1. /\ state \in [Engines -> ConnStates]
      /\ connHandle \in [Engines -> Handles \cup {NoHandle}]
      /\ pendingOp \in [Engines -> Ops \cup {"NONE"}]
      /\ \A e \in Engines : state[e] = "CONNECTING" => connHandle[e] = NoHandle
      /\ \A e \in Engines : Drives(state[e]) => connHandle[e] # NoHandle
      /\ Inv
    BY DEF SessionsInv, Base, Inv, TypeOK, AttemptIsOpen, AttemptsInv, DrivenInv, Driven, Drives
<1>2. ASSUME NEW e \in Engines, GattDisconnect(e), cb' = cb \/ cb.to = e
      PROVE  LetsGo(e)
  <2>1. /\ UNCHANGED <<queue, connHandle, pendingOp>>
        /\ IF connHandle[e] = NoHandle THEN UNCHANGED link ELSE Terminate(connHandle[e])
        /\ \/ UNCHANGED state
           \/ connHandle[e] # NoHandle /\ HandleFsmEvent(e, "DISCONNECT_REQUEST")
    BY <1>1, <1>2 DEF GattDisconnect
  <2>2. /\ \A d \in Engines : d # e => state'[d] = state[d]
        /\ state'[e] = "DISCOVERING" => state[e] = "DISCOVERING"
        /\ Drives(state[e]) => Drives(state'[e]) \/ connHandle[e] # NoHandle
    BY <1>1, <2>1 DEF HandleFsmEvent, After, Accepts, Target, ConnStates
  <2>3. QED
    BY <1>2, <2>1, <2>2 DEF LetsGo
<1>3. ASSUME NEW e \in Engines, UserCall(e)
      PROVE  \/ Rests \/ LetsGo(e) \/ \E k \in Ops \cup {"DISC"} : Begins(e, k)
             \/ \E p \in Peers, s \in ConnStates :
                   /\ ConnectFrom(e, p, s) /\ NothingLate(e) /\ cb = NoCall
                   /\ s \in {state[e], After(state[e], "BACKOFF_ELAPSED")}
  <2>1. state[e] \in ConnStates /\ After(state[e], "BACKOFF_ELAPSED") \in ConnStates
    BY <1>1, TableStep
  <2>2. cb = NoCall
    BY <1>3 DEF UserCall
  <2>3. ASSUME NEW p \in Peers, RetryRefused(e, p) PROVE Rests
    BY <1>1, <2>3 DEF RetryRefused, HandleFsmEvent, hostVars, Rests
  <2>4. ASSUME NEW op \in Ops, StartOp(e, op) PROVE Begins(e, op)
    BY <2>4 DEF StartOp, MayStart, Begins
  <2>5. QED
    BY <1>2, <1>3, <2>1, <2>2, <2>3, <2>4 DEF UserCall, Connect, RetryConnect
<1>4. CASE CallbackReturns
  <2>1. cb # NoCall /\ cb.to \in Engines /\ cb' = NoCall
    BY <1>1, <1>4 DEF CallbackReturns, Inv, TypeOK, Callbacks
  <2>2. ASSUME cb.kind = "up" => "cached" \in Allowed, UNCHANGED <<hostVars, engineVars, target>>
        PROVE  Rests
    BY <2>1, <2>2 DEF hostVars, engineVars, Rests
  <2>3. CASE DiscoverServices(cb.to)
    BY <2>1, <2>3 DEF DiscoverServices, engineVars, Begins
  <2>4. CASE GattDisconnect(cb.to)
    BY <1>2, <2>1, <2>4
  <2>5. QED
    BY <1>4, <2>2, <2>3, <2>4 DEF CallbackReturns
<1>5. ASSUME NEW e \in Engines, LoopBegins(e) PROVE Rests
    BY <1>5 DEF LoopBegins, engineVars, Rests
<1>6. CASE DrainEnds \/ PollQuiet \/ UNCHANGED vars
    BY <1>6 DEF DrainEnds, PollQuiet, Idle, vars, hostVars, engineVars, Rests
<1>7. ASSUME NEW e \in Engines, PollFires(e) PROVE LetsGo(e)
  <2>1. /\ UNCHANGED <<queue, connHandle>> /\ state[e] \in Deadlined
        /\ IF connHandle[e] = NoHandle THEN UNCHANGED link ELSE Terminate(connHandle[e])
        /\ pendingOp' = [pendingOp EXCEPT ![e] = "NONE"]
        /\ HandleFsmEvent(e, TimeoutEvent(state[e]))
    BY <1>7 DEF PollFires
  <2>2. cb = NoCall
    BY <1>7 DEF PollFires, SessionsInv, CallInv
  <2>3. QED
    BY <1>1, <2>1, <2>2 DEF LetsGo, HandleFsmEvent, After, Accepts, Target, TimeoutEvent, Deadlined, Drives
<1>8. QED
    BY <1>3, <1>4, <1>5, <1>6, <1>7 DEF Next, Loop

\* A handle that is not that of a link past is of the engine's own.
LEMMA OwnHandle ==
    ASSUME SessionsInv, NEW e \in Engines, connHandle[e] \in Handles,
           link[connHandle[e]] # NoLink
    PROVE  link[connHandle[e]].owner = e
<1> DEFINE h == connHandle[e]
<1>1. Owns(e, h) \/ \E i \in Positions : Ended(i, e, h)
    BY DEF SessionsInv, Base, HandlesInv, HeldInv
<1>2. KnownLink(h)
    BY DEF SessionsInv, LifeInv, LinkInv
<1>3. QED
    BY <1>1, <1>2 DEF KnownLink, Ended, Owns

\* ... and one of a link to come is nobody's.
LEMMA FreshHandle ==
    ASSUME SessionsInv, Orderly, NEW e \in Engines, NEW ev, NEW h \in Handles, SendsOk(ev, h)
    PROVE  connHandle[e] # h
<1>1. ~EndQueued(h) /\ link[h] = NoLink
    BY DEF SendsOk, Orderly
<1>2. connHandle[e] = h => \E i \in Positions : Ended(i, e, h)
    BY <1>1 DEF SessionsInv, Base, HandlesInv, HeldInv, Owns
<1>3. QED
    BY <1>1, <1>2 DEF EndQueued, Positions, Ended

LEMMA TerminateDowns ==
    ASSUME LinkTypeOK, NEW h \in Handles, Terminate(h)
    PROVE  /\ ~Up(h)'
           /\ \A k \in Handles :
                 /\ Up(k)' => Up(k)
                 /\ link'[k] = NoLink <=> link[k] = NoLink
                 /\ link[k] # NoLink =>
                       link'[k].owner = link[k].owner /\ link'[k].procs = link[k].procs
<1>1. CASE CanTerminate(h)
  <2>1. link[h] \in Links /\ link' = [link EXCEPT ![h].phase = "closing"]
    BY <1>1 DEF Terminate, CanTerminate, LinkTypeOK
  <2>2. link'[h] \in Links /\ NoLink \notin Links
    BY <2>1, HostAssumption DEF LinkTypeOK, Links
  <2>3. /\ link'[h].phase = "closing" /\ link'[h].owner = link[h].owner
        /\ link'[h].procs = link[h].procs
    BY <2>1 DEF LinkTypeOK, Links
  <2>4. \A k \in Handles : k # h => link'[k] = link[k]
    BY <2>1 DEF LinkTypeOK
  <2>5. QED
    BY <2>1, <2>2, <2>3, <2>4 DEF Up
<1>2. CASE ~CanTerminate(h)
    BY <1>2 DEF Terminate, CanTerminate, Up
<1>3. QED
    BY <1>1, <1>2

LEMMA RunProcAdds ==
    ASSUME LinkTypeOK, NEW e \in Engines, NEW k \in Ops \cup {"DISC"}, NEW h,
           CanRun(h), RunProc(h, k, e)
    PROVE  /\ h \in Handles /\ link[h] # NoLink /\ link'[h] # NoLink
           /\ link'[h].owner = link[h].owner /\ link'[h].phase = link[h].phase
           /\ link[h].procs \in Seq(Procs)
           /\ link'[h].procs = Append(link[h].procs, [kind |-> k, owner |-> e])
           /\ \A m \in Handles : m # h => link'[m] = link[m]
<1>1. h \in Handles /\ link[h] \in Links /\ link[h] # NoLink
    BY DEF CanRun, LinkTypeOK
<1>2. link' = [link EXCEPT ![h].procs = Append(@, [kind |-> k, owner |-> e])]
    BY DEF RunProc
<1>3. LinkTypeOK'
    BY RunProcTypes
<1>4. /\ link'[h].owner = link[h].owner /\ link'[h].phase = link[h].phase
      /\ link'[h].procs = Append(link[h].procs, [kind |-> k, owner |-> e])
      /\ \A m \in Handles : m # h => link'[m] = link[m]
    BY <1>1, <1>2 DEF LinkTypeOK, Links
<1>5. link'[h] # NoLink
  <2>1. link'[h] = [link[h] EXCEPT !.procs = Append(@, [kind |-> k, owner |-> e])]
    BY <1>1, <1>2 DEF LinkTypeOK
  <2>2. [kind |-> k, owner |-> e] \in Procs
    BY DEF Procs
  <2>3. Append(link[h].procs, [kind |-> k, owner |-> e]) \in Seq(Procs)
    BY <1>1, <2>2 DEF Links
  <2>4. link'[h] \in Links
    BY <1>1, <2>1, <2>3 DEF Links
  <2>5. QED
    BY <2>4, HostAssumption
<1>6. QED
    BY <1>1, <1>4, <1>5 DEF Links

LEMMA HostDeeds ==
    ASSUME SessionsInv, Orderly, HostStep
    PROVE  \/ \E h \in Handles : Breaks(h)
           \/ \E ev \in Events :
                 /\ queue' = Append(queue, ev)
                 /\ \/ SendsFail(ev)
                    \/ \E h \in Handles : \/ SendsOk(ev, h) \/ SendsEnd(ev, h)
                                          \/ SendsAnswer(ev, h) \/ SendsOther(ev, h)
BY HostKinds, PushKeeps
   DEF SessionsInv, LifeInv, Made, Orderly, Base, Inv, TypeOK, HostTypeOK

\* The host raises no link of a handle that an engine has.
LEMMA HostRaisesNone ==
    ASSUME SessionsInv, Orderly, HostStep, NEW e \in Engines, NEW h \in Handles,
           connHandle[e] = h, Up(h)'
    PROVE  Up(h)
<1>1. ASSUME NEW k \in Handles, Breaks(k) PROVE Up(h)
    BY <1>1 DEF Breaks, Up
<1>2. ASSUME NEW ev \in Events, NEW k \in Handles,
             SendsEnd(ev, k) \/ SendsAnswer(ev, k) \/ SendsOther(ev, k) \/ SendsFail(ev)
      PROVE  Up(h)
    BY <1>2 DEF SendsEnd, SendsAnswer, SendsOther, SendsFail, Up
<1>3. ASSUME NEW ev \in Events, NEW k \in Handles, SendsOk(ev, k) PROVE Up(h)
  <2>1. h # k
    BY <1>3, FreshHandle
  <2>2. QED
    BY <1>3, <2>1 DEF SendsOk, Up
<1>4. QED
    BY <1>1, <1>2, <1>3, HostDeeds

-----------------------------------------------------------------------------
(* Every link that is up and known is driven.                              *)

DriveInv ==
    \A e \in Engines, h \in Handles : connHandle[e] = h /\ Up(h) => Drives(state[e])

\* What handling an event leaves of a machine that drives a link.
LEMMA Driving ==
    ASSUME NEW s \in ConnStates
    PROVE  /\ Drives(s) => Drives(After(s, "DISCOVER_DONE")) /\ Drives(After(s, "BACKOFF_ELAPSED"))
           /\ Drives(After("CONNECTING", "GAP_CONNECT_OK"))
           /\ \A ev : After(s, ev) = "DISCOVERING" => s = "DISCOVERING" \/ (s = "CONNECTING" /\ ev = "GAP_CONNECT_OK")
BY DEF Drives, After, Accepts, Target, ConnStates

LEMMA DrivePop ==
    ASSUME SessionsInv, AttemptHasDeadline, DriveInv, Pop
    PROVE  DriveInv'
<1> DEFINE ev == Head(queue)
           e == ev.owner
<1>1. /\ Inv /\ Base /\ LifeInv /\ LinkTypeOK
      /\ state \in [Engines -> ConnStates]
      /\ connHandle \in [Engines -> Handles \cup {NoHandle}] /\ NoHandle \notin Handles
    BY HostAssumption DEF SessionsInv, Base, Inv, TypeOK, HostTypeOK
<1>2. /\ ev \in Events /\ e \in Engines /\ Handled(e, ev.type)
      /\ \A d \in Engines : d # e => state'[d] = state[d]
    BY <1>1, PopMoves DEF Events
<1>3. connHandle' = CASE ev.type = "CONNECT_OK" -> [connHandle EXCEPT ![e] = ev.handle]
                      [] ev.type \in {"CONNECT_FAIL", "DISCONNECT"} ->
                            [connHandle EXCEPT ![e] = NoHandle]
                      [] OTHER -> connHandle
    BY <1>1, PopKinds
<1>4. queue # <<>> /\ ev = queue[1] /\ 1 \in Positions /\ (ev.type \notin Results => connHandle[e] # NoHandle)
    BY <1>1, HeadFinds, PopKinds
<1>5. ev.type = "CONNECT_OK" => ~reported[e] /\ state[e] = "CONNECTING"
  <2>1. ASSUME ev.type = "CONNECT_OK" PROVE ~reported[e] /\ session[e] = IF reported[e] THEN "none" ELSE "asked"
    BY <1>2, <1>4, <2>1 DEF SessionsInv, SessionInv, Awaiting, Results
  <2>2. QED
    BY <1>2, <2>1 DEF AttemptHasDeadline
<1> HIDE DEF ev, e
<1>6. \A k \in Handles : Up(k)' => Up(k)
  <2>1. CASE UNCHANGED link
    BY <2>1 DEF Up
  <2>2. CASE CanRun(connHandle[e]) /\ RunProc(connHandle[e], "DISC", e)
    BY <1>1, <1>2, <2>2, RunProcAdds DEF Up
  <2>3. CASE connHandle[e] \in Handles /\ Terminate(connHandle[e])
    BY <1>1, <2>3, TerminateDowns
  <2>4. QED
    BY <1>1, <1>2, <1>4, <2>1, <2>2, <2>3 DEF Handled, Events, Results
<1>7. SUFFICES ASSUME NEW d \in Engines, NEW h \in Handles, connHandle'[d] = h, Up(h)'
               PROVE  Drives(state'[d])
    BY DEF DriveInv
<1>8. CASE d # e
    BY <1>1, <1>2, <1>3, <1>6, <1>7, <1>8 DEF DriveInv
<1>9. CASE d = e
  <2>1. CASE ev.type = "CONNECT_OK"
    BY <1>1, <1>2, <1>5, <1>9, <2>1, Driving DEF Handled, Told
  <2>2. CASE ev.type \in {"CONNECT_FAIL", "DISCONNECT"}
    BY <1>1, <1>2, <1>3, <1>7, <1>9, <2>2
  <2>3. CASE ev.type \in {"ATTR_OP", "OTHER"}
    BY <1>1, <1>2, <1>3, <1>6, <1>7, <1>9, <2>3 DEF Handled, DriveInv
  <2>4. CASE ev.type = "DISC_DONE"
    <3>1. connHandle[e] = h /\ Up(h) /\ Drives(state[e])
        BY <1>1, <1>2, <1>3, <1>6, <1>7, <1>9, <2>4 DEF DriveInv
    <3>2. ~Terminate(h)
        BY <1>1, <1>7, TerminateDowns
    <3>3. QED
        BY <1>1, <1>2, <1>9, <2>4, <3>1, <3>2, Driving DEF Handled, Told
  <2>5. QED
    BY <1>2, <2>1, <2>2, <2>3, <2>4 DEF Events
<1>10. QED
    BY <1>8, <1>9

LEMMA DriveNext ==
    ASSUME Orderly, SessionsInv, AttemptHasDeadline, DriveInv, [Next]_vars
    PROVE  DriveInv'
<1>1. /\ LinkTypeOK /\ state \in [Engines -> ConnStates]
      /\ connHandle \in [Engines -> Handles \cup {NoHandle}] /\ NoHandle \notin Handles
    BY HostAssumption DEF SessionsInv, Base, Inv, TypeOK, HostTypeOK
<1>2. CASE HostStep /\ UNCHANGED <<engineVars, main, cb, session, target>>
    BY <1>2, HostRaisesNone DEF DriveInv, engineVars
<1>3. ASSUME NEW e \in Engines, NEW p \in Peers, NEW s \in ConnStates, ConnectFrom(e, p, s)
      PROVE  DriveInv'
  <2>1. /\ connHandle[e] = NoHandle /\ UNCHANGED <<link, connHandle>>
        /\ \A d \in Engines : d # e => state'[d] = state[d]
    BY <1>1, <1>3 DEF ConnectFrom, MayConnect
  <2>2. QED
    BY <1>1, <2>1 DEF DriveInv, Up
<1>4. CASE Rests
    BY <1>1, <1>4, Driving DEF Rests, DriveInv, Up
<1>5. ASSUME NEW e \in Engines, LetsGo(e) PROVE DriveInv'
  <2> SUFFICES ASSUME NEW d \in Engines, NEW h \in Handles, connHandle[d] = h, Up(h)'
               PROVE  Drives(state'[d])
    BY <1>5 DEF LetsGo, DriveInv
  <2>1. Up(h) /\ (d = e => connHandle[e] # h)
    BY <1>1, <1>5, TerminateDowns DEF LetsGo, Up
  <2>2. d # e
    BY <2>1
  <2>3. QED
    BY <1>5, <2>1, <2>2 DEF LetsGo, DriveInv
<1>6. ASSUME NEW e \in Engines, NEW k \in Ops \cup {"DISC"}, Begins(e, k) PROVE DriveInv'
  <2>1. \A h \in Handles : Up(h)' => Up(h)
    BY <1>1, <1>6, RunProcAdds DEF Begins, Up
  <2>2. QED
    BY <1>6, <2>1 DEF Begins, DriveInv
<1>7. QED
    BY <1>2, <1>3, <1>4, <1>5, <1>6, Deeds, DrivePop

\* No link is up that its engine does not know and drive: when neither a completion nor
\* a connect() crosses a machine in BACKOFF, every link has an engine that will close it
\* (handle_event_, poll_timeout and gatt_disconnect in nimble_gattc.cpp).
THEOREM NoLinkIsOrphan ==
    ASSUME Orderly, "backoff" \notin Allowed
    PROVE  Spec => []NoOrphanLink
<1>1. Init => DriveInv
  <2>1. Init => \A h \in Handles : link[h] = NoLink
    BY DEF Init, HostInit
  <2>2. QED
    BY <2>1 DEF DriveInv, Up
<1>2. SessionsInv /\ AttemptHasDeadline /\ DriveInv /\ [Next]_vars => DriveInv'
    BY DriveNext
<1>3. SessionsInv /\ DriveInv => NoOrphanLink
  <2> SUFFICES ASSUME SessionsInv, DriveInv, NEW h \in Handles, Up(h),
                      connHandle[link[h].owner] = h => ~Drives(state[link[h].owner])
               PROVE  \E i \in Positions : queue[i] = Event("CONNECT_OK", link[h].owner, h, "NONE")
    BY DEF NoOrphanLink, Up, Drives, Positions
  <2> DEFINE e == link[h].owner
  <2>1. KnownLink(h) /\ link[h] \in Links /\ queue \in Seq(Events)
    BY DEF Up, SessionsInv, LifeInv, LinkInv, Base, Inv, TypeOK, HostTypeOK, LinkTypeOK, QueueTypeOK
  <2>2. e \in Engines
    BY <2>1 DEF Links
  <2>3. connHandle[e] # h
    BY <2>2 DEF DriveInv
  <2>4. PICK i \in Positions : Started(i, e, h)
    BY <2>1, <2>3 DEF KnownLink
  <2>5. queue[i] \in Events /\ queue[i].op = "NONE"
    BY <2>1, <2>4, EventTypes DEF Started, SessionsInv, LifeInv, FirstInv, Results
  <2>6. queue[i] = Event("CONNECT_OK", e, h, "NONE")
    BY <2>4, <2>5 DEF Events, Event, Started
  <2>7. QED
    BY <2>6
<1>4. "late" \notin Allowed
    BY DEF Orderly
<1>5. QED
    BY <1>1, <1>2, <1>3, <1>4, SessionsHold, AttemptsHaveDeadline, PTL DEF Spec

-----------------------------------------------------------------------------
(* Attribute operations and discoveries.                                   *)

\* The operation that runs on a link is the only one, the one its engine waits for, and
\* not answered yet.
AskedOnce(h) ==
    LET e == link[h].owner
    IN  \A p \in 1 .. Len(link[h].procs) : link[h].procs[p].kind # "DISC" =>
          /\ pendingOp[e] = link[h].procs[p].kind
          /\ state[e] # "DISCOVERING"
          /\ \A q \in 1 .. Len(link[h].procs) : link[h].procs[q].kind # "DISC" => q = p
          /\ \A i \in Positions : queue[i].owner = e => queue[i].type # "ATTR_OP"

AskInv == \A h \in Handles : link[h] # NoLink => AskedOnce(h)

\* The answer in the queue is the only one for its engine, to the operation it waits for.
AnswerInv ==
    \A i \in Positions : queue[i].type = "ATTR_OP" =>
        /\ queue[i].op \in Ops /\ pendingOp[queue[i].owner] = queue[i].op
        /\ state[queue[i].owner] # "DISCOVERING"
        /\ \A j \in Positions :
              queue[j].type = "ATTR_OP" /\ queue[j].owner = queue[i].owner => j = i

\* An engine that waits for a discovery has one under way, or its end, or is about to
\* begin it; or its link is over.
Seeks(h) == \E p \in 1 .. Len(link[h].procs) : link[h].procs[p].kind = "DISC"

SearchInv ==
    \A e \in Engines, h \in Handles : state[e] = "DISCOVERING" /\ connHandle[e] = h /\ Up(h) =>
        \/ cb # NoCall /\ cb.to = e /\ cb.kind = "up"
        \/ Seeks(h)
        \/ \E i \in Positions : queue[i].owner = e /\ queue[i].type = "DISC_DONE"

ProcsInv == AskInv /\ AnswerInv /\ SearchInv

\* A step keeps what AskedOnce says of a link if it adds no operation, and neither
\* answers nor forgets one.
LEMMA AskedStill ==
    ASSUME NEW h \in Handles, AskedOnce(h), link[h].procs \in Seq(Procs),
           link'[h].owner = link[h].owner,
           \/ link'[h].procs = link[h].procs
           \/ link[h].procs # <<>> /\ link'[h].procs = Tail(link[h].procs)
           \/ \E e \in Engines : link'[h].procs = Append(link[h].procs, [kind |-> "DISC", owner |-> e]),
           (\E p \in 1 .. Len(link[h].procs) : link[h].procs[p].kind # "DISC") =>
              /\ pendingOp'[link[h].owner] = pendingOp[link[h].owner]
              /\ state'[link[h].owner] = "DISCOVERING" => state[link[h].owner] = "DISCOVERING"
              /\ (\E p \in 1 .. Len(link'[h].procs) : link'[h].procs[p].kind # "DISC") =>
                    \A i \in Positions' : queue'[i].owner = link[h].owner => queue'[i].type # "ATTR_OP"
    PROVE  AskedOnce(h)'
<1> DEFINE e == link[h].owner
           Shift(s) == \A p \in 1 .. Len(link'[h].procs) : link'[h].procs[p].kind # "DISC" =>
              p + s \in 1 .. Len(link[h].procs) /\ link'[h].procs[p] = link[h].procs[p + s]
<1>1. PICK s \in {0, 1} : Shift(s)
  <2>1. CASE link'[h].procs = link[h].procs
    <3>1. Shift(0)
        BY <2>1
    <3>2. QED
        BY <3>1
  <2>2. CASE link[h].procs # <<>> /\ link'[h].procs = Tail(link[h].procs)
    <3>1. Shift(1)
        BY <2>2
    <3>2. QED
        BY <3>1
  <2>3. ASSUME NEW d \in Engines, link'[h].procs = Append(link[h].procs, [kind |-> "DISC", owner |-> d])
        PROVE  \E s \in {0, 1} : Shift(s)
    <3>1. Shift(0)
        BY <2>3
    <3>2. QED
        BY <3>1
  <2>4. QED
    BY <2>1, <2>2, <2>3
<1>2. SUFFICES ASSUME NEW p \in 1 .. Len(link'[h].procs), link'[h].procs[p].kind # "DISC"
      PROVE  /\ pendingOp'[e] = link'[h].procs[p].kind
             /\ state'[e] # "DISCOVERING"
             /\ \A q \in 1 .. Len(link'[h].procs) : link'[h].procs[q].kind # "DISC" => q = p
             /\ \A i \in Positions' : queue'[i].owner = e => queue'[i].type # "ATTR_OP"
    BY DEF AskedOnce
<1>3. p + s \in 1 .. Len(link[h].procs) /\ link'[h].procs[p] = link[h].procs[p + s]
    BY <1>1, <1>2
<1>4. /\ pendingOp[e] = link[h].procs[p + s].kind
      /\ state[e] # "DISCOVERING"
      /\ \A q \in 1 .. Len(link[h].procs) : link[h].procs[q].kind # "DISC" => q = p + s
    BY <1>2, <1>3 DEF AskedOnce
<1>5. \A q \in 1 .. Len(link'[h].procs) : link'[h].procs[q].kind # "DISC" => q = p
    BY <1>1, <1>4
<1>6. QED
    BY <1>2, <1>3, <1>4, <1>5

LEMMA AnswersStay ==
    ASSUME AnswerInv, UNCHANGED <<state, pendingOp>>,
           \A i \in Positions' : queue'[i].type = "ATTR_OP" => i \in Positions /\ queue'[i] = queue[i]
    PROVE  AnswerInv'
<1> SUFFICES ASSUME NEW i \in Positions', queue'[i].type = "ATTR_OP"
             PROVE  /\ queue'[i].op \in Ops /\ pendingOp'[queue'[i].owner] = queue'[i].op
                    /\ state'[queue'[i].owner] # "DISCOVERING"
                    /\ \A j \in Positions' :
                          queue'[j].type = "ATTR_OP" /\ queue'[j].owner = queue'[i].owner => j = i
    BY DEF AnswerInv
<1>1. i \in Positions /\ queue'[i] = queue[i]
    OBVIOUS
<1>2. QED
    BY <1>1 DEF AnswerInv

\* The host tells an engine something that is not the end of a procedure.
LEMMA ProcsTold ==
    ASSUME SessionsInv, ProcsInv, NEW ev \in Events, queue' = Append(queue, ev),
           ev.type \notin {"ATTR_OP", "DISC_DONE"},
           UNCHANGED <<state, connHandle, pendingOp, cb>>,
           \A k \in Handles : \/ link'[k] = link[k]
                              \/ link'[k] = NoLink
                              \/ link'[k].procs = <<>> /\ \A e \in Engines : connHandle[e] # k
    PROVE  ProcsInv'
<1> DEFINE n == Len(queue) + 1
<1>1. /\ n \in Positions' /\ queue'[n] = ev
      /\ Positions' = Positions \cup {n}
      /\ \A i \in Positions : i \in Positions' /\ queue'[i] = queue[i]
      /\ LinkTypeOK
    BY Appended DEF SessionsInv, Base, Inv, TypeOK, HostTypeOK, QueueTypeOK, Positions
<1> HIDE DEF n
<1>2. AskInv'
  <2> SUFFICES ASSUME NEW k \in Handles, link'[k] # NoLink PROVE AskedOnce(k)'
    BY DEF AskInv
  <2>1. CASE link'[k].procs = <<>>
    BY <2>1 DEF AskedOnce
  <2>2. CASE link'[k] = link[k]
    <3>1. AskedOnce(k) /\ link[k].procs \in Seq(Procs)
        BY <1>1, <2>2 DEF ProcsInv, AskInv, LinkTypeOK, Links
    <3>2. QED
        BY <1>1, <2>2, <3>1 DEF AskedOnce
  <2>3. QED
    BY <2>1, <2>2
<1>3. AnswerInv'
    BY <1>1, AnswersStay DEF ProcsInv
<1>4. SearchInv'
  <2> SUFFICES ASSUME NEW e \in Engines, NEW k \in Handles, state'[e] = "DISCOVERING",
                      connHandle'[e] = k, Up(k)', ~(cb' # NoCall /\ cb'.to = e /\ cb'.kind = "up")
               PROVE  \/ Seeks(k)'
                      \/ \E i \in Positions' : queue'[i].owner = e /\ queue'[i].type = "DISC_DONE"
    BY DEF SearchInv
  <2>1. link'[k] = link[k] /\ Up(k)
    BY DEF Up
  <2>2. Seeks(k) \/ \E i \in Positions : queue[i].owner = e /\ queue[i].type = "DISC_DONE"
    BY <2>1 DEF ProcsInv, SearchInv
  <2>3. QED
    BY <1>1, <2>1, <2>2 DEF Seeks
<1>5. QED
    BY <1>2, <1>3, <1>4 DEF ProcsInv

\* The oldest procedure of a link ends.
LEMMA ProcsEnded ==
    ASSUME SessionsInv, ProcsInv, NEW ev \in Events, queue' = Append(queue, ev),
           NEW h \in Handles, SendsAnswer(ev, h),
           UNCHANGED <<state, connHandle, pendingOp, cb>>
    PROVE  ProcsInv'
<1> DEFINE n == Len(queue) + 1
           o == link[h].owner
           procs == link[h].procs
<1>1. /\ n \in Positions' /\ queue'[n] = ev
      /\ Positions' = Positions \cup {n}
      /\ \A i \in Positions : i \in Positions' /\ queue'[i] = queue[i]
      /\ LinkTypeOK
    BY Appended DEF SessionsInv, Base, Inv, TypeOK, HostTypeOK, QueueTypeOK, Positions
<1> HIDE DEF n
<1>2. /\ link[h] # NoLink /\ link'[h] # NoLink /\ link'[h].owner = o /\ procs # <<>>
      /\ link'[h].procs = Tail(procs) /\ link'[h].phase = link[h].phase
      /\ \A k \in Handles : k # h => link'[k] = link[k]
    BY DEF SendsAnswer
<1>3. procs \in Seq(Procs) /\ KnownLink(h) /\ AskedOnce(h)
    BY <1>1, <1>2 DEF LinkTypeOK, Links, SessionsInv, LifeInv, LinkInv, ProcsInv, AskInv
<1>4. 1 \in 1 .. Len(procs) /\ Head(procs) = procs[1] /\ procs[1] \in Procs
    BY <1>2, <1>3
<1>5. /\ ev.owner = o
      /\ IF procs[1].kind = "DISC" THEN ev.type = "DISC_DONE"
         ELSE ev.type = "ATTR_OP" /\ ev.op = procs[1].kind /\ ev.op \in Ops
    BY <1>3, <1>4 DEF SendsAnswer, KnownLink, Procs
<1>6. \A k \in Handles : link[k] # NoLink /\ link[k].owner = o => k = h
    BY <1>3 DEF KnownLink, Owns
<1>7. /\ \A p \in 1 .. Len(Tail(procs)) : p + 1 \in 1 .. Len(procs) /\ p + 1 # 1 /\ Tail(procs)[p] = procs[p + 1]
      /\ \A p \in 1 .. Len(procs) : p # 1 =>
            p - 1 \in 1 .. Len(Tail(procs)) /\ Tail(procs)[p - 1] = procs[p]
    BY <1>2, <1>3
<1>8. ASSUME NEW p \in 1 .. Len(Tail(procs)), Tail(procs)[p].kind # "DISC"
      PROVE  ev.type = "DISC_DONE"
  <2>1. p + 1 \in 1 .. Len(procs) /\ procs[p + 1].kind # "DISC" /\ p + 1 # 1
    BY <1>7, <1>8
  <2>2. procs[1].kind = "DISC"
    BY <1>3, <1>4, <2>1 DEF AskedOnce
  <2>3. QED
    BY <1>5, <2>2
<1>9. AskInv'
  <2> SUFFICES ASSUME NEW k \in Handles, link'[k] # NoLink PROVE AskedOnce(k)'
    BY DEF AskInv
  <2>1. CASE k = h
    <3>1. ASSUME NEW p \in 1 .. Len(Tail(procs)), Tail(procs)[p].kind # "DISC"
          PROVE  \A i \in Positions' : queue'[i].owner = o => queue'[i].type # "ATTR_OP"
        <4>1. p + 1 \in 1 .. Len(procs) /\ procs[p + 1].kind # "DISC"
            BY <1>7, <3>1
        <4>2. \A i \in Positions : queue[i].owner = o => queue[i].type # "ATTR_OP"
            BY <1>3, <4>1 DEF AskedOnce
        <4>3. ev.type = "DISC_DONE"
            BY <1>8, <3>1
        <4>4. QED
            BY <1>1, <4>2, <4>3
    <3>2. \A p \in 1 .. Len(link'[h].procs) : link'[h].procs[p].kind # "DISC" =>
             \A i \in Positions' : queue'[i].owner = o => queue'[i].type # "ATTR_OP"
        BY <1>2, <3>1
    <3>3. AskedOnce(h) /\ procs \in Seq(Procs) /\ link'[h].owner = o /\ procs # <<>> /\ link'[h].procs = Tail(procs)
        BY <1>2, <1>3
    <3>4. AskedOnce(h)'
        BY <3>2, <3>3, AskedStill
    <3>5. QED
        BY <2>1, <3>4
  <2>2. CASE k # h
    <3>1. AskedOnce(k) /\ link'[k] = link[k] /\ link[k].owner # o /\ link[k].procs \in Seq(Procs)
        BY <1>1, <1>2, <1>6, <2>2 DEF ProcsInv, AskInv, LinkTypeOK, Links
    <3>2. ASSUME NEW p \in 1 .. Len(link[k].procs), link[k].procs[p].kind # "DISC"
          PROVE  \A i \in Positions' : queue'[i].owner = link[k].owner => queue'[i].type # "ATTR_OP"
        <4>1. \A i \in Positions : queue[i].owner = link[k].owner => queue[i].type # "ATTR_OP"
            BY <3>1, <3>2 DEF AskedOnce
        <4>2. ev.owner # link[k].owner
            BY <1>5, <3>1
        <4>3. QED
            BY <1>1, <4>1, <4>2
    <3>3. QED
        BY <3>1, <3>2, AskedStill
  <2>3. QED
    BY <2>1, <2>2
<1>10. AnswerInv'
  <2>1. CASE ev.type = "DISC_DONE"
    BY <1>1, <2>1, AnswersStay DEF ProcsInv
  <2>2. CASE ev.type = "ATTR_OP"
    <3>1. /\ pendingOp[o] = ev.op /\ ev.op \in Ops /\ state[o] # "DISCOVERING"
          /\ \A i \in Positions : queue[i].owner = o => queue[i].type # "ATTR_OP"
        BY <1>3, <1>4, <1>5, <2>2 DEF AskedOnce
    <3> SUFFICES ASSUME NEW i \in Positions', queue'[i].type = "ATTR_OP"
                 PROVE  /\ queue'[i].op \in Ops /\ pendingOp[queue'[i].owner] = queue'[i].op
                        /\ state[queue'[i].owner] # "DISCOVERING"
                        /\ \A j \in Positions' :
                              queue'[j].type = "ATTR_OP" /\ queue'[j].owner = queue'[i].owner => j = i
        BY DEF AnswerInv
    <3>2. CASE i = n
        BY <1>1, <1>5, <3>1, <3>2
    <3>3. CASE i \in Positions
      <4>1. queue[i].type = "ATTR_OP" /\ queue'[i] = queue[i] /\ queue[i].owner # o
          BY <1>1, <3>1, <3>3
      <4>2. /\ queue[i].op \in Ops /\ pendingOp[queue[i].owner] = queue[i].op
            /\ state[queue[i].owner] # "DISCOVERING"
            /\ \A j \in Positions :
                  queue[j].type = "ATTR_OP" /\ queue[j].owner = queue[i].owner => j = i
          BY <3>3, <4>1 DEF ProcsInv, AnswerInv
      <4>3. QED
          BY <1>1, <1>5, <3>3, <4>1, <4>2
    <3>4. QED
        BY <1>1, <3>2, <3>3
  <2>3. QED
    BY <1>5, <2>1, <2>2
<1>11. SearchInv'
  <2> SUFFICES ASSUME NEW e \in Engines, NEW k \in Handles, state[e] = "DISCOVERING",
                      connHandle[e] = k, Up(k)', ~(cb # NoCall /\ cb.to = e /\ cb.kind = "up"),
                      ~Seeks(k)'
               PROVE  \E i \in Positions' : queue'[i].owner = e /\ queue'[i].type = "DISC_DONE"
    BY DEF SearchInv
  <2>1. Up(k)
    BY <1>2 DEF Up
  <2>2. Seeks(k) \/ \E i \in Positions : queue[i].owner = e /\ queue[i].type = "DISC_DONE"
    BY <2>1 DEF ProcsInv, SearchInv
  <2>3. ASSUME Seeks(k) PROVE \E i \in Positions' : queue'[i].owner = e /\ queue'[i].type = "DISC_DONE"
    <3>1. k = h
        BY <1>2, <2>3 DEF Seeks
    <3>2. o = e
        BY <1>2, <3>1, OwnHandle
    <3>3. PICK p \in 1 .. Len(procs) : procs[p].kind = "DISC"
        BY <2>3, <3>1 DEF Seeks
    <3>4. p = 1
      <4>1. ASSUME p # 1 PROVE FALSE
        <5>1. p - 1 \in 1 .. Len(link'[h].procs) /\ link'[h].procs[p - 1].kind = "DISC"
            BY <1>2, <1>7, <3>3, <4>1
        <5>2. QED
            BY <3>1, <5>1 DEF Seeks
      <4>2. QED
          BY <4>1
    <3>5. QED
        BY <1>1, <1>5, <3>2, <3>3, <3>4
  <2>4. QED
    BY <1>1, <2>2, <2>3
<1>12. QED
    BY <1>9, <1>10, <1>11 DEF ProcsInv

LEMMA ProcsHost ==
    ASSUME SessionsInv, Orderly, ProcsInv, HostStep, UNCHANGED <<state, connHandle, pendingOp, cb>>
    PROVE  ProcsInv'
<1>1. ASSUME NEW h \in Handles, Breaks(h) PROVE ProcsInv'
  <2>1. /\ UNCHANGED queue
        /\ \A k \in Handles : link'[k] # NoLink =>
              /\ link[k] # NoLink /\ link'[k].owner = link[k].owner
              /\ link'[k].procs = link[k].procs
        /\ \A k \in Handles : Up(k)' => Up(k)
    BY <1>1 DEF Breaks, Up
  <2>2. AskInv'
    BY <2>1 DEF ProcsInv, AskInv, AskedOnce, Positions
  <2>3. AnswerInv'
    BY <2>1 DEF ProcsInv, AnswerInv, Positions
  <2>4. SearchInv'
    BY <2>1 DEF ProcsInv, SearchInv, Seeks, Up, Positions
  <2>5. QED
    BY <2>2, <2>3, <2>4 DEF ProcsInv
<1>2. ASSUME NEW ev \in Events, queue' = Append(queue, ev),
             \/ SendsFail(ev)
             \/ \E h \in Handles : SendsOk(ev, h) \/ SendsEnd(ev, h) \/ SendsOther(ev, h)
      PROVE  ProcsInv'
  <2>1. ev.type \notin {"ATTR_OP", "DISC_DONE"}
    BY <1>2 DEF SendsFail, SendsOk, SendsEnd, SendsOther, Event
  <2>2. \A k \in Handles : \/ link'[k] = link[k]
                           \/ link'[k] = NoLink
                           \/ link'[k].procs = <<>> /\ \A e \in Engines : connHandle[e] # k
    BY <1>2, FreshHandle DEF SendsFail, SendsOk, SendsEnd, SendsOther
  <2>3. QED
    BY <1>2, <2>1, <2>2, ProcsTold
<1>3. QED
    BY <1>1, <1>2, HostDeeds, ProcsEnded

-----------------------------------------------------------------------------
(* ... and the main thread's steps.                                        *)

\* Nothing happens on a link or in the queue.
LEMMA ProcsStay ==
    ASSUME ProcsInv, UNCHANGED <<queue, link, connHandle, pendingOp>>,
           \A d \in Engines : state'[d] = "DISCOVERING" => state[d] = "DISCOVERING",
           cb' = cb \/ (cb # NoCall => cb.kind # "up"),
           queue \in Seq(Events), LinkTypeOK
    PROVE  ProcsInv'
<1>1. AskInv'
  <2> SUFFICES ASSUME NEW k \in Handles, link[k] # NoLink PROVE AskedOnce(k)'
    BY DEF AskInv
  <2>1. AskedOnce(k) /\ link[k].procs \in Seq(Procs) /\ link[k].owner \in Engines
    BY DEF ProcsInv, AskInv, LinkTypeOK, Links
  <2>2. QED
    BY <2>1 DEF AskedOnce, Positions
<1>2. AnswerInv'
  <2>1. \A i \in Positions : queue[i].owner \in Engines
    BY EventTypes
  <2>2. QED
    BY <2>1 DEF ProcsInv, AnswerInv, Positions
<1>3. SearchInv'
    BY DEF ProcsInv, SearchInv, Seeks, Up, Positions
<1>4. QED
    BY <1>1, <1>2, <1>3 DEF ProcsInv

\* An engine without a handle waits for no answer.
LEMMA NothingAsked ==
    ASSUME SessionsInv, NEW e \in Engines, connHandle[e] = NoHandle
    PROVE  /\ \A h \in Handles : Owns(e, h) => link[h].procs = <<>>
           /\ \A i \in Positions : queue[i].owner = e => queue[i].type # "ATTR_OP"
<1>1. \A h \in Handles : Owns(e, h) => link[h].procs = <<>>
    BY HostAssumption DEF SessionsInv, LifeInv, LinkInv, KnownLink, Owns
<1>2. ASSUME NEW i \in Positions, queue[i].owner = e, queue[i].type = "ATTR_OP" PROVE FALSE
  <2>1. PICK j \in Positions : queue[j].type = "CONNECT_OK" /\ queue[j].owner = e
    BY <1>2 DEF SessionsInv, LifeInv, LaterInv, Results
  <2>2. QED
    BY <1>2, <2>1 DEF SessionsInv, LifeInv, FirstInv, Results
<1>3. QED
    BY <1>1, <1>2

LEMMA ProcsLetGo ==
    ASSUME SessionsInv, ProcsInv, NEW e \in Engines, LetsGo(e)
    PROVE  ProcsInv'
<1>1. /\ LinkTypeOK /\ queue \in Seq(Events)
      /\ state \in [Engines -> ConnStates] /\ pendingOp \in [Engines -> Ops \cup {"NONE"}]
      /\ connHandle \in [Engines -> Handles \cup {NoHandle}] /\ NoHandle \notin Handles
      /\ state[e] = "CONNECTING" => connHandle[e] = NoHandle
    BY HostAssumption
       DEF SessionsInv, Base, Inv, AttemptIsOpen, TypeOK, HostTypeOK, QueueTypeOK
<1>2. /\ UNCHANGED <<queue, connHandle>>
      /\ \A k \in Handles :
            /\ Up(k)' => Up(k) /\ connHandle[e] # k
            /\ link'[k] # NoLink =>
                  /\ link[k] # NoLink /\ link'[k].owner = link[k].owner
                  /\ link'[k].procs = link[k].procs
      /\ \A d \in Engines : state'[d] = "DISCOVERING" => state[d] = "DISCOVERING"
      /\ \A d \in Engines : pendingOp'[d] = pendingOp[d] \/ (d = e /\ state[e] \in Deadlined)
    BY <1>1, TerminateDowns DEF LetsGo, Up
<1>3. AskInv'
  <2> SUFFICES ASSUME NEW k \in Handles, link'[k] # NoLink PROVE AskedOnce(k)'
    BY DEF AskInv
  <2>1. /\ AskedOnce(k) /\ link[k] # NoLink /\ link[k].procs \in Seq(Procs)
        /\ link[k].owner \in Engines
    BY <1>1, <1>2 DEF ProcsInv, AskInv, LinkTypeOK, Links
  <2>2. ASSUME NEW p \in 1 .. Len(link[k].procs), link[k].procs[p].kind # "DISC"
        PROVE  /\ pendingOp'[link[k].owner] = pendingOp[link[k].owner]
               /\ \A i \in Positions : queue[i].owner = link[k].owner => queue[i].type # "ATTR_OP"
    <3>1. state[link[k].owner] # "DISCOVERING"
        BY <2>1, <2>2 DEF AskedOnce
    <3>2. link[k].owner = e => state[e] # "CONNECTING"
        BY <1>1, <2>1, <2>2, NothingAsked DEF Owns
    <3>3. QED
        BY <1>2, <2>1, <2>2, <3>1, <3>2 DEF AskedOnce, Deadlined
  <2>3. QED
    BY <1>2, <2>1, <2>2, AskedStill DEF Positions
<1>4. AnswerInv'
  <2> SUFFICES ASSUME NEW i \in Positions, queue[i].type = "ATTR_OP"
               PROVE  /\ queue[i].op \in Ops /\ pendingOp'[queue[i].owner] = queue[i].op
                      /\ state'[queue[i].owner] # "DISCOVERING"
                      /\ \A j \in Positions :
                            queue[j].type = "ATTR_OP" /\ queue[j].owner = queue[i].owner => j = i
    BY <1>2 DEF AnswerInv, Positions
  <2>1. /\ queue[i].op \in Ops /\ pendingOp[queue[i].owner] = queue[i].op
        /\ state[queue[i].owner] # "DISCOVERING" /\ queue[i].owner \in Engines
        /\ \A j \in Positions :
              queue[j].type = "ATTR_OP" /\ queue[j].owner = queue[i].owner => j = i
    BY <1>1, EventTypes DEF ProcsInv, AnswerInv
  <2>2. queue[i].owner = e => state[e] # "CONNECTING"
    BY <1>1, NothingAsked
  <2>3. QED
    BY <1>2, <2>1, <2>2 DEF Deadlined
<1>5. SearchInv'
  <2> SUFFICES ASSUME NEW d \in Engines, NEW k \in Handles, state'[d] = "DISCOVERING",
                      connHandle[d] = k, Up(k)', ~(cb' # NoCall /\ cb'.to = d /\ cb'.kind = "up")
               PROVE  \/ Seeks(k)'
                      \/ \E i \in Positions : queue[i].owner = d /\ queue[i].type = "DISC_DONE"
    BY <1>2 DEF SearchInv, Positions
  <2>1. Up(k) /\ d # e /\ state[d] = "DISCOVERING" /\ link'[k].procs = link[k].procs
    BY <1>2 DEF Up
  <2>2. ~(cb # NoCall /\ cb.to = d /\ cb.kind = "up")
    BY <2>1 DEF LetsGo
  <2>3. QED
    BY <2>1, <2>2 DEF ProcsInv, SearchInv, Seeks
<1>6. QED
    BY <1>3, <1>4, <1>5 DEF ProcsInv

\* A discovery begun on an engine's own link adds to what runs there.
LEMMA DiscoveryBegun ==
    ASSUME SessionsInv, ProcsInv, NEW e \in Engines, NEW h, connHandle[e] = h,
           CanRun(h), RunProc(h, "DISC", e)
    PROVE  /\ Seeks(h)'
           /\ \A k \in Handles :
                 /\ Up(k)' => Up(k)
                 /\ Seeks(k) => Seeks(k)'
                 /\ link'[k] # NoLink => link[k] # NoLink
                 /\ link[k] # NoLink =>
                       /\ link'[k].owner = link[k].owner
                       /\ \/ link'[k].procs = link[k].procs
                          \/ link'[k].procs = Append(link[k].procs, [kind |-> "DISC", owner |-> e])
<1> DEFINE r == [kind |-> "DISC", owner |-> e]
<1>1. LinkTypeOK
    BY DEF SessionsInv, Base, Inv, TypeOK, HostTypeOK
<1>2. /\ h \in Handles /\ link[h] # NoLink /\ link'[h] # NoLink
      /\ link'[h].owner = link[h].owner /\ link'[h].phase = link[h].phase
      /\ link[h].procs \in Seq(Procs) /\ link'[h].procs = Append(link[h].procs, r)
      /\ \A m \in Handles : m # h => link'[m] = link[m]
    BY <1>1, RunProcAdds
<1>3. r \in Procs /\ r.kind = "DISC"
    BY DEF Procs
<1> HIDE DEF r
<1>4. /\ \A p \in 1 .. Len(link[h].procs) :
            p \in 1 .. Len(link'[h].procs) /\ link'[h].procs[p] = link[h].procs[p]
      /\ Len(link[h].procs) + 1 \in 1 .. Len(link'[h].procs)
      /\ link'[h].procs[Len(link[h].procs) + 1] = r
    BY <1>2, <1>3
<1>5. \E p \in 1 .. Len(link'[h].procs) : link'[h].procs[p].kind = "DISC"
    BY <1>3, <1>4
<1>6. \A k \in Handles : Seeks(k) => Seeks(k)'
    BY <1>2, <1>5 DEF Seeks
<1>7. QED
    BY <1>2, <1>5, <1>6 DEF Up, r, Seeks

LEMMA ProcsDiscover ==
    ASSUME SessionsInv, ProcsInv, NEW e \in Engines, Begins(e, "DISC"), "DISC" \notin Ops,
           UNCHANGED pendingOp, cb # NoCall, cb.to = e
    PROVE  ProcsInv'
<1>1. /\ LinkTypeOK /\ queue \in Seq(Events) /\ UNCHANGED <<queue, connHandle, state>>
      /\ CanRun(connHandle[e]) /\ RunProc(connHandle[e], "DISC", e)
    BY DEF SessionsInv, Base, Inv, TypeOK, HostTypeOK, QueueTypeOK, Begins
<1>2. \A k \in Handles : connHandle[e] = k => Seeks(k)'
    BY <1>1, DiscoveryBegun
<1>3. AskInv'
  <2> SUFFICES ASSUME NEW k \in Handles, link'[k] # NoLink PROVE AskedOnce(k)'
    BY DEF AskInv
  <2>1. /\ link[k] # NoLink /\ link'[k].owner = link[k].owner
        /\ \/ link'[k].procs = link[k].procs
           \/ link'[k].procs = Append(link[k].procs, [kind |-> "DISC", owner |-> e])
    BY <1>1, DiscoveryBegun
  <2>2. AskedOnce(k) /\ link[k].procs \in Seq(Procs)
    BY <1>1, <2>1 DEF ProcsInv, AskInv, LinkTypeOK, Links
  <2>3. (\E p \in 1 .. Len(link[k].procs) : link[k].procs[p].kind # "DISC") =>
              \A i \in Positions' : queue'[i].owner = link[k].owner => queue'[i].type # "ATTR_OP"
    BY <1>1, <2>2 DEF AskedOnce, Positions
  <2>4. (\E p \in 1 .. Len(link[k].procs) : link[k].procs[p].kind # "DISC")
         \/ ~(\E p \in 1 .. Len(link'[k].procs) : link'[k].procs[p].kind # "DISC")
    <3>1. CASE link'[k].procs = link[k].procs
        BY <3>1
    <3>2. CASE link'[k].procs = Append(link[k].procs, [kind |-> "DISC", owner |-> e])
        BY <2>2, <3>2
    <3>3. QED
        BY <2>1, <3>1, <3>2
  <2>5. QED
    BY <1>1, <2>1, <2>2, <2>3, <2>4, AskedStill
<1>4. AnswerInv'
    BY <1>1, AnswersStay DEF ProcsInv, Positions
<1>5. SearchInv'
  <2> SUFFICES ASSUME NEW d \in Engines, NEW k \in Handles, state[d] = "DISCOVERING",
                      connHandle[d] = k, Up(k)'
               PROVE  \/ Seeks(k)'
                      \/ \E i \in Positions : queue[i].owner = d /\ queue[i].type = "DISC_DONE"
    BY <1>1 DEF SearchInv, Positions
  <2>1. CASE d = e
    BY <1>2, <2>1 DEF Seeks
  <2>2. CASE d # e
    BY <1>1, <2>2, DiscoveryBegun DEF ProcsInv, SearchInv
  <2>3. QED
    BY <2>1, <2>2
<1>6. QED
    BY <1>3, <1>4, <1>5 DEF ProcsInv

LEMMA ProcsAsk ==
    ASSUME SessionsInv, ProcsInv, "cached" \notin Allowed,
           NEW e \in Engines, NEW op \in Ops, Begins(e, op)
    PROVE  ProcsInv'
<1> DEFINE h == connHandle[e]
           r == [kind |-> op, owner |-> e]
           n == Len(link[h].procs) + 1
<1>1. /\ LinkTypeOK /\ queue \in Seq(Events) /\ UNCHANGED <<queue, connHandle, state>>
      /\ pendingOp \in [Engines -> Ops \cup {"NONE"}] /\ op # "DISC" /\ op # "NONE"
      /\ CanRun(h) /\ RunProc(h, op, e)
      /\ state[e] = "READY" /\ pendingOp[e] = "NONE" /\ pendingOp' = [pendingOp EXCEPT ![e] = op]
      /\ cb' = cb
    BY DEF SessionsInv, Base, Inv, TypeOK, HostTypeOK, QueueTypeOK, Begins, Ops
<1>2. /\ h \in Handles /\ link[h] # NoLink /\ link'[h] # NoLink
      /\ link'[h].owner = link[h].owner /\ link'[h].phase = link[h].phase
      /\ link[h].procs \in Seq(Procs) /\ link'[h].procs = Append(link[h].procs, r)
      /\ \A m \in Handles : m # h => link'[m] = link[m]
    BY <1>1, RunProcAdds
<1>3. link[h].owner = e /\ KnownLink(h)
    BY <1>2, OwnHandle DEF SessionsInv, LifeInv, LinkInv
<1>4. r \in Procs /\ r.kind = op
    BY DEF Procs
<1> HIDE DEF r
<1>5. /\ \A p \in 1 .. Len(link'[h].procs) : p = n \/ p \in 1 .. Len(link[h].procs)
      /\ n \notin 1 .. Len(link[h].procs) /\ n \in 1 .. Len(link'[h].procs)
      /\ \A p \in 1 .. Len(link[h].procs) :
            p \in 1 .. Len(link'[h].procs) /\ link'[h].procs[p] = link[h].procs[p]
      /\ link'[h].procs[n] = r
    BY <1>2, <1>4
<1> HIDE DEF n, h
<1>6. \A p \in 1 .. Len(link[h].procs) : link[h].procs[p].kind = "DISC"
  <2> SUFFICES ASSUME NEW p \in 1 .. Len(link[h].procs), link[h].procs[p].kind # "DISC" PROVE FALSE
    OBVIOUS
  <2>1. pendingOp[e] = link[h].procs[p].kind /\ link[h].procs[p] \in Procs
    BY <1>2, <1>3 DEF ProcsInv, AskInv, AskedOnce
  <2>2. QED
    BY <1>1, <2>1 DEF Procs, Ops
<1>7. \A i \in Positions : queue[i].type = "ATTR_OP" => queue[i].owner # e
    BY <1>1 DEF ProcsInv, AnswerInv, Ops
<1>8. AskInv'
  <2> SUFFICES ASSUME NEW k \in Handles, link'[k] # NoLink PROVE AskedOnce(k)'
    BY DEF AskInv
  <2>1. CASE k = h
    <3>1. \A p \in 1 .. Len(link'[h].procs) : link'[h].procs[p].kind # "DISC" => p = n
        BY <1>5, <1>6
    <3>2. pendingOp'[e] = op
        BY <1>1
    <3>3. QED
        BY <1>1, <1>2, <1>3, <1>4, <1>5, <1>7, <2>1, <3>1, <3>2 DEF AskedOnce, Positions
  <2>2. CASE k # h
    <3>1. /\ link'[k] = link[k] /\ link[k] # NoLink /\ AskedOnce(k)
          /\ link[k].owner \in Engines /\ link[k].owner # e /\ link[k].procs \in Seq(Procs)
        BY <1>1, <1>2, <1>3, <2>2 DEF KnownLink, Owns, LinkTypeOK, Links, ProcsInv, AskInv
    <3>2. pendingOp'[link[k].owner] = pendingOp[link[k].owner]
        BY <1>1, <3>1
    <3>3. QED
        BY <1>1, <3>1, <3>2 DEF AskedOnce, Positions
  <2>3. QED
    BY <2>1, <2>2
<1>9. AnswerInv'
  <2> SUFFICES ASSUME NEW i \in Positions, queue[i].type = "ATTR_OP"
               PROVE  /\ queue[i].op \in Ops /\ pendingOp'[queue[i].owner] = queue[i].op
                      /\ state[queue[i].owner] # "DISCOVERING"
                      /\ \A j \in Positions :
                            queue[j].type = "ATTR_OP" /\ queue[j].owner = queue[i].owner => j = i
    BY <1>1 DEF AnswerInv, Positions
  <2>1. queue[i].owner \in Engines /\ queue[i].owner # e
    BY <1>1, <1>7, EventTypes
  <2>2. QED
    BY <1>1, <2>1 DEF ProcsInv, AnswerInv
<1>10. SearchInv'
  <2>1. \A k \in Handles : (Up(k)' => Up(k)) /\ (Seeks(k) => Seeks(k)')
    BY <1>2, <1>5 DEF Up, Seeks
  <2>2. QED
    BY <1>1, <2>1 DEF ProcsInv, SearchInv, Positions
<1>11. QED
    BY <1>8, <1>9, <1>10 DEF ProcsInv

\* An event is handled: an operation is forgotten only with its answer or its link, and
\* a machine that begins to wait for a discovery has its listener called.
LEMMA ProcsPop ==
    ASSUME SessionsInv, ProcsInv, Pop
    PROVE  ProcsInv'
<1> DEFINE ev == Head(queue)
           e == ev.owner
<1>1. /\ Inv /\ Base /\ LifeInv /\ LinkTypeOK /\ queue \in Seq(Events)
      /\ queue # <<>> /\ queue' = Tail(queue)
      /\ state \in [Engines -> ConnStates]
      /\ connHandle \in [Engines -> Handles \cup {NoHandle}] /\ NoHandle \notin Handles
    BY PopKinds, HostAssumption
       DEF SessionsInv, Base, Inv, TypeOK, HostTypeOK, QueueTypeOK
<1>2. /\ ev \in Events /\ e \in Engines /\ Handled(e, ev.type) /\ cb = NoCall
      /\ \A d \in Engines : d # e => state'[d] = state[d] /\ pendingOp'[d] = pendingOp[d]
    BY <1>1, PopMoves DEF Events
<1>3. connHandle' = CASE ev.type = "CONNECT_OK" -> [connHandle EXCEPT ![e] = ev.handle]
                      [] ev.type \in {"CONNECT_FAIL", "DISCONNECT"} ->
                            [connHandle EXCEPT ![e] = NoHandle]
                      [] OTHER -> connHandle
    BY <1>1, PopKinds
<1>4. /\ ev = queue[1] /\ 1 \in Positions
      /\ ev.type \in Results => connHandle[e] = NoHandle
      /\ ev.type \notin Results => connHandle[e] # NoHandle
      /\ ev.type = "DISCONNECT" =>
            /\ \A i \in Positions : queue[i].owner = e => i = 1
            /\ \A h \in Handles : ~Owns(e, h)
    BY <1>1, HeadFinds
<1>5. \A i \in Positions' : i + 1 \in Positions /\ i + 1 # 1 /\ queue'[i] = queue[i + 1]
    BY <1>1, Popped DEF Positions
<1>6. \A i \in Positions : i # 1 => i - 1 \in Positions' /\ queue'[i - 1] = queue[i]
    BY <1>1, Popped DEF Positions
<1>7. \A i \in Positions : queue[i].owner \in Engines
    BY <1>1, EventTypes
<1> HIDE DEF ev, e
<1>8. \/ UNCHANGED link
      \/ ev.type = "DISC_DONE" /\ CanRun(connHandle[e]) /\ RunProc(connHandle[e], "DISC", e)
      \/ ev.type = "DISC_DONE" /\ connHandle[e] \in Handles /\ Terminate(connHandle[e])
    BY <1>1, <1>2, <1>4 DEF Handled, Events, Results
<1>9. /\ \A k \in Handles :
            /\ Up(k)' => Up(k)
            /\ Seeks(k) => Seeks(k)'
            /\ link'[k] # NoLink =>
                  /\ link[k] # NoLink /\ link'[k].owner = link[k].owner
                  /\ \/ link'[k].procs = link[k].procs
                     \/ link'[k].procs = Append(link[k].procs, [kind |-> "DISC", owner |-> e])
      /\ UNCHANGED link \/ ev.type = "DISC_DONE"
  <2>1. CASE UNCHANGED link
    BY <2>1 DEF Up, Seeks
  <2>2. CASE ev.type = "DISC_DONE" /\ CanRun(connHandle[e]) /\ RunProc(connHandle[e], "DISC", e)
    BY <1>2, <2>2, DiscoveryBegun
  <2>3. CASE ev.type = "DISC_DONE" /\ connHandle[e] \in Handles /\ Terminate(connHandle[e])
    BY <1>1, <2>3, TerminateDowns DEF Seeks
  <2>4. QED
    BY <1>8, <2>1, <2>2, <2>3
<1>10. /\ ev.type \in {"DISC_DONE", "OTHER"} => pendingOp'[e] = pendingOp[e]
       /\ state'[e] = "DISCOVERING" /\ state[e] # "DISCOVERING" => ev.type = "CONNECT_OK"
  <2>1. \A t : After(state[e], t) = "DISCOVERING" =>
           state[e] = "DISCOVERING" \/ t = "GAP_CONNECT_OK"
    BY <1>1, <1>2, Driving
  <2>2. CASE ev.type = "CONNECT_OK"
    BY <2>2
  <2>3. CASE ev.type = "CONNECT_FAIL"
    BY <1>2, <2>1, <2>3 DEF Handled, Told
  <2>4. CASE ev.type = "DISCONNECT"
    BY <1>2, <2>1, <2>4 DEF Handled, Told
  <2>5. CASE ev.type = "DISC_DONE"
    BY <1>2, <2>1, <2>5 DEF Handled, Told
  <2>6. CASE ev.type \in {"ATTR_OP", "OTHER"}
    BY <1>2, <2>6 DEF Handled
  <2>7. QED
    BY <1>2, <2>2, <2>3, <2>4, <2>5, <2>6 DEF Events
<1>11. \A i \in Positions : queue[i].owner = e /\ queue[i].type = "ATTR_OP" /\ i # 1 =>
          ev.type \in {"DISC_DONE", "OTHER"}
  <2> SUFFICES ASSUME NEW i \in Positions, queue[i].owner = e, queue[i].type = "ATTR_OP", i # 1
               PROVE  ev.type \in {"DISC_DONE", "OTHER"}
    OBVIOUS
  <2>1. connHandle[e] # NoHandle
    BY <1>2, NothingAsked DEF SessionsInv
  <2>2. ev.type # "ATTR_OP"
    BY <1>4 DEF ProcsInv, AnswerInv, e
  <2>3. QED
    BY <1>2, <1>4, <2>1, <2>2 DEF Events, Results
<1>12. \A k \in Handles : link[k] # NoLink /\ link[k].owner = e /\ (\E p \in 1 .. Len(link[k].procs) : link[k].procs[p].kind # "DISC") =>
          ev.type \in {"DISC_DONE", "OTHER"}
  <2> SUFFICES ASSUME NEW k \in Handles, Owns(e, k), NEW p \in 1 .. Len(link[k].procs),
                      link[k].procs[p].kind # "DISC"
               PROVE  ev.type \in {"DISC_DONE", "OTHER"}
    BY DEF Owns
  <2>1. link[k].procs # <<>>
    OBVIOUS
  <2>2. connHandle[e] # NoHandle
    BY <1>2, <2>1, NothingAsked
  <2>3. ev.type # "ATTR_OP"
    BY <1>4 DEF ProcsInv, AskInv, AskedOnce, Owns, e
  <2>4. QED
    BY <1>2, <1>4, <2>2, <2>3 DEF Events, Results
<1>13. AskInv'
  <2> SUFFICES ASSUME NEW k \in Handles, link'[k] # NoLink PROVE AskedOnce(k)'
    BY DEF AskInv
  <2>1. /\ AskedOnce(k) /\ link[k] # NoLink /\ link'[k].owner = link[k].owner
        /\ link[k].procs \in Seq(Procs) /\ link[k].owner \in Engines
        /\ \/ link'[k].procs = link[k].procs
           \/ link'[k].procs = Append(link[k].procs, [kind |-> "DISC", owner |-> e])
    BY <1>1, <1>9 DEF ProcsInv, AskInv, LinkTypeOK, Links
  <2>2. ASSUME NEW p \in 1 .. Len(link[k].procs), link[k].procs[p].kind # "DISC"
        PROVE  /\ pendingOp'[link[k].owner] = pendingOp[link[k].owner]
               /\ state'[link[k].owner] = "DISCOVERING" => state[link[k].owner] = "DISCOVERING"
               /\ \A i \in Positions' : queue'[i].owner = link[k].owner => queue'[i].type # "ATTR_OP"
    <3>1. link[k].owner = e => ev.type \in {"DISC_DONE", "OTHER"}
        BY <1>12, <2>1, <2>2
    <3>2. \A i \in Positions : queue[i].owner = link[k].owner => queue[i].type # "ATTR_OP"
        BY <2>1, <2>2 DEF AskedOnce
    <3>3. QED
        BY <1>2, <1>5, <1>10, <2>1, <3>1, <3>2
  <2>3. (\E p \in 1 .. Len(link[k].procs) : link[k].procs[p].kind # "DISC")
         \/ ~(\E p \in 1 .. Len(link'[k].procs) : link'[k].procs[p].kind # "DISC")
    <3>1. CASE link'[k].procs = link[k].procs
        BY <3>1
    <3>2. CASE link'[k].procs = Append(link[k].procs, [kind |-> "DISC", owner |-> e])
        BY <2>1, <3>2
    <3>3. QED
        BY <2>1, <3>1, <3>2
  <2>4. QED
    BY <1>2, <2>1, <2>2, <2>3, AskedStill
<1>14. AnswerInv'
  <2> SUFFICES ASSUME NEW i \in Positions', queue'[i].type = "ATTR_OP"
               PROVE  /\ queue'[i].op \in Ops /\ pendingOp'[queue'[i].owner] = queue'[i].op
                      /\ state'[queue'[i].owner] # "DISCOVERING"
                      /\ \A j \in Positions' :
                            queue'[j].type = "ATTR_OP" /\ queue'[j].owner = queue'[i].owner => j = i
    BY DEF AnswerInv
  <2>1. /\ i + 1 \in Positions /\ i + 1 # 1 /\ queue'[i] = queue[i + 1] /\ i \in Int
        /\ queue[i + 1].owner \in Engines
    BY <1>5, <1>7 DEF Positions
  <2>2. /\ queue[i + 1].op \in Ops /\ pendingOp[queue[i + 1].owner] = queue[i + 1].op
        /\ state[queue[i + 1].owner] # "DISCOVERING"
        /\ \A j \in Positions :
              queue[j].type = "ATTR_OP" /\ queue[j].owner = queue[i + 1].owner => j = i + 1
    BY <2>1 DEF ProcsInv, AnswerInv
  <2>3. queue[i + 1].owner = e => ev.type \in {"DISC_DONE", "OTHER"}
    BY <1>11, <2>1
  <2>4. \A j \in Positions' :
           queue'[j].type = "ATTR_OP" /\ queue'[j].owner = queue'[i].owner => j = i
    <3>1. \A j \in Positions' : j \in Int
        BY DEF Positions
    <3>2. QED
        BY <1>5, <2>1, <2>2, <3>1
  <2>5. QED
    BY <1>2, <1>10, <2>1, <2>2, <2>3, <2>4
<1>15. SearchInv'
  <2> SUFFICES ASSUME NEW d \in Engines, NEW k \in Handles, state'[d] = "DISCOVERING",
                      connHandle'[d] = k, Up(k)', ~(cb' # NoCall /\ cb'.to = d /\ cb'.kind = "up")
               PROVE  \/ Seeks(k)'
                      \/ \E i \in Positions' : queue'[i].owner = d /\ queue'[i].type = "DISC_DONE"
    BY DEF SearchInv
  <2>1. ASSUME state[d] = "DISCOVERING", connHandle[d] = k, d # e \/ ev.type # "DISC_DONE"
        PROVE  \/ Seeks(k)'
               \/ \E i \in Positions' : queue'[i].owner = d /\ queue'[i].type = "DISC_DONE"
    <3>1. Seeks(k) \/ \E i \in Positions : queue[i].owner = d /\ queue[i].type = "DISC_DONE"
        BY <1>2, <1>9, <2>1 DEF ProcsInv, SearchInv
    <3>2. \A i \in Positions : queue[i].owner = d /\ queue[i].type = "DISC_DONE" => i # 1
        BY <1>4, <2>1 DEF e
    <3>3. QED
        BY <1>6, <1>9, <3>1, <3>2
  <2>2. CASE d # e
    BY <1>1, <1>2, <1>3, <2>1, <2>2
  <2>3. CASE d = e /\ ev.type \in {"ATTR_OP", "OTHER"}
    BY <1>3, <1>10, <2>1, <2>3
  <2>4. CASE d = e /\ ev.type \in {"CONNECT_FAIL", "DISCONNECT"}
    BY <1>1, <1>2, <1>3, <2>4
  <2>5. CASE d = e /\ ev.type = "CONNECT_OK"
    <3>1. ~reported[e]
        BY <1>2, <1>4, <2>5 DEF SessionsInv, SessionInv, e
    <3>2. cb' = [to |-> e, kind |-> "up"] /\ cb' \in Callbacks
        BY <1>2, <2>5, <3>1 DEF Handled, Told, Callbacks
    <3>3. QED
        BY <2>5, <3>2, EngineAssumption DEF Callbacks
  <2>6. CASE d = e /\ ev.type = "DISC_DONE"
    <3>1. connHandle[e] = k /\ state[e] \in ConnStates
        BY <1>1, <1>2, <1>3, <2>6
    <3>2. /\ After(state[e], "DISCOVER_TIMEOUT") # "DISCOVERING"
          /\ After(state[e], "DISCOVER_DONE") # "DISCOVERING"
        BY <3>1 DEF After, Accepts, Target, ConnStates
    <3>3. CanRun(k) /\ RunProc(k, "DISC", e)
        BY <1>2, <2>6, <3>1, <3>2 DEF Handled, Told
    <3>4. QED
        BY <1>2, <3>1, <3>3, DiscoveryBegun
  <2>7. QED
    BY <1>2, <2>2, <2>3, <2>4, <2>5, <2>6 DEF Events
<1>16. QED
    BY <1>13, <1>14, <1>15 DEF ProcsInv

LEMMA ProcsNext ==
    ASSUME Orderly, "cached" \notin Allowed, SessionsInv, ProcsInv, [Next]_vars
    PROVE  ProcsInv'
<1>1. /\ LinkTypeOK /\ queue \in Seq(Events) /\ state \in [Engines -> ConnStates]
      /\ "DISC" \notin Ops
    BY DEF SessionsInv, Base, Inv, TypeOK, HostTypeOK, QueueTypeOK, Ops
<1>2. CASE HostStep /\ UNCHANGED <<engineVars, main, cb, session, target>>
    BY <1>2, ProcsHost DEF engineVars
<1>3. ASSUME NEW e \in Engines, NEW p \in Peers, NEW s \in ConnStates, ConnectFrom(e, p, s),
             s \in {state[e], After(state[e], "BACKOFF_ELAPSED")}
      PROVE  ProcsInv'
  <2>1. /\ connHandle[e] = NoHandle /\ UNCHANGED <<queue, link, connHandle, pendingOp, cb>>
        /\ state' = [state EXCEPT ![e] = After(s, "CONNECT_REQUEST")]
    BY <1>3 DEF ConnectFrom, MayConnect
  <2>2. state[e] # "DISCOVERING"
    BY <2>1 DEF SessionsInv, Base, AttemptsInv, DrivenInv, Driven
  <2>3. After(s, "CONNECT_REQUEST") # "DISCOVERING"
    BY <1>1, <1>3, <2>2, Driving
  <2>4. QED
    BY <1>1, <2>1, <2>3, ProcsStay
<1>4. CASE Rests
  <2>1. \A d \in Engines : state'[d] = "DISCOVERING" => state[d] = "DISCOVERING"
    BY <1>1, <1>4, Driving DEF Rests
  <2>2. cb' = cb \/ (cb # NoCall => cb.kind # "up")
    BY <1>4 DEF Rests
  <2>3. QED
    BY <1>1, <1>4, <2>1, <2>2, ProcsStay DEF Rests
<1>5. ASSUME NEW e \in Engines, NEW k \in Ops \cup {"DISC"}, Begins(e, k) PROVE ProcsInv'
  <2>1. CASE k = "DISC"
    BY <1>1, <1>5, <2>1, ProcsDiscover DEF Begins
  <2>2. CASE k # "DISC"
    BY <1>5, <2>2, ProcsAsk
  <2>3. QED
    BY <2>1, <2>2
<1>6. QED
    BY <1>2, <1>3, <1>4, <1>5, Deeds, ProcsPop, ProcsLetGo

LEMMA ProcsHold ==
    ASSUME Orderly, "cached" \notin Allowed
    PROVE  Spec => []ProcsInv
<1>1. Init => ProcsInv
  <2>1. Init => Positions = {} /\ \A h \in Handles : link[h] = NoLink
    BY DEF Init, HostInit, Positions
  <2>2. QED
    BY <2>1 DEF ProcsInv, AskInv, AnswerInv, SearchInv, Up
<1>2. SessionsInv /\ ProcsInv /\ [Next]_vars => ProcsInv'
    BY ProcsNext
<1>3. QED
    BY <1>1, <1>2, SessionsHold, PTL DEF Spec

\* An answer is delivered as the answer to the operation it answers (pending_op_ in
\* nimble_gattc.cpp): one is running at a time, and nothing but its own answer or the
\* end of its link clears it.
THEOREM AnswersAreMatched ==
    ASSUME Orderly, "cached" \notin Allowed
    PROVE  Spec => AnswersMatch
<1>1. SessionsInv /\ ProcsInv /\ [Next]_vars
      => [Pop /\ Head(queue).type = "ATTR_OP"
           => pendingOp[Head(queue).owner] = Head(queue).op]_vars
  <2> SUFFICES ASSUME SessionsInv, ProcsInv, Pop, Head(queue).type = "ATTR_OP"
               PROVE  pendingOp[Head(queue).owner] = Head(queue).op
    OBVIOUS
  <2>1. Head(queue) = queue[1] /\ 1 \in Positions
    BY HeadFinds DEF Pop, SessionsInv
  <2>2. QED
    BY <2>1 DEF ProcsInv, AnswerInv
<1>2. QED
    BY <1>1, SessionsHold, ProcsHold, PTL DEF Spec, AnswersMatch

\* A discovery deadline only ever ends a connection whose discovery is running, or whose
\* link is over (poll_timeout and finish_discovery_ in nimble_gattc.cpp).
THEOREM TimeoutsEndDiscoveries ==
    ASSUME Orderly, "cached" \notin Allowed
    PROVE  Spec => OnlyDiscoveryTimesOut
<1> DEFINE Excused(e) ==
              \/ link[connHandle[e]] # NoLink => link[connHandle[e]].phase # "up"
              \/ \E p \in DOMAIN link[connHandle[e]].procs :
                    link[connHandle[e]].procs[p].kind = "DISC"
              \/ QueuedFor(e, {"DISC_DONE"})
<1>1. SessionsInv /\ ProcsInv /\ [Next]_vars
      => [\A e \in Engines : PollFires(e) /\ state[e] = "DISCOVERING" => Excused(e)]_vars
  <2> SUFFICES ASSUME SessionsInv, ProcsInv, NEW e \in Engines, PollFires(e),
                      state[e] = "DISCOVERING"
               PROVE  Excused(e)
    OBVIOUS
  <2>1. cb = NoCall
    BY DEF PollFires, SessionsInv, CallInv
  <2>2. connHandle[e] \in Handles
    BY DEF SessionsInv, Base, Inv, TypeOK, AttemptsInv, DrivenInv, Driven
  <2> DEFINE h == connHandle[e]
  <2>3. ~Up(h) \/ Seeks(h) \/ \E i \in Positions : queue[i].owner = e /\ queue[i].type = "DISC_DONE"
    BY <2>1, <2>2 DEF ProcsInv, SearchInv
  <2>4. ASSUME Up(h), Seeks(h) PROVE Excused(e)
    <3>1. link[h].procs \in Seq(Procs)
        BY <2>2, <2>4 DEF Up, SessionsInv, Base, Inv, TypeOK, HostTypeOK, LinkTypeOK, Links
    <3>2. DOMAIN link[h].procs = 1 .. Len(link[h].procs)
        BY <3>1
    <3>3. QED
        BY <2>4, <3>2 DEF Seeks
  <2>5. QED
    BY <2>3, <2>4 DEF Up, QueuedFor, Positions
<1>2. QED
    BY <1>1, SessionsHold, ProcsHold, PTL DEF Spec, OnlyDiscoveryTimesOut
=============================================================================
