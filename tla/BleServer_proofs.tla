--------------------------- MODULE BleServer_proofs ---------------------------
(***************************************************************************)
(* Proofs about BleServer, for any handles, attributes, values and         *)
(* capacities.  The links and the advertising first; then what the main    *)
(* loop knows of them, which is the host's picture less the events that    *)
(* are still in the queue.                                                 *)
(***************************************************************************)
EXTENDS BleServer, SequenceTheorems, FunctionTheorems, FiniteSetTheorems, TLAPS

Kinds == {"no", "notify", "indicate"}
Listeners == {"server", "nobody", "off"}

-----------------------------------------------------------------------------
(* Links and advertising.                                                  *)

NoServerLink == \A h \in Handles : link[h] # "server"

LinkTypes ==
    /\ link \in [Handles -> Listeners]
    /\ advertised \in Listeners
    /\ subscribed \in [Handles -> [Characteristics -> Kinds]]

\* The server has one link at most, and none while a central can find it.
Alone ==
    /\ \A g, h \in Handles : link[g] = "server" /\ link[h] = "server" => g = h
    /\ advertised = "server" => NoServerLink
    /\ booted # "server" => advertised # "server" /\ NoServerLink

\* Only the links of the server have subscriptions.
Unsubscribed == \A h \in Handles : link[h] # "server" => subscribed[h] = Nothing

IsFound == booted = "server" /\ started /\ ~silenced /\ NoServerLink => advertised = "server"

LinkInv == LinkTypes /\ Alone /\ Unsubscribed /\ IsFound

LEMMA NothingIs == Nothing \in [Characteristics -> Kinds] /\ \A c \in Characteristics : Nothing[c] = "no"
BY DEF Nothing, Kinds

LEMMA InitLink == ASSUME Init PROVE LinkInv
<1>1. LinkTypes
    BY NothingIs DEF Init, LinkTypes, Listeners
<1>2. QED
    BY <1>1 DEF Init, LinkInv, Alone, Unsubscribed, IsFound, NoServerLink

\* Steps that leave links and subscriptions alone.
LEMMA BootLink ==
    ASSUME LinkInv, Boot
    PROVE  LinkInv'
<1>1. UNCHANGED <<link, subscribed>>
    BY DEF Boot, SetupBle, SetupServer, EnableAction, DisableAction
<1>2. NoServerLink' = NoServerLink
    BY <1>1 DEF NoServerLink
<1>3. CASE SetupBle \/ EnableAction
  <2>1. UNCHANGED started
    BY <1>3 DEF SetupBle, EnableAction
  <2>2. \/ advertised' = advertised /\ (silenced' = silenced \/ silenced')
        \/ advertised = "off" /\ advertised' = "nobody" /\ silenced' = silenced
    BY <1>3 DEF SetupBle, EnableAction, Enable, StartAdvertising
  <2>3. booted' = booted \/ (booted # "server" /\ booted' # "server")
    BY <1>3 DEF SetupBle, EnableAction
  <2>4. LinkTypes'
    BY <1>1, <2>2 DEF LinkInv, LinkTypes, Listeners
  <2>5. Alone' /\ Unsubscribed'
    BY <1>1, <1>2, <2>2, <2>3 DEF LinkInv, Alone, Unsubscribed
  <2>6. IsFound'
    BY <1>2, <2>1, <2>2, <2>3 DEF LinkInv, IsFound
  <2>7. QED
    BY <2>4, <2>5, <2>6 DEF LinkInv
<1>4. CASE SetupServer
  <2>1. booted # "server" /\ booted' = "server"
    BY <1>4 DEF SetupServer
  <2>2. \/ advertised' = "server"
        \/ advertised' = advertised /\ silenced'
        \/ advertised' = advertised /\ ~started'
    BY <1>4 DEF SetupServer, StartAdvertising
  <2>3. NoServerLink
    BY <2>1 DEF LinkInv, Alone
  <2>4. LinkTypes'
    BY <1>1, <2>2 DEF LinkInv, LinkTypes, Listeners
  <2>5. Alone' /\ Unsubscribed' /\ IsFound'
    BY <1>1, <1>2, <2>1, <2>2, <2>3 DEF LinkInv, Alone, Unsubscribed, IsFound, NoServerLink
  <2>6. QED
    BY <2>4, <2>5 DEF LinkInv
<1>5. CASE DisableAction
  <2>1. advertised' \in {"off", advertised} /\ silenced' /\ UNCHANGED booted
    BY <1>5 DEF DisableAction, StopAdvertising
  <2>2. LinkTypes'
    BY <1>1, <2>1 DEF LinkInv, LinkTypes, Listeners
  <2>3. Alone' /\ Unsubscribed' /\ IsFound'
    BY <1>1, <1>2, <2>1 DEF LinkInv, Alone, Unsubscribed, IsFound
  <2>4. QED
    BY <2>2, <2>3 DEF LinkInv
<1>6. QED
    BY <1>3, <1>4, <1>5 DEF Boot

LEMMA FormsLink ==
    ASSUME LinkInv, NEW h \in Handles, LinkForms(h)
    PROVE  LinkInv'
<1>1. /\ advertised # "off" /\ link[h] = "off" /\ link' = [link EXCEPT ![h] = advertised]
      /\ advertised' = "off" /\ UNCHANGED <<booted, started, subscribed, silenced>>
    BY DEF LinkForms, bleVars
<1>2. /\ link' \in [Handles -> Listeners]
      /\ \A g \in Handles : link'[g] = IF g = h THEN advertised ELSE link[g]
    BY <1>1 DEF LinkInv, LinkTypes
<1>3. LinkTypes'
    BY <1>1, <1>2 DEF LinkInv, LinkTypes, Listeners
<1>4. Alone'
    BY <1>1, <1>2 DEF LinkInv, Alone, NoServerLink
<1>5. Unsubscribed'
    BY <1>1, <1>2 DEF LinkInv, Unsubscribed
<1>6. IsFound'
    BY <1>1, <1>2 DEF LinkInv, IsFound, NoServerLink
<1>7. QED
    BY <1>3, <1>4, <1>5, <1>6 DEF LinkInv

LEMMA EndsLink ==
    ASSUME LinkInv, NEW h \in Handles, LinkEnds(h)
    PROVE  LinkInv'
<1>1. /\ link[h] # "off" /\ link' = [link EXCEPT ![h] = "off"]
      /\ subscribed' = [subscribed EXCEPT ![h] = Nothing]
      /\ UNCHANGED <<booted, started>>
    BY DEF LinkEnds
<1>2. /\ link' \in [Handles -> Listeners]
      /\ \A g \in Handles : link'[g] = IF g = h THEN "off" ELSE link[g]
    BY <1>1 DEF LinkInv, LinkTypes, Listeners
<1>3. /\ subscribed' \in [Handles -> [Characteristics -> Kinds]]
      /\ \A g \in Handles : subscribed'[g] = IF g = h THEN Nothing ELSE subscribed[g]
    BY <1>1, NothingIs DEF LinkInv, LinkTypes
<1>4. \/ link[h] = "server" /\ \/ advertised = "off" /\ advertised' = "server" /\ UNCHANGED silenced
                               \/ advertised' = advertised /\ silenced'
      \/ link[h] # "server" /\ advertised' = advertised /\ silenced' = silenced
    BY DEF LinkEnds, StartAdvertising
<1>5. LinkTypes'
    BY <1>2, <1>3, <1>4 DEF LinkInv, LinkTypes, Listeners
<1>6. Alone'
  <2>1. CASE link[h] = "server"
    <3>1. \A g \in Handles : link'[g] # "server"
        BY <1>2, <2>1 DEF LinkInv, Alone
    <3>2. booted = "server"
        BY <2>1 DEF LinkInv, Alone, NoServerLink
    <3>3. QED
        BY <1>1, <3>1, <3>2 DEF Alone, NoServerLink
  <2>2. CASE link[h] # "server"
    BY <1>1, <1>2, <1>4, <2>2 DEF LinkInv, Alone, NoServerLink
  <2>3. QED
    BY <2>1, <2>2
<1>7. Unsubscribed'
    BY <1>2, <1>3 DEF LinkInv, Unsubscribed
<1>8. IsFound'
    BY <1>1, <1>2, <1>4 DEF LinkInv, IsFound, NoServerLink, Alone
<1>9. QED
    BY <1>5, <1>6, <1>7, <1>8 DEF LinkInv

LEMMA SubscribesLink ==
    ASSUME LinkInv, NEW h \in Handles, NEW c \in Characteristics, NEW kind \in Kinds, Subscribe(h, c, kind)
    PROVE  LinkInv'
<1>1. /\ link[h] = "server" /\ subscribed' = [subscribed EXCEPT ![h][c] = kind]
      /\ UNCHANGED <<booted, started, link, advertised, silenced>>
    BY DEF Subscribe, bleVars
<1>2. /\ subscribed' \in [Handles -> [Characteristics -> Kinds]]
      /\ \A g \in Handles : g # h => subscribed'[g] = subscribed[g]
    BY <1>1 DEF LinkInv, LinkTypes
<1>3. QED
    BY <1>1, <1>2 DEF LinkInv, LinkTypes, Alone, Unsubscribed, IsFound, NoServerLink

LEMMA LinkStep ==
    ASSUME LinkInv, [Next]_vars
    PROVE  LinkInv'
<1>1. CASE Boot
    BY <1>1, BootLink
<1>2. ASSUME NEW h \in Handles, Gap(h) PROVE LinkInv'
    BY <1>2, FormsLink, EndsLink, SubscribesLink DEF Gap, Kinds
<1>3. CASE LinkFails
  <2>1. /\ UNCHANGED <<booted, started, link, subscribed>>
        /\ \/ advertised = "server" /\ (advertised' = "server" \/ (advertised' = "off" /\ silenced'))
           \/ advertised # "server" /\ advertised' = "off" /\ UNCHANGED silenced
    BY <1>3 DEF LinkFails, StartAdvertising
  <2>2. QED
    BY <2>1 DEF LinkInv, LinkTypes, Listeners, Alone, Unsubscribed, IsFound, NoServerLink
<1>4. CASE HostReset
  <2>1. /\ link' = [h \in Handles |-> "off"] /\ subscribed' = [h \in Handles |-> Nothing]
        /\ advertised' = "off" /\ silenced' = TRUE
    BY <1>4 DEF HostReset
  <2>2. QED
    BY <2>1, NothingIs DEF LinkInv, LinkTypes, Listeners, Alone, Unsubscribed, IsFound, NoServerLink
<1>5. CASE \/ HostSynced \/ QueueWrite \/ HandleEvent \/ UNCHANGED vars
           \/ (\E h \in Handles : Access(h))
           \/ (\E a \in Attributes : \E data \in Values : SetValue(a, data))
  <2>1. UNCHANGED <<booted, started, link, subscribed, advertised, silenced>>
    BY <1>5 DEF HostSynced, QueueWrite, HandleEvent, Access, Write, SetValue, vars, bleVars, hostVars
  <2>2. QED
    BY <2>1 DEF LinkInv, LinkTypes, Alone, Unsubscribed, IsFound, NoServerLink
<1>6. QED
    BY <1>1, <1>2, <1>3, <1>4, <1>5 DEF Next, Host, MainLoop

LEMMA LinkHolds == Spec => []LinkInv
BY InitLink, LinkStep, PTL DEF Spec

\* ServerIsFound: a server whose advertising was never refused or stopped is advertised
\* exactly when it has no link, and has one link at most (the gap event handler,
\* ble_server.cpp, restarts what ble_gap_adv_start() ended).
THEOREM ServerStaysFound == Spec => []ServerIsFound
<1>1. ASSUME LinkInv PROVE ServerIsFound
  <2>1. ServerLinks = {} <=> NoServerLink
    BY DEF ServerLinks, NoServerLink
  <2>2. ServerLinks = {} \/ \E h \in Handles : ServerLinks = {h}
    BY <1>1 DEF LinkInv, Alone, ServerLinks
  <2>3. Cardinality(ServerLinks) \in {0, 1}
    BY <2>2, FS_EmptySet, FS_Singleton
  <2>4. Cardinality(ServerLinks) <= 1
    BY <2>3
  <2>5. QED
    BY <1>1, <2>1, <2>4 DEF LinkInv, Alone, IsFound, ServerIsFound
<1>2. QED
    BY <1>1, LinkHolds, PTL

-----------------------------------------------------------------------------
(* What the main loop knows, and what it is still to learn: the events in  *)
(* the queue lead from the one picture to the other.                       *)

GapEvents == [type : {"connect", "disconnect"}, handle : Handles]
Subscriptions == [type : {"subscribe"}, handle : Handles, target : Characteristics, kind : Kinds]
Events == GapEvents \cup Subscriptions \cup Writes

\* A picture: who is connected, who has subscribed to what, and the writes that are
\* to be reported.
Picture(c, s, r) == [clients |-> c, subs |-> s, reports |-> r]

Pictures == [clients : SUBSET Handles, subs : [Handles -> [Characteristics -> Kinds]], reports : Seq(Writes)]

Follows(x, e, y) ==
    \/ e.type = "connect" /\ x.clients = {} /\ y = Picture({e.handle}, x.subs, x.reports)
    \/ e.type = "disconnect" /\ x.clients = {e.handle} /\ y = Picture({}, x.subs, x.reports)
    \/ e.type = "subscribe"
          /\ y = Picture(x.clients, [x.subs EXCEPT ![e.handle][e.target] = e.kind], x.reports)
    \/ e.type = "write" /\ x.reports # <<>> /\ Head(x.reports) = e
          /\ y = Picture(x.clients, x.subs, Tail(x.reports))

Replays(q, x, y) ==
    \E p \in [0 .. Len(q) -> Pictures] :
        p[0] = x /\ p[Len(q)] = y /\ \A i \in 1 .. Len(q) : Follows(p[i - 1], q[i], p[i])

LEMMA PictureIs ==
    /\ \A c, s, r : Picture(c, s, r).clients = c /\ Picture(c, s, r).subs = s /\ Picture(c, s, r).reports = r
    /\ \A c \in SUBSET Handles, s \in [Handles -> [Characteristics -> Kinds]], r \in Seq(Writes) :
          Picture(c, s, r) \in Pictures
    /\ \A x \in Pictures :
          /\ x = Picture(x.clients, x.subs, x.reports)
          /\ x.clients \in SUBSET Handles /\ x.subs \in [Handles -> [Characteristics -> Kinds]]
          /\ x.reports \in Seq(Writes)
BY DEF Picture, Pictures

LEMMA ReplaysNothing ==
    ASSUME NEW x \in Pictures
    PROVE  Replays(<<>>, x, x)
<1> DEFINE p == [i \in 0 .. 0 |-> x]
<1>1. p \in [0 .. Len(<<>>) -> Pictures] /\ p[0] = x /\ p[Len(<<>>)] = x
    OBVIOUS
<1> HIDE DEF p
<1>2. QED
    BY <1>1 DEF Replays

LEMMA ReplaysOne ==
    ASSUME NEW x \in Pictures, NEW y \in Pictures, NEW e, Follows(x, e, y)
    PROVE  Replays(<<e>>, x, y)
<1> DEFINE p == [i \in 0 .. 1 |-> IF i = 0 THEN x ELSE y]
<1>1. Len(<<e>>) = 1 /\ <<e>>[1] = e /\ p \in [0 .. 1 -> Pictures] /\ p[0] = x /\ p[1] = y
    OBVIOUS
<1> HIDE DEF p
<1>2. \A i \in 1 .. 1 : i - 1 = 0 /\ i = 1
    OBVIOUS
<1>3. \A i \in 1 .. 1 : Follows(p[i - 1], <<e>>[i], p[i])
    BY <1>1, <1>2
<1>4. QED
    BY <1>1, <1>3 DEF Replays

LEMMA ReplaysOn ==
    ASSUME NEW S, NEW q \in Seq(S), NEW f \in Seq(S), NEW x, NEW y, NEW z,
           Replays(q, x, y), Replays(f, y, z)
    PROVE  Replays(q \o f, x, z)
<1> DEFINE n == Len(q)
           m == Len(f)
<1>1. /\ n \in Nat /\ m \in Nat /\ Len(q \o f) = n + m
      /\ \A i \in 1 .. n + m : (q \o f)[i] = IF i <= n THEN q[i] ELSE f[i - n]
    BY ConcatProperties, LenProperties
<1>2. PICK a \in [0 .. n -> Pictures] :
          a[0] = x /\ a[n] = y /\ \A i \in 1 .. n : Follows(a[i - 1], q[i], a[i])
    BY DEF Replays
<1>3. PICK b \in [0 .. m -> Pictures] :
          b[0] = y /\ b[m] = z /\ \A i \in 1 .. m : Follows(b[i - 1], f[i], b[i])
    BY DEF Replays
<1> HIDE DEF n, m
<1> DEFINE p == [i \in 0 .. n + m |-> IF i <= n THEN a[i] ELSE b[i - n]]
<1>4. \A i \in 0 .. n + m : IF i <= n THEN i \in 0 .. n ELSE i - n \in 1 .. m /\ i - n \in 0 .. m
    BY <1>1
<1>5. p \in [0 .. n + m -> Pictures]
    BY <1>4
<1>6. \A i \in 0 .. n + m : p[i] = IF i <= n THEN a[i] ELSE b[i - n]
    OBVIOUS
<1> HIDE DEF p
<1>7. p[0] = x
  <2>1. 0 \in 0 .. n + m /\ 0 <= n
    BY <1>1
  <2>2. QED
    BY <1>2, <1>6, <2>1
<1>8. p[n + m] = z
  <2>1. n + m \in 0 .. n + m
    BY <1>1
  <2>2. CASE m = 0
    <3>1. n + m = n /\ n + m <= n
        BY <1>1, <2>2
    <3>2. p[n + m] = a[n]
        BY <1>6, <2>1, <3>1
    <3>3. QED
        BY <1>2, <1>3, <2>2, <3>2
  <2>3. CASE m # 0
    <3>1. ~(n + m <= n) /\ n + m - n = m
        BY <1>1, <2>3
    <3>2. PICK k \in 0 .. n + m : k = n + m
        BY <2>1
    <3>3. ~(k <= n)
        BY <3>1, <3>2
    <3>4. p[k] = b[k - n]
        BY <1>6, <3>2, <3>3
    <3>5. k - n = m
        BY <1>1, <3>2
    <3>6. QED
        BY <1>3, <3>2, <3>4, <3>5
  <2>4. QED
    BY <2>2, <2>3
<1>9. ASSUME NEW i \in 1 .. n + m PROVE Follows(p[i - 1], (q \o f)[i], p[i])
  <2>1. i \in 0 .. n + m /\ i - 1 \in 0 .. n + m /\ i \in Int
    BY <1>1, <1>9
  <2>2. CASE i <= n
    <3>1. i \in 1 .. n /\ i - 1 <= n
        BY <1>1, <1>9, <2>2
    <3>2. p[i] = a[i] /\ p[i - 1] = a[i - 1] /\ (q \o f)[i] = q[i]
        BY <1>1, <1>6, <1>9, <2>1, <2>2, <3>1
    <3>3. QED
        BY <1>2, <3>1, <3>2
  <2>3. CASE ~(i <= n)
    <3>1. i - n \in 1 .. m
        BY <1>1, <1>9, <2>3
    <3>2. p[i] = b[i - n] /\ (q \o f)[i] = f[i - n]
        BY <1>1, <1>6, <1>9, <2>1, <2>3
    <3>3. p[i - 1] = b[i - n - 1]
        <4>1. CASE i - 1 <= n
            <5>1. i - 1 = n /\ i - n - 1 = 0
                BY <1>1, <2>1, <2>3, <4>1
            <5>2. p[i - 1] = a[n]
                BY <1>6, <2>1, <4>1, <5>1
            <5>3. QED
                BY <1>2, <1>3, <5>1, <5>2
        <4>2. CASE ~(i - 1 <= n)
            <5>1. i - 1 - n = i - n - 1
                BY <1>1, <2>1
            <5>2. QED
                BY <1>6, <2>1, <4>2, <5>1
        <4>3. QED
            BY <4>1, <4>2
    <3>4. QED
        BY <1>3, <3>1, <3>2, <3>3
  <2>4. QED
    BY <2>2, <2>3
<1>10. QED
    BY <1>1, <1>5, <1>7, <1>8, <1>9 DEF Replays

LEMMA ReplaysNext ==
    ASSUME NEW S, NEW q \in Seq(S), q # <<>>, NEW x, NEW y, Replays(q, x, y)
    PROVE  \E z \in Pictures : x \in Pictures /\ Follows(x, Head(q), z) /\ Replays(Tail(q), z, y)
<1> DEFINE n == Len(q)
<1>1. /\ n \in Nat \ {0} /\ Len(Tail(q)) = n - 1 /\ Head(q) = q[1]
      /\ \A i \in 1 .. n - 1 : Tail(q)[i] = q[i + 1]
  <2>1. Len(q) \in Nat \ {0} /\ Head(q) = q[1]
    BY EmptySeq
  <2>2. QED
    BY <2>1, HeadTailProperties
<1>2. PICK a \in [0 .. n -> Pictures] :
          a[0] = x /\ a[n] = y /\ \A i \in 1 .. n : Follows(a[i - 1], q[i], a[i])
    BY DEF Replays
<1> HIDE DEF n
<1> DEFINE p == [i \in 0 .. n - 1 |-> a[i + 1]]
<1>3. \A i \in 0 .. n - 1 : i + 1 \in 0 .. n /\ i + 1 \in 1 .. n
    BY <1>1
<1>4. p \in [0 .. n - 1 -> Pictures] /\ \A i \in 0 .. n - 1 : p[i] = a[i + 1]
    BY <1>3
<1> HIDE DEF p
<1>5. p[n - 1] = y
  <2>1. n - 1 \in 0 .. n - 1 /\ n - 1 + 1 = n
    BY <1>1
  <2>2. QED
    BY <1>2, <1>4, <2>1
<1>6. p[0] = a[1] /\ p[0] \in Pictures
  <2>1. 0 \in 0 .. n - 1 /\ 0 + 1 = 1
    BY <1>1
  <2>2. QED
    BY <1>4, <2>1
<1>7. Follows(x, Head(q), p[0])
  <2>1. 1 \in 1 .. n /\ 1 - 1 = 0
    BY <1>1
  <2>2. Follows(a[1 - 1], q[1], a[1])
    BY <1>2, <2>1
  <2>3. QED
    BY <1>1, <1>2, <1>6, <2>1, <2>2
<1>8. ASSUME NEW i \in 1 .. n - 1 PROVE Follows(p[i - 1], Tail(q)[i], p[i])
  <2>1. i \in 0 .. n - 1 /\ i - 1 \in 0 .. n - 1 /\ i - 1 + 1 = i /\ i + 1 \in 1 .. n /\ i + 1 - 1 = i
    BY <1>1, <1>8
  <2>2. p[i - 1] = a[i] /\ p[i] = a[i + 1] /\ Tail(q)[i] = q[i + 1]
    BY <1>1, <1>4, <1>8, <2>1
  <2>3. Follows(a[i + 1 - 1], q[i + 1], a[i + 1])
    BY <1>2, <2>1
  <2>4. QED
    BY <2>1, <2>2, <2>3
<1>9. Replays(Tail(q), p[0], y)
    BY <1>1, <1>4, <1>5, <1>8 DEF Replays
<1>10. x \in Pictures
  <2>1. 0 \in 0 .. n
    BY <1>1
  <2>2. QED
    BY <1>2, <2>1
<1>11. QED
    BY <1>6, <1>7, <1>9, <1>10

LEMMA ReplayedNothing ==
    ASSUME NEW x, NEW y, Replays(<<>>, x, y)
    PROVE  x = y
<1>1. Len(<<>>) = 0
    OBVIOUS
<1>2. QED
    BY <1>1 DEF Replays

\* A write is added to what is to be reported, here and there.
More(x, w) == Picture(x.clients, x.subs, Append(x.reports, w))

LEMMA ReplaysMore ==
    ASSUME NEW q, Len(q) \in Nat, NEW x, NEW y, Replays(q, x, y), NEW w \in Writes
    PROVE  Replays(q, More(x, w), More(y, w))
<1> DEFINE n == Len(q)
<1>1. PICK a \in [0 .. n -> Pictures] :
          a[0] = x /\ a[n] = y /\ \A i \in 1 .. n : Follows(a[i - 1], q[i], a[i])
    BY DEF Replays
<1>2. n \in Nat
    OBVIOUS
<1> HIDE DEF n
<1>3. \A i \in 0 .. n : /\ a[i].clients \in SUBSET Handles
                        /\ a[i].subs \in [Handles -> [Characteristics -> Kinds]]
                        /\ a[i].reports \in Seq(Writes)
    BY <1>1, PictureIs
<1> DEFINE p == [i \in 0 .. n |-> More(a[i], w)]
<1>4. \A i \in 0 .. n : p[i] = More(a[i], w) /\ p[i] \in Pictures
  <2>1. ASSUME NEW i \in 0 .. n PROVE More(a[i], w) \in Pictures
    <3>1. Append(a[i].reports, w) \in Seq(Writes)
        BY <1>3, AppendProperties
    <3>2. QED
        BY <1>3, <3>1, PictureIs DEF More
  <2>2. QED
    BY <2>1
<1>5. p \in [0 .. n -> Pictures]
    BY <1>4
<1> HIDE DEF p
<1>6. ASSUME NEW i \in 1 .. n PROVE Follows(p[i - 1], q[i], p[i])
  <2> DEFINE u == a[i - 1]
             v == a[i]
  <2>1. i \in 0 .. n /\ i - 1 \in 0 .. n
    BY <1>2, <1>6
  <2>2. Follows(u, q[i], v) /\ p[i - 1] = More(u, w) /\ p[i] = More(v, w) /\ u.reports \in Seq(Writes)
    BY <1>1, <1>3, <1>4, <2>1
  <2> HIDE DEF u, v
  <2>3. /\ More(u, w).clients = u.clients /\ More(u, w).subs = u.subs
        /\ More(u, w).reports = Append(u.reports, w)
    BY DEF More, Picture
  <2>4. CASE q[i].type = "write" /\ u.reports # <<>> /\ Head(u.reports) = q[i]
             /\ v = Picture(u.clients, u.subs, Tail(u.reports))
    <3>1. /\ Append(u.reports, w) # <<>> /\ Head(Append(u.reports, w)) = Head(u.reports)
          /\ Tail(Append(u.reports, w)) = Append(Tail(u.reports), w)
        BY <2>2, <2>4
    <3>2. More(v, w) = Picture(u.clients, u.subs, Append(Tail(u.reports), w))
        BY <2>4, PictureIs DEF More
    <3>3. QED
        BY <2>2, <2>3, <2>4, <3>1, <3>2 DEF Follows
  <2>5. CASE ~(q[i].type = "write" /\ u.reports # <<>> /\ Head(u.reports) = q[i]
               /\ v = Picture(u.clients, u.subs, Tail(u.reports)))
    <3>1. \A c, s : v = Picture(c, s, u.reports) => More(v, w) = Picture(c, s, Append(u.reports, w))
        BY PictureIs DEF More
    <3>2. QED
        BY <2>2, <2>3, <2>5, <3>1 DEF Follows
  <2>6. QED
    BY <2>4, <2>5
<1>7. 0 \in 0 .. n /\ n \in 0 .. n
    BY <1>2
<1>8. QED
    BY <1>1, <1>4, <1>5, <1>6, <1>7 DEF Replays, n

-----------------------------------------------------------------------------
(* Subscriptions, and the events of a link that ends.                      *)

Subs == [Handles -> [Characteristics -> Kinds]]

LEMMA SameSubs ==
    ASSUME NEW s \in Subs, NEW t \in Subs, \A g \in Handles, c \in Characteristics : s[g][c] = t[g][c]
    PROVE  s = t
<1>1. ASSUME NEW g \in Handles PROVE s[g] = t[g]
  <2>1. s[g] \in [Characteristics -> Kinds] /\ t[g] \in [Characteristics -> Kinds]
    BY DEF Subs
  <2>2. QED
    BY <2>1
<1>2. QED
    BY <1>1 DEF Subs

LEMMA SubsChange ==
    ASSUME NEW s \in Subs, NEW h \in Handles, NEW c \in Characteristics, NEW k \in Kinds,
           NEW u, u = [s EXCEPT ![h][c] = k]
    PROVE  /\ u \in Subs
           /\ \A g \in Handles, d \in Characteristics : u[g][d] = IF g = h /\ d = c THEN k ELSE s[g][d]
BY DEF Subs

LEMMA SeqOfSet ==
    ASSUME NEW D, IsFiniteSet(D), NEW f, f = SetToSeq(D)
    PROVE  /\ f \in Seq(D) /\ Len(f) \in Nat /\ DOMAIN f = 1 .. Len(f)
           /\ \A d \in D : \E i \in 1 .. Len(f) : f[i] = d
<1> DEFINE n == Cardinality(D)
<1>1. n \in Nat /\ ExistsBijection(1 .. n, D)
    BY FS_CardinalityType
<1>2. PICK g \in Bijection(1 .. n, D) : TRUE
    BY <1>1 DEF ExistsBijection
<1>3. g \in [1 .. n -> D] /\ IsInjective(g)
  <2>1. g \in [1 .. n -> D] /\ \A a, b \in 1 .. n : g[a] = g[b] => a = b
    BY <1>2, Fun_BijectionProperties
  <2>2. DOMAIN g = 1 .. n
    BY <2>1
  <2>3. QED
    BY <2>1, <2>2 DEF IsInjective
<1>4. f \in [1 .. n -> D] /\ IsInjective(f)
    BY <1>3 DEF SetToSeq
<1>5. f \in Injection(1 .. n, D)
    BY <1>4 DEF Injection
<1>6. IsFiniteSet(1 .. n) /\ Cardinality(1 .. n) = n
    BY <1>1, FS_Interval
<1>7. f \in Surjection(1 .. n, D)
    BY <1>5, <1>6, FS_Injection
<1>8. \A d \in D : \E i \in 1 .. n : f[i] = d
    BY <1>7 DEF Surjection
<1> HIDE DEF n
<1>9. f \in Seq(D) /\ Len(f) = n /\ DOMAIN f = 1 .. n
    BY <1>1, <1>4
<1>10. QED
    BY <1>1, <1>8, <1>9

LEMMA EventsAre ==
    /\ \A h \in Handles : GapEvent("connect", h) \in Events /\ GapEvent("disconnect", h) \in Events
    /\ \A h \in Handles, c \in Characteristics, k \in Kinds : Subscription(h, c, k) \in Events
    /\ Writes \subseteq Events
BY DEF GapEvent, Subscription, Events, GapEvents, Subscriptions

\* A link that ends takes its subscriptions along.
LEMMA FarewellReplays ==
    ASSUME LinkTypes, NEW h \in Handles, NEW r \in Seq(Writes)
    PROVE  /\ Farewell(h) \in Seq(Events)
           /\ Replays(Farewell(h), Picture({h}, subscribed, r),
                      Picture({}, [subscribed EXCEPT ![h] = Nothing], r))
<1> DEFINE D == {c \in Characteristics : subscribed[h][c] # "no"}
           f == SetToSeq(D)
           n == Len(f)
           q == [i \in DOMAIN f |-> Subscription(h, f[i], "no")]
           none == [subscribed EXCEPT ![h] = Nothing]
<1>1. IsFiniteSet(D)
    BY AttributesAssumption, FS_Subset
<1> HIDE DEF D
<1>2. /\ f \in Seq(D) /\ n \in Nat /\ DOMAIN f = 1 .. n
      /\ \A d \in D : \E i \in 1 .. n : f[i] = d
    BY <1>1, SeqOfSet
<1>3. \A i \in 1 .. n : f[i] \in D
    BY <1>2, ElementOfSeq
<1>4. subscribed \in Subs
    BY DEF LinkTypes, Subs
<1>5. Farewell(h) = q \o <<GapEvent("disconnect", h)>>
    BY DEF Farewell, D
<1> HIDE DEF f, n
<1>6. \A i \in 1 .. n : f[i] \in Characteristics
    BY <1>3 DEF D
<1>7. \A i \in 1 .. n : Subscription(h, f[i], "no") \in Events
    BY <1>6, EventsAre DEF Kinds
<1>8. q \in Seq(Events) /\ Len(q) = n /\ \A i \in 1 .. n : q[i] = Subscription(h, f[i], "no")
    BY <1>2, <1>7
<1> DEFINE Over(i) == [g \in Handles |-> [c \in Characteristics |->
                          IF g = h /\ \E j \in 1 .. i : f[j] = c THEN "no" ELSE subscribed[g][c]]]
           p == [i \in 0 .. n |-> Picture({h}, Over(i), r)]
<1>9. ASSUME NEW i PROVE Over(i) \in Subs
    BY <1>4 DEF Subs, Kinds
<1>10. ASSUME NEW i PROVE \A g \in Handles, c \in Characteristics :
              Over(i)[g][c] = IF g = h /\ \E j \in 1 .. i : f[j] = c THEN "no" ELSE subscribed[g][c]
    OBVIOUS
<1> HIDE DEF Over, q
<1>11. p \in [0 .. n -> Pictures]
  <2>1. \A i \in 0 .. n : Picture({h}, Over(i), r) \in Pictures
    BY <1>9, PictureIs DEF Subs
  <2>2. QED
    BY <2>1
<1>12. \A i \in 0 .. n : p[i] = Picture({h}, Over(i), r)
    OBVIOUS
<1> HIDE DEF p
<1>13. p[0] = Picture({h}, subscribed, r)
  <2>1. \A g \in Handles, c \in Characteristics : Over(0)[g][c] = subscribed[g][c]
    BY <1>10
  <2>2. Over(0) = subscribed
    BY <1>4, <1>9, <2>1, SameSubs
  <2>3. 0 \in 0 .. n
    BY <1>2
  <2>4. QED
    BY <1>12, <2>2, <2>3
<1>14. none \in Subs /\ \A g \in Handles, c \in Characteristics :
              none[g][c] = IF g = h THEN "no" ELSE subscribed[g][c]
    BY <1>4, NothingIs DEF Subs
<1> HIDE DEF none
<1>15. p[n] = Picture({h}, none, r)
  <2>1. ASSUME NEW g \in Handles, NEW c \in Characteristics PROVE Over(n)[g][c] = none[g][c]
    <3>1. CASE c \in D
        BY <1>2, <1>10, <1>14, <3>1
    <3>2. CASE c \notin D
        BY <1>10, <1>14, <3>2 DEF D
    <3>3. QED
        BY <3>1, <3>2
  <2>2. Over(n) = none
    BY <1>9, <1>14, <2>1, SameSubs
  <2>3. n \in 0 .. n
    BY <1>2
  <2>4. QED
    BY <1>12, <2>2, <2>3
<1>16. ASSUME NEW i \in 1 .. n PROVE Follows(p[i - 1], q[i], p[i])
  <2> DEFINE e == q[i]
             u == [Over(i - 1) EXCEPT ![h][f[i]] = "no"]
  <2>1. /\ e.type = "subscribe" /\ e.handle = h /\ e.target = f[i] /\ e.kind = "no"
        /\ f[i] \in Characteristics
    BY <1>6, <1>8 DEF Subscription
  <2>2. i \in 0 .. n /\ i - 1 \in 0 .. n
    BY <1>2
  <2>3. Over(i - 1) \in Subs /\ Over(i) \in Subs
    BY <1>9
  <2>4. /\ u \in Subs
        /\ \A g \in Handles, d \in Characteristics :
              u[g][d] = IF g = h /\ d = f[i] THEN "no" ELSE Over(i - 1)[g][d]
    BY <2>1, <2>3, SubsChange DEF Kinds
  <2> HIDE DEF u
  <2>5. \A c : (\E j \in 1 .. i : f[j] = c) <=> (c = f[i] \/ \E j \in 1 .. i - 1 : f[j] = c)
    <3>1. \A j : j \in 1 .. i <=> (j = i \/ j \in 1 .. i - 1)
        BY <1>2
    <3>2. QED
        BY <3>1
  <2>6. \A g \in Handles, c \in Characteristics : Over(i)[g][c] = u[g][c]
    <3>1. ASSUME NEW g \in Handles, NEW c \in Characteristics PROVE Over(i)[g][c] = u[g][c]
        <4>1. Over(i)[g][c] = IF g = h /\ \E j \in 1 .. i : f[j] = c THEN "no" ELSE subscribed[g][c]
            BY <1>10
        <4>2. Over(i - 1)[g][c] = IF g = h /\ \E j \in 1 .. i - 1 : f[j] = c THEN "no" ELSE subscribed[g][c]
            BY <1>10
        <4>3. u[g][c] = IF g = h /\ c = f[i] THEN "no" ELSE Over(i - 1)[g][c]
            BY <2>4
        <4>4. QED
            BY <2>5, <4>1, <4>2, <4>3
    <3>2. QED
        BY <3>1
  <2>7. Over(i) = u
    BY <2>3, <2>4, <2>6, SameSubs
  <2>8. p[i - 1] = Picture({h}, Over(i - 1), r) /\ p[i] = Picture({h}, Over(i), r)
    BY <1>12, <2>2
  <2>9. p[i] = Picture(p[i - 1].clients, [p[i - 1].subs EXCEPT ![e.handle][e.target] = e.kind], p[i - 1].reports)
    BY <2>1, <2>7, <2>8, PictureIs DEF u
  <2>10. QED
    BY <2>1, <2>9 DEF Follows
<1>17. Replays(q, Picture({h}, subscribed, r), Picture({h}, none, r))
    BY <1>8, <1>11, <1>13, <1>15, <1>16 DEF Replays
<1> DEFINE e == GapEvent("disconnect", h)
<1>18. Replays(<<e>>, Picture({h}, none, r), Picture({}, none, r))
  <2>1. Picture({h}, none, r) \in Pictures /\ Picture({}, none, r) \in Pictures
    BY <1>14, PictureIs DEF Subs
  <2>2. Follows(Picture({h}, none, r), e, Picture({}, none, r))
    BY PictureIs DEF Follows, GapEvent
  <2>3. QED
    BY <2>1, <2>2, ReplaysOne
<1>19. <<e>> \in Seq(Events)
    BY EventsAre
<1>20. Farewell(h) \in Seq(Events)
    BY <1>5, <1>8, <1>19, ConcatProperties
<1>21. Replays(q \o <<e>>, Picture({h}, subscribed, r), Picture({}, none, r))
    BY <1>8, <1>17, <1>18, <1>19, ReplaysOn
<1>22. QED
    BY <1>5, <1>20, <1>21 DEF none

-----------------------------------------------------------------------------
(* The list of a characteristic.                                           *)

Entries == [handle : Handles, kind : {"notify", "indicate"}]

OneEach(s) == \A i, j \in 1 .. Len(s) : s[i].handle = s[j].handle => i = j

\* What the list says of a link.
Asked(s, h) ==
    IF \E i \in 1 .. Len(s) : s[i].handle = h
    THEN s[CHOOSE i \in 1 .. Len(s) : s[i].handle = h].kind ELSE "no"

\* The list after a subscription is handled.
Listed(s, h, kind) ==
    LET known == \E i \in DOMAIN s : s[i].handle = h
        at == CHOOSE i \in DOMAIN s : s[i].handle = h /\ \A j \in 1 .. i - 1 : s[j].handle # h
    IN  IF ~known THEN IF kind = "no" THEN s ELSE Append(s, [handle |-> h, kind |-> kind])
        ELSE IF kind = "no" THEN RemoveAt(s, at)
        ELSE [s EXCEPT ![at].kind = kind]

\* The list u is s, with what h asked for changed to k.
Becomes(s, u, h, k) ==
    /\ u \in Seq(Entries) /\ OneEach(u)
    /\ \A g \in Handles : Asked(u, g) = IF g = h THEN k ELSE Asked(s, g)

LEMMA AskedIs ==
    ASSUME NEW s \in Seq(Entries), OneEach(s), NEW h
    PROVE  /\ \A i \in 1 .. Len(s) : s[i].handle = h => Asked(s, h) = s[i].kind
           /\ (\A i \in 1 .. Len(s) : s[i].handle # h) => Asked(s, h) = "no"
           /\ Asked(s, h) \in Kinds
           /\ Asked(s, h) # "no" => \E i \in 1 .. Len(s) : s[i] = [handle |-> h, kind |-> Asked(s, h)]
<1>1. \A i \in 1 .. Len(s) : s[i] \in Entries
    BY ElementOfSeq
<1>2. CASE \A i \in 1 .. Len(s) : s[i].handle # h
    BY <1>2 DEF Asked, Kinds
<1>3. CASE ~(\A i \in 1 .. Len(s) : s[i].handle # h)
  <2> DEFINE at == CHOOSE i \in 1 .. Len(s) : s[i].handle = h
  <2>1. at \in 1 .. Len(s) /\ s[at].handle = h
    BY <1>3
  <2>2. Asked(s, h) = s[at].kind
    BY <1>3 DEF Asked
  <2> HIDE DEF at
  <2>3. \A i \in 1 .. Len(s) : s[i].handle = h => i = at
    BY <2>1 DEF OneEach
  <2>4. s[at].kind \in {"notify", "indicate"} /\ s[at] = [handle |-> h, kind |-> s[at].kind]
    BY <1>1, <2>1 DEF Entries
  <2>5. QED
    BY <1>3, <2>1, <2>2, <2>3, <2>4 DEF Kinds
<1>4. QED
    BY <1>2, <1>3

LEMMA RemovesAt ==
    ASSUME NEW S, NEW s \in Seq(S), NEW at \in 1 .. Len(s), NEW u, u = RemoveAt(s, at)
    PROVE  /\ u \in Seq(S) /\ Len(u) = Len(s) - 1 /\ Len(s) \in Nat
           /\ \A i \in 1 .. Len(u) : IF i < at THEN i \in 1 .. Len(s) /\ u[i] = s[i]
                                     ELSE i + 1 \in 1 .. Len(s) /\ u[i] = s[i + 1]
<1> DEFINE n == Len(s)
           a == SubSeq(s, 1, at - 1)
           b == SubSeq(s, at + 1, n)
<1>1. n \in Nat /\ at \in Int /\ 1 <= at /\ at <= n /\ \A i \in 1 .. n : s[i] \in S
    BY LenProperties, ElementOfSeq
<1>2. \A i \in 1 .. at - 1 : i \in 1 .. n /\ s[i] \in S
    BY <1>1
<1>3. \A i \in at + 1 .. n : i \in 1 .. n /\ s[i] \in S
    BY <1>1
<1>4. u = a \o b
    BY DEF RemoveAt
<1>5. 1 \in Int /\ at - 1 \in Int /\ at + 1 \in Int /\ n \in Int
    BY <1>1
<1> HIDE DEF n
<1>6. /\ a \in Seq(S) /\ Len(a) = IF 1 <= at - 1 THEN at - 1 - 1 + 1 ELSE 0
      /\ \A i \in 1 .. at - 1 - 1 + 1 : a[i] = s[1 + i - 1]
    BY <1>2, <1>5, SubSeqProperties
<1>7. /\ b \in Seq(S) /\ Len(b) = IF at + 1 <= n THEN n - (at + 1) + 1 ELSE 0
      /\ \A i \in 1 .. n - (at + 1) + 1 : b[i] = s[at + 1 + i - 1]
    BY <1>3, <1>5, SubSeqProperties
<1> HIDE DEF a, b
<1>8. /\ u \in Seq(S) /\ Len(u) = Len(a) + Len(b)
      /\ \A i \in 1 .. Len(a) + Len(b) : u[i] = IF i <= Len(a) THEN a[i] ELSE b[i - Len(a)]
  <2>1. a \in Seq(S) /\ b \in Seq(S)
    BY <1>6, <1>7
  <2>2. QED
    BY <1>4, <2>1, ConcatProperties
<1>9. Len(a) = at - 1 /\ Len(b) = n - at
    BY <1>1, <1>6, <1>7
<1>10. Len(u) = n - 1
    BY <1>1, <1>8, <1>9
<1>11. ASSUME NEW i \in 1 .. n - 1 PROVE IF i < at THEN i \in 1 .. n /\ u[i] = s[i]
                                         ELSE i + 1 \in 1 .. n /\ u[i] = s[i + 1]
  <2>1. i \in 1 .. Len(a) + Len(b) /\ i \in Int
    BY <1>1, <1>9, <1>11
  <2>2. CASE i < at
    <3>1. i <= Len(a) /\ i \in 1 .. at - 1 - 1 + 1 /\ 1 + i - 1 = i /\ i \in 1 .. n
        BY <1>1, <1>9, <1>11, <2>1, <2>2
    <3>2. a[i] = s[i]
        BY <1>6, <3>1
    <3>3. QED
        BY <1>8, <2>1, <2>2, <3>1, <3>2
  <2>3. CASE ~(i < at)
    <3> DEFINE j == i - Len(a)
    <3>1. ~(i <= Len(a)) /\ j \in 1 .. n - (at + 1) + 1 /\ at + 1 + j - 1 = i + 1 /\ i + 1 \in 1 .. n
        BY <1>1, <1>9, <1>11, <2>1, <2>3
    <3>2. b[j] = s[at + 1 + j - 1]
        BY <1>7, <3>1
    <3>3. u[i] = b[j]
        BY <1>8, <2>1, <3>1
    <3>4. QED
        BY <2>3, <3>1, <3>2, <3>3
  <2>4. QED
    BY <2>2, <2>3
<1>12. QED
    BY <1>1, <1>8, <1>10, <1>11 DEF n

LEMMA ListBecomes ==
    ASSUME NEW s \in Seq(Entries), OneEach(s), NEW h \in Handles, NEW k \in Kinds, NEW u, u = Listed(s, h, k)
    PROVE  Becomes(s, u, h, k)
<1> DEFINE known == \E i \in DOMAIN s : s[i].handle = h
           at == CHOOSE i \in DOMAIN s : s[i].handle = h /\ \A j \in 1 .. i - 1 : s[j].handle # h
           new == [handle |-> h, kind |-> k]
<1>1. Len(s) \in Nat /\ DOMAIN s = 1 .. Len(s) /\ \A i \in 1 .. Len(s) : s[i] \in Entries
    BY LenProperties, ElementOfSeq
<1>2. ASSUME known PROVE at \in 1 .. Len(s) /\ s[at].handle = h
  <2>1. PICK i \in 1 .. Len(s) : s[i].handle = h
    BY <1>1, <1>2
  <2>2. \A j \in 1 .. i - 1 : j \in 1 .. Len(s) /\ j # i
    BY <1>1
  <2>3. \A j \in 1 .. i - 1 : s[j].handle # h
    BY <2>1, <2>2 DEF OneEach
  <2>4. QED
    BY <1>1, <2>1, <2>3
<1>3. \A g \in Handles : /\ \A i \in 1 .. Len(s) : s[i].handle = g => Asked(s, g) = s[i].kind
                         /\ (\A i \in 1 .. Len(s) : s[i].handle # g) => Asked(s, g) = "no"
    BY AskedIs
<1>4. CASE ~known /\ k = "no"
  <2>1. u = s
    BY <1>4 DEF Listed
  <2>2. Asked(s, h) = "no"
    BY <1>1, <1>3, <1>4
  <2>3. QED
    BY <1>4, <2>1, <2>2 DEF Becomes
<1>5. CASE ~known /\ k # "no"
  <2>1. u = Append(s, new) /\ new \in Entries /\ new.handle = h /\ new.kind = k
    BY <1>5 DEF Listed, Entries, Kinds
  <2> HIDE DEF new
  <2>2. /\ u \in Seq(Entries) /\ Len(u) = Len(s) + 1 /\ u[Len(s) + 1] = new
        /\ \A i \in 1 .. Len(s) : u[i] = s[i]
    BY <2>1, AppendProperties
  <2>3. \A i \in 1 .. Len(u) : i = Len(s) + 1 \/ i \in 1 .. Len(s)
    BY <1>1, <2>2
  <2>4. \A i \in 1 .. Len(s) : s[i].handle # h /\ i # Len(s) + 1 /\ i \in 1 .. Len(u)
    BY <1>1, <1>5, <2>2
  <2>5. OneEach(u)
    <3>1. ASSUME NEW i \in 1 .. Len(u), NEW j \in 1 .. Len(u), u[i].handle = u[j].handle PROVE i = j
        <4>1. CASE i = Len(s) + 1
            BY <2>1, <2>2, <2>3, <2>4, <3>1, <4>1
        <4>2. CASE i \in 1 .. Len(s)
            BY <2>1, <2>2, <2>3, <2>4, <3>1, <4>2 DEF OneEach
        <4>3. QED
            BY <2>3, <4>1, <4>2
    <3>2. QED
        BY <3>1 DEF OneEach
  <2>6. \A g \in Handles : /\ \A i \in 1 .. Len(u) : u[i].handle = g => Asked(u, g) = u[i].kind
                           /\ (\A i \in 1 .. Len(u) : u[i].handle # g) => Asked(u, g) = "no"
    BY <2>2, <2>5, AskedIs
  <2>7. ASSUME NEW g \in Handles PROVE Asked(u, g) = IF g = h THEN k ELSE Asked(s, g)
    <3>1. CASE g = h
        <4>1. Len(s) + 1 \in 1 .. Len(u)
            BY <1>1, <2>2
        <4>2. QED
            BY <2>1, <2>2, <2>6, <3>1, <4>1
    <3>2. CASE g # h /\ \E i \in 1 .. Len(s) : s[i].handle = g
        BY <1>3, <2>2, <2>4, <2>6, <3>2
    <3>3. CASE g # h /\ ~(\E i \in 1 .. Len(s) : s[i].handle = g)
        <4>1. \A i \in 1 .. Len(u) : u[i].handle # g
            BY <2>1, <2>2, <2>3, <3>3
        <4>2. QED
            BY <1>3, <2>6, <3>3, <4>1
    <3>4. QED
        BY <3>1, <3>2, <3>3
  <2>8. QED
    BY <2>2, <2>5, <2>7 DEF Becomes
<1>6. CASE known /\ k = "no"
  <2>1. u = RemoveAt(s, at) /\ at \in 1 .. Len(s) /\ s[at].handle = h
    BY <1>2, <1>6 DEF Listed
  <2> HIDE DEF at
  <2>2. /\ u \in Seq(Entries) /\ Len(u) = Len(s) - 1
        /\ \A i \in 1 .. Len(u) : IF i < at THEN i \in 1 .. Len(s) /\ u[i] = s[i]
                                  ELSE i + 1 \in 1 .. Len(s) /\ u[i] = s[i + 1]
    BY <2>1, RemovesAt
  <2> DEFINE was(i) == IF i < at THEN i ELSE i + 1
             is(i) == IF i < at THEN i ELSE i - 1
  <2>3. \A i \in 1 .. Len(u) : was(i) \in 1 .. Len(s) /\ was(i) # at /\ u[i] = s[was(i)]
    BY <1>1, <2>1, <2>2
  <2>4. \A i, j \in 1 .. Len(u) : was(i) = was(j) => i = j
    BY <1>1, <2>1, <2>2
  <2>5. \A i \in 1 .. Len(s) : i # at => is(i) \in 1 .. Len(u) /\ was(is(i)) = i
    BY <1>1, <2>1, <2>2
  <2> HIDE DEF was, is
  <2>6. OneEach(u)
    BY <2>3, <2>4 DEF OneEach
  <2>7. \A g \in Handles : /\ \A i \in 1 .. Len(u) : u[i].handle = g => Asked(u, g) = u[i].kind
                           /\ (\A i \in 1 .. Len(u) : u[i].handle # g) => Asked(u, g) = "no"
    BY <2>2, <2>6, AskedIs
  <2>8. \A i \in 1 .. Len(u) : u[i].handle # h
    BY <2>1, <2>3 DEF OneEach
  <2>9. ASSUME NEW g \in Handles PROVE Asked(u, g) = IF g = h THEN k ELSE Asked(s, g)
    <3>1. CASE g = h
        BY <1>6, <2>7, <2>8, <3>1
    <3>2. CASE g # h /\ \E i \in 1 .. Len(s) : s[i].handle = g
        <4>1. PICK i \in 1 .. Len(s) : s[i].handle = g
            BY <3>2
        <4>2. is(i) \in 1 .. Len(u) /\ u[is(i)] = s[i]
            BY <2>1, <2>3, <2>5, <3>2, <4>1
        <4>3. QED
            BY <1>3, <2>7, <3>2, <4>1, <4>2
    <3>3. CASE g # h /\ ~(\E i \in 1 .. Len(s) : s[i].handle = g)
        <4>1. \A i \in 1 .. Len(u) : u[i].handle # g
            BY <2>3, <3>3
        <4>2. QED
            BY <1>3, <2>7, <3>3, <4>1
    <3>4. QED
        BY <3>1, <3>2, <3>3
  <2>10. QED
    BY <2>2, <2>6, <2>9 DEF Becomes
<1>7. CASE known /\ k # "no"
  <2> DEFINE r == [s[at] EXCEPT !.kind = k]
  <2>1. u = [s EXCEPT ![at] = r] /\ at \in 1 .. Len(s) /\ s[at].handle = h
    BY <1>2, <1>7 DEF Listed
  <2> HIDE DEF at
  <2>2. r \in Entries /\ r.handle = h /\ r.kind = k
    BY <1>1, <1>7, <2>1 DEF Entries, Kinds
  <2> HIDE DEF r
  <2>3. u \in Seq(Entries) /\ Len(u) = Len(s) /\ \A i \in 1 .. Len(s) : u[i] = IF i = at THEN r ELSE s[i]
    BY <2>1, <2>2, ExceptSeq
  <2>4. \A i \in 1 .. Len(s) : u[i].handle = s[i].handle
    BY <2>1, <2>2, <2>3
  <2>5. OneEach(u)
    BY <2>3, <2>4 DEF OneEach
  <2>6. \A g \in Handles : /\ \A i \in 1 .. Len(u) : u[i].handle = g => Asked(u, g) = u[i].kind
                           /\ (\A i \in 1 .. Len(u) : u[i].handle # g) => Asked(u, g) = "no"
    <3>1. u \in Seq(Entries)
        BY <2>3
    <3>2. QED
        BY <2>5, <3>1, AskedIs
  <2>7. ASSUME NEW g \in Handles PROVE Asked(u, g) = IF g = h THEN k ELSE Asked(s, g)
    <3>1. CASE g = h
        BY <2>1, <2>2, <2>3, <2>6, <3>1
    <3>2. CASE g # h /\ \E i \in 1 .. Len(s) : s[i].handle = g
        <4>1. PICK i \in 1 .. Len(s) : s[i].handle = g
            BY <3>2
        <4>2. i # at /\ i \in 1 .. Len(u) /\ u[i] = s[i]
            BY <2>1, <2>3, <3>2, <4>1
        <4>3. QED
            BY <1>3, <2>6, <3>2, <4>1, <4>2
    <3>3. CASE g # h /\ ~(\E i \in 1 .. Len(s) : s[i].handle = g)
        BY <1>3, <2>3, <2>4, <2>6, <3>3
    <3>4. QED
        BY <3>1, <3>2, <3>3
  <2>8. QED
    BY <2>3, <2>5, <2>7 DEF Becomes
<1>8. QED
    BY <1>4, <1>5, <1>6, <1>7

-----------------------------------------------------------------------------
(* The invariant.                                                          *)

SubsOf(lists) == [h \in Handles |-> [c \in Characteristics |-> Asked(lists[c], h)]]

LoopPicture == Picture(ToSet(clients), SubsOf(toNotify), unreported)

Unqueued == IF writing = NoWrite THEN <<>> ELSE <<writing>>

HostPicture == Picture(ServerLinks, subscribed, Unqueued)

KnownTypes ==
    /\ toNotify \in [Characteristics -> Seq(Entries)]
    /\ \A c \in Characteristics : OneEach(toNotify[c])
    /\ clients = <<>> \/ \E h \in Handles : clients = <<h>>
    /\ queue \in Seq(Events) /\ unreported \in Seq(Writes) /\ writing \in Writes \cup {NoWrite}

KnownInv == KnownTypes /\ Replays(queue, LoopPicture, HostPicture)

CurrentInv == LinkInv /\ (~lost => KnownInv)

LEMMA SubsOfType ==
    ASSUME NEW t \in [Characteristics -> Seq(Entries)], \A c \in Characteristics : OneEach(t[c])
    PROVE  /\ SubsOf(t) \in Subs
           /\ \A h \in Handles, c \in Characteristics : SubsOf(t)[h][c] = Asked(t[c], h)
<1>1. ASSUME NEW h \in Handles, NEW c \in Characteristics PROVE Asked(t[c], h) \in Kinds
  <2>1. t[c] \in Seq(Entries) /\ OneEach(t[c])
    OBVIOUS
  <2>2. QED
    BY <2>1, AskedIs
<1>2. QED
    BY <1>1 DEF SubsOf, Subs

LEMMA PicturesAre ==
    ASSUME KnownTypes, LinkTypes
    PROVE  /\ LoopPicture \in Pictures /\ HostPicture \in Pictures
           /\ ToSet(clients) \in SUBSET Handles /\ SubsOf(toNotify) \in Subs /\ Unqueued \in Seq(Writes)
<1>1. ToSet(clients) \in SUBSET Handles
  <2>1. CASE clients = <<>>
    BY <2>1 DEF ToSet
  <2>2. CASE \E h \in Handles : clients = <<h>>
    BY <2>2 DEF ToSet
  <2>3. QED
    BY <2>1, <2>2 DEF KnownTypes
<1>2. SubsOf(toNotify) \in Subs
    BY SubsOfType DEF KnownTypes
<1>3. unreported \in Seq(Writes) /\ Unqueued \in Seq(Writes)
    BY DEF KnownTypes, Unqueued
<1>4. ServerLinks \in SUBSET Handles /\ subscribed \in Subs
    BY DEF ServerLinks, LinkTypes, Subs
<1>5. QED
    BY <1>1, <1>2, <1>3, <1>4, PictureIs DEF LoopPicture, HostPicture, Subs

\* The host pushes what it changed.
LEMMA PushKnown ==
    ASSUME KnownInv, NEW es \in Seq(Events), Push(es), ~lost',
           UNCHANGED <<clients, toNotify, unreported>>, writing' \in Writes \cup {NoWrite},
           Replays(es, HostPicture, HostPicture')
    PROVE  KnownInv'
<1>1. queue' = queue \o es
    BY DEF Push
<1>2. queue \in Seq(Events) /\ Replays(queue, LoopPicture, HostPicture)
    BY DEF KnownInv, KnownTypes
<1>3. queue' \in Seq(Events) /\ Replays(queue', LoopPicture, HostPicture')
    BY <1>1, <1>2, ConcatProperties, ReplaysOn
<1>4. KnownTypes'
    BY <1>3 DEF KnownInv, KnownTypes
<1>5. LoopPicture' = LoopPicture
    BY DEF LoopPicture
<1>6. QED
    BY <1>3, <1>4, <1>5 DEF KnownInv

LEMMA SameKnown ==
    ASSUME KnownInv, UNCHANGED <<clients, toNotify, unreported, queue, writing>>,
           ServerLinks' = ServerLinks, subscribed' = subscribed
    PROVE  KnownInv'
<1>1. LoopPicture' = LoopPicture /\ HostPicture' = HostPicture
    BY DEF LoopPicture, HostPicture, Unqueued
<1>2. QED
    BY <1>1 DEF KnownInv, KnownTypes

LEMMA PushOne ==
    ASSUME KnownInv, LinkTypes, LinkTypes', NEW e \in Events, Push(<<e>>), ~lost',
           UNCHANGED <<clients, toNotify, unreported>>, writing' \in Writes \cup {NoWrite},
           Follows(HostPicture, e, HostPicture')
    PROVE  KnownInv'
<1>1. HostPicture \in Pictures
    BY PicturesAre DEF KnownInv
<1>2. HostPicture' \in Pictures
  <2>1. ServerLinks' \in SUBSET Handles /\ subscribed' \in Subs
    BY DEF ServerLinks, LinkTypes, Subs
  <2>2. Unqueued' \in Seq(Writes)
    BY DEF Unqueued
  <2>3. QED
    BY <2>1, <2>2, PictureIs DEF HostPicture, Subs
<1>3. Replays(<<e>>, HostPicture, HostPicture') /\ <<e>> \in Seq(Events)
    BY <1>1, <1>2, ReplaysOne
<1>4. QED
    BY <1>3, PushKnown

LEMMA FormsKnown ==
    ASSUME KnownInv, LinkInv, LinkInv', NEW h \in Handles, LinkForms(h), ~lost'
    PROVE  KnownInv'
<1>1. /\ writing = NoWrite /\ advertised # "off" /\ link[h] = "off"
      /\ link' = [link EXCEPT ![h] = advertised]
      /\ UNCHANGED <<subscribed, unreported, clients, toNotify, writing>>
    BY DEF LinkForms, valueVars, loopVars
<1>2. \A g \in Handles : link'[g] = IF g = h THEN advertised ELSE link[g]
    BY <1>1 DEF LinkInv, LinkTypes
<1>3. CASE advertised = "server"
  <2>1. ServerLinks = {} /\ ServerLinks' = {h}
    BY <1>2, <1>3 DEF LinkInv, Alone, NoServerLink, ServerLinks
  <2> DEFINE e == GapEvent("connect", h)
  <2>2. Push(<<e>>)
    BY <1>3 DEF LinkForms
  <2>3. e \in Events /\ e.type = "connect" /\ e.handle = h
    BY EventsAre DEF GapEvent
  <2> HIDE DEF e
  <2>4. Unqueued' = Unqueued
    BY <1>1 DEF Unqueued
  <2>5. HostPicture.clients = {} /\ HostPicture' = Picture({h}, HostPicture.subs, HostPicture.reports)
    BY <1>1, <2>1, <2>4 DEF HostPicture, Picture
  <2>6. Follows(HostPicture, e, HostPicture')
    BY <2>3, <2>5 DEF Follows
  <2>7. writing' \in Writes \cup {NoWrite}
    BY <1>1
  <2>8. QED
    BY <1>1, <2>2, <2>3, <2>6, <2>7, PushOne DEF LinkInv
<1>4. CASE advertised # "server"
  <2>1. ServerLinks' = ServerLinks
    BY <1>1, <1>2, <1>4 DEF ServerLinks
  <2>2. UNCHANGED queue
    BY <1>4 DEF LinkForms
  <2>3. QED
    BY <1>1, <2>1, <2>2, SameKnown
<1>5. QED
    BY <1>3, <1>4

LEMMA EndsKnown ==
    ASSUME KnownInv, LinkInv, NEW h \in Handles, LinkEnds(h), ~lost'
    PROVE  KnownInv'
<1>1. /\ writing = NoWrite /\ link[h] # "off" /\ link' = [link EXCEPT ![h] = "off"]
      /\ subscribed' = [subscribed EXCEPT ![h] = Nothing]
      /\ UNCHANGED <<unreported, clients, toNotify, writing>>
    BY DEF LinkEnds, valueVars, loopVars
<1>2. \A g \in Handles : link'[g] = IF g = h THEN "off" ELSE link[g]
    BY <1>1 DEF LinkInv, LinkTypes
<1>3. CASE link[h] = "server"
  <2>1. ServerLinks = {h} /\ ServerLinks' = {}
    BY <1>2, <1>3 DEF LinkInv, Alone, ServerLinks
  <2>2. Unqueued = <<>> /\ Unqueued' = <<>> /\ <<>> \in Seq(Writes)
    BY <1>1 DEF Unqueued
  <2>3. /\ Farewell(h) \in Seq(Events)
        /\ Replays(Farewell(h), Picture({h}, subscribed, <<>>),
                   Picture({}, [subscribed EXCEPT ![h] = Nothing], <<>>))
    BY <2>2, FarewellReplays DEF LinkInv
  <2>4. Replays(Farewell(h), HostPicture, HostPicture')
    BY <1>1, <2>1, <2>2, <2>3 DEF HostPicture
  <2>5. Push(Farewell(h))
    BY <1>3 DEF LinkEnds
  <2>6. writing' \in Writes \cup {NoWrite}
    BY <1>1
  <2>7. QED
    BY <1>1, <2>3, <2>4, <2>5, <2>6, PushKnown
<1>4. CASE link[h] # "server"
  <2>1. ServerLinks' = ServerLinks
    BY <1>2, <1>4 DEF ServerLinks
  <2>2. subscribed' = subscribed
    BY <1>1, <1>4 DEF LinkInv, Unsubscribed, LinkTypes
  <2>3. UNCHANGED queue
    BY <1>4 DEF LinkEnds
  <2>4. QED
    BY <1>1, <2>1, <2>2, <2>3, SameKnown
<1>5. QED
    BY <1>3, <1>4

LEMMA SubscribesKnown ==
    ASSUME KnownInv, LinkInv, LinkInv', NEW h \in Handles, NEW c \in Characteristics, NEW k \in Kinds,
           Subscribe(h, c, k), ~lost'
    PROVE  KnownInv'
<1>1. /\ writing = NoWrite /\ link' = link /\ subscribed' = [subscribed EXCEPT ![h][c] = k]
      /\ UNCHANGED <<unreported, clients, toNotify, writing>>
      /\ Push(<<Subscription(h, c, k)>>)
    BY DEF Subscribe, valueVars, loopVars
<1> DEFINE e == Subscription(h, c, k)
<1>2. e \in Events /\ e.type = "subscribe" /\ e.handle = h /\ e.target = c /\ e.kind = k
    BY EventsAre DEF Subscription
<1> HIDE DEF e
<1>3. Unqueued' = Unqueued /\ ServerLinks' = ServerLinks
    BY <1>1 DEF Unqueued, ServerLinks
<1>4. HostPicture' = Picture(HostPicture.clients, [HostPicture.subs EXCEPT ![e.handle][e.target] = e.kind],
                             HostPicture.reports)
    BY <1>1, <1>2, <1>3 DEF HostPicture, Picture
<1>5. Follows(HostPicture, e, HostPicture')
    BY <1>2, <1>4 DEF Follows
<1>6. writing' \in Writes \cup {NoWrite} /\ Push(<<e>>)
    BY <1>1 DEF e
<1>7. QED
    BY <1>1, <1>2, <1>5, <1>6, PushOne DEF LinkInv

LEMMA WritesKnown ==
    ASSUME KnownInv, LinkInv, NEW h \in Handles, NEW a \in Attributes, NEW data \in Values,
           Write(h, a, data), ~lost'
    PROVE  KnownInv'
<1> DEFINE w == [type |-> "write", handle |-> h, target |-> a, data |-> data]
<1>1. /\ writing = NoWrite /\ UNCHANGED <<clients, toNotify, queue, lost, subscribed, link>>
      /\ \/ writing' = w /\ unreported' = IF lost THEN <<>> ELSE Append(unreported, w)
         \/ UNCHANGED <<writing, unreported>>
    BY DEF Write, hostVars, loopVars
<1>2. ServerLinks' = ServerLinks
    BY <1>1 DEF ServerLinks
<1>3. CASE UNCHANGED <<writing, unreported>>
    BY <1>1, <1>2, <1>3, SameKnown
<1>4. CASE writing' = w /\ unreported' = Append(unreported, w)
  <2>1. w \in Writes /\ w # NoWrite
    BY NoWriteAssumption DEF Writes
  <2> HIDE DEF w
  <2>2. Unqueued = <<>> /\ Unqueued' = <<w>>
    BY <1>1, <1>4, <2>1 DEF Unqueued
  <2>3. HostPicture' = More(HostPicture, w)
    BY <1>1, <1>2, <2>2 DEF HostPicture, More, Picture
  <2>4. LoopPicture' = More(LoopPicture, w)
    BY <1>1, <1>4 DEF LoopPicture, More, Picture
  <2>5. Len(queue) \in Nat /\ Replays(queue, LoopPicture, HostPicture)
    BY LenProperties DEF KnownInv, KnownTypes
  <2>6. Replays(queue, More(LoopPicture, w), More(HostPicture, w))
    BY <2>1, <2>5, ReplaysMore
  <2>7. unreported' \in Seq(Writes)
    BY <1>4, <2>1, AppendProperties DEF KnownInv, KnownTypes
  <2>8. KnownTypes'
    BY <1>1, <1>4, <2>1, <2>7 DEF KnownInv, KnownTypes
  <2>9. QED
    BY <1>1, <2>3, <2>4, <2>6, <2>8 DEF KnownInv
<1>5. QED
    BY <1>1, <1>3, <1>4

LEMMA QueuesKnown ==
    ASSUME KnownInv, LinkInv, LinkInv', QueueWrite, ~lost'
    PROVE  KnownInv'
<1>1. /\ writing # NoWrite /\ writing' = NoWrite /\ Push(<<writing>>)
      /\ UNCHANGED <<unreported, clients, toNotify, subscribed, link>>
    BY DEF QueueWrite, hostVars, loopVars
<1>2. writing \in Writes /\ writing \in Events /\ writing.type = "write"
    BY <1>1, EventsAre DEF KnownInv, KnownTypes, Writes
<1>3. Unqueued = <<writing>> /\ Unqueued' = <<>> /\ ServerLinks' = ServerLinks
    BY <1>1 DEF Unqueued, ServerLinks
<1>4. Unqueued # <<>> /\ Head(Unqueued) = writing /\ Tail(Unqueued) = <<>>
    BY <1>3
<1>5. /\ HostPicture.reports = Unqueued
      /\ HostPicture' = Picture(HostPicture.clients, HostPicture.subs, <<>>)
    BY <1>1, <1>3 DEF HostPicture, Picture
<1>6. Follows(HostPicture, writing, HostPicture')
    BY <1>2, <1>4, <1>5 DEF Follows
<1>7. writing' \in Writes \cup {NoWrite}
    BY <1>1
<1>8. QED
    BY <1>1, <1>2, <1>6, <1>7, PushOne DEF LinkInv

LEMMA FlattenedOne ==
    ASSUME NEW x
    PROVE  FlattenSeq(<<x>>) = x
<1> DEFINE s == <<x>>
           Flat(f) == f = [i \in 1 .. 1 |-> IF i = 1 THEN s[i] ELSE f[i - 1] \o s[i]]
           only == [i \in 1 .. 1 |-> x]
<1>1. Len(s) = 1 /\ s[1] = x /\ Len(s) # 0
    OBVIOUS
<1>2. FlattenSeq(s) = (CHOOSE f : Flat(f))[1]
    BY <1>1 DEF FlattenSeq
<1> HIDE DEF s
<1>3. \A f : Flat(f) => f[1] = x
    BY <1>1
<1>4. Flat(only)
    BY <1>1
<1> HIDE DEF Flat
<1>5. Flat(CHOOSE f : Flat(f))
    BY <1>4
<1>6. QED
    BY <1>2, <1>3, <1>5 DEF s

\* The events of all links of the server, of which there is one at most.
LEMMA ResetsKnown ==
    ASSUME KnownInv, LinkInv, HostReset, ~lost'
    PROVE  KnownInv'
<1> DEFINE s == SetToSeq(ServerLinks)
           farewells == [i \in DOMAIN s |-> Farewell(s[i])]
           es == FlattenSeq(farewells)
           none == [h \in Handles |-> Nothing]
<1>1. /\ writing = NoWrite /\ Push(es) /\ link' = [h \in Handles |-> "off"] /\ subscribed' = none
      /\ UNCHANGED <<unreported, clients, toNotify, writing>>
    BY DEF HostReset, valueVars, loopVars
<1>2. Unqueued = <<>> /\ Unqueued' = <<>> /\ <<>> \in Seq(Writes)
    BY <1>1 DEF Unqueued
<1>3. ServerLinks' = {}
    BY <1>1 DEF ServerLinks
<1>4. subscribed \in Subs /\ none \in Subs /\ \A g \in Handles : none[g] = Nothing
    BY NothingIs DEF LinkInv, LinkTypes, Subs
<1>5. ServerLinks = {} \/ \E h \in Handles : ServerLinks = {h}
    BY DEF LinkInv, Alone, ServerLinks
<1> DEFINE Ends == es \in Seq(Events) /\ Replays(es, HostPicture, HostPicture')
<1>6. ASSUME ServerLinks = {} PROVE Ends
  <2>1. IsFiniteSet(ServerLinks) /\ Cardinality(ServerLinks) = 0
    BY <1>6, FS_EmptySet
  <2>2. /\ s \in Seq(ServerLinks) /\ Len(s) \in Nat /\ DOMAIN s = 1 .. Len(s)
    BY <2>1, SeqOfSet
  <2> HIDE DEF s
  <2>3. \A i \in 1 .. Len(s) : FALSE
    BY <1>6, <2>2, ElementOfSeq
  <2>4. Len(s) = 0
    BY <2>2, <2>3
  <2>5. farewells = <<>> /\ Len(farewells) = 0
    <3>1. DOMAIN s = {}
        BY <2>2, <2>4
    <3>2. QED
        BY <3>1
  <2>6. es = <<>> /\ es \in Seq(Events)
    BY <2>5 DEF FlattenSeq
  <2>7. subscribed = none
    BY <1>4, <1>6 DEF LinkInv, Unsubscribed, ServerLinks, Subs
  <2>8. HostPicture' = HostPicture
    BY <1>1, <1>2, <1>3, <1>6, <2>7 DEF HostPicture
  <2>9. HostPicture \in Pictures
    BY PicturesAre DEF KnownInv, LinkInv
  <2>10. QED
    BY <2>6, <2>8, <2>9, ReplaysNothing
<1>7. ASSUME \E h \in Handles : ServerLinks = {h} PROVE Ends
  <2>1. PICK h \in Handles : ServerLinks = {h}
    BY <1>7
  <2>2. IsFiniteSet(ServerLinks)
    BY <2>1, FS_Singleton
  <2>3. s = <<h>>
    <3>1. Cardinality({h}) = 1
        BY FS_Singleton
    <3>2. \A f \in [1 .. 1 -> {h}] : f = <<h>>
        OBVIOUS
    <3>3. <<h>> \in [1 .. 1 -> {h}] /\ IsInjective(<<h>>)
        BY DEF IsInjective
    <3>4. SetToSeq({h}) = CHOOSE f \in [1 .. 1 -> {h}] : IsInjective(f)
        BY <3>1 DEF SetToSeq
    <3>5. QED
        BY <2>1, <3>2, <3>3, <3>4
  <2>4. DOMAIN s = {1} /\ s[1] = h
    BY <2>3
  <2> HIDE DEF s
  <2>5. farewells = <<Farewell(h)>>
    BY <2>4
  <2>6. es = Farewell(h)
    BY <2>5, FlattenedOne
  <2>7. /\ Farewell(h) \in Seq(Events)
        /\ Replays(Farewell(h), Picture({h}, subscribed, <<>>),
                   Picture({}, [subscribed EXCEPT ![h] = Nothing], <<>>))
    BY <1>2, FarewellReplays DEF LinkInv
  <2>8. [subscribed EXCEPT ![h] = Nothing] = none
    BY <1>4, <2>1 DEF LinkInv, Unsubscribed, ServerLinks, Subs
  <2>9. Replays(Farewell(h), HostPicture, HostPicture')
    BY <1>1, <1>2, <1>3, <2>1, <2>7, <2>8 DEF HostPicture
  <2>10. QED
    BY <2>6, <2>7, <2>9
<1>8. Ends
    BY <1>5, <1>6, <1>7
<1> HIDE DEF es
<1>9. writing' \in Writes \cup {NoWrite}
    BY <1>1
<1>10. QED
    BY <1>1, <1>8, <1>9, PushKnown

\* The main loop handles the first event.
LEMMA HandleKnown ==
    ASSUME KnownInv, LinkInv, HandleEvent
    PROVE  KnownInv'
<1> DEFINE e == Head(queue)
           x == LoopPicture
<1>1. /\ queue # <<>> /\ queue' = Tail(queue)
      /\ UNCHANGED <<advertised, link, subscribed, silenced, writing>>
      /\ \/ e.type = "connect" /\ AddClient(e.handle) /\ UNCHANGED <<toNotify, unreported>>
         \/ e.type = "disconnect" /\ RemoveClient(e.handle) /\ UNCHANGED <<toNotify, unreported>>
         \/ e.type = "subscribe" /\ HandleSubscribe(e.target, e.handle, e.kind)
                /\ UNCHANGED <<clients, unreported>>
         \/ e.type = "write" /\ HandleWrite(e) /\ UNCHANGED <<clients, toNotify>>
    BY DEF HandleEvent, hostVars, loopVars
<1>2. queue \in Seq(Events) /\ Replays(queue, LoopPicture, HostPicture)
    BY DEF KnownInv, KnownTypes
<1>3. PICK z \in Pictures : Follows(x, e, z) /\ Replays(queue', z, HostPicture)
    BY <1>1, <1>2, ReplaysNext
<1>4. e \in Events /\ queue' \in Seq(Events)
    BY <1>1, <1>2, HeadTailProperties
<1>5. /\ x.clients = ToSet(clients) /\ x.subs = SubsOf(toNotify) /\ x.reports = unreported
      /\ SubsOf(toNotify) \in Subs
    BY PictureIs, PicturesAre DEF LoopPicture, KnownInv, LinkInv
<1>6. HostPicture' = HostPicture
    BY <1>1 DEF HostPicture, ServerLinks, Unqueued
<1>7. /\ toNotify \in [Characteristics -> Seq(Entries)] /\ \A c \in Characteristics : OneEach(toNotify[c])
      /\ clients = <<>> \/ \E h \in Handles : clients = <<h>>
      /\ unreported \in Seq(Writes) /\ writing \in Writes \cup {NoWrite}
    BY DEF KnownInv, KnownTypes
<1> DEFINE Handled ==
              /\ z = Picture(ToSet(clients'), SubsOf(toNotify'), unreported')
              /\ toNotify' \in [Characteristics -> Seq(Entries)]
              /\ \A c \in Characteristics : OneEach(toNotify'[c])
              /\ clients' = <<>> \/ \E h \in Handles : clients' = <<h>>
              /\ unreported' \in Seq(Writes)
<1> HIDE DEF x, e
<1>8. ASSUME e.type = "connect" PROVE Handled
  <2>1. ToSet(clients) = {} /\ z = Picture({e.handle}, x.subs, x.reports)
    BY <1>3, <1>5, <1>8 DEF Follows
  <2>2. clients = <<>>
    <3>1. ASSUME NEW h \in Handles, clients = <<h>> PROVE h \in ToSet(clients)
        BY <3>1 DEF ToSet
    <3>2. QED
        BY <1>7, <2>1, <3>1
  <2>3. clients' = <<e.handle>>
    <3>1. ~Has(clients, e.handle) /\ Len(clients) < MaxClients
        BY <2>2, CapacitiesAssumption DEF Has
    <3>2. AddClient(e.handle)
        BY <1>1, <1>8
    <3>3. QED
        BY <2>2, <3>1, <3>2 DEF AddClient
  <2>4. e.handle \in Handles
    BY <1>4, <1>8 DEF Events, GapEvents, Subscriptions, Writes
  <2>5. ToSet(clients') = {e.handle}
    BY <2>3 DEF ToSet
  <2>6. UNCHANGED <<toNotify, unreported>>
    BY <1>1, <1>8
  <2>7. QED
    BY <1>5, <1>7, <2>1, <2>3, <2>4, <2>5, <2>6
<1>9. ASSUME e.type = "disconnect" PROVE Handled
  <2>1. ToSet(clients) = {e.handle} /\ z = Picture({}, x.subs, x.reports)
    BY <1>3, <1>5, <1>9 DEF Follows
  <2>2. clients = <<e.handle>>
    <3>1. clients # <<>>
        BY <2>1 DEF ToSet
    <3>2. PICK h \in Handles : clients = <<h>>
        BY <1>7, <3>1
    <3>3. ToSet(clients) = {h}
        BY <3>2 DEF ToSet
    <3>4. QED
        BY <2>1, <3>2, <3>3
  <2>3. clients' = <<>>
    <3> DEFINE i == CHOOSE j \in DOMAIN clients : clients[j] = e.handle
    <3>1. Has(clients, e.handle) /\ DOMAIN clients = {1} /\ clients[1] = e.handle /\ Len(clients) = 1
        BY <2>2 DEF Has
    <3>2. i = 1
        BY <3>1
    <3>3. clients' = Front([clients EXCEPT ![i] = Last(clients)])
        BY <1>1, <1>9, <3>1 DEF RemoveClient
    <3> HIDE DEF i
    <3>4. [clients EXCEPT ![i] = Last(clients)] = <<e.handle>>
        BY <2>2, <3>1, <3>2 DEF Last
    <3>5. Front(<<e.handle>>) = <<>>
        BY DEF Front
    <3>6. QED
        BY <3>3, <3>4, <3>5
  <2>4. ToSet(clients') = {}
    BY <2>3 DEF ToSet
  <2>5. UNCHANGED <<toNotify, unreported>>
    BY <1>1, <1>9
  <2>6. QED
    BY <1>5, <1>7, <2>1, <2>3, <2>4, <2>5
<1>10. ASSUME e.type = "subscribe" PROVE Handled
  <2> DEFINE h == e.handle
             c == e.target
             k == e.kind
             u == Listed(toNotify[c], h, k)
             subs == [SubsOf(toNotify) EXCEPT ![h][c] = k]
  <2>1. h \in Handles /\ c \in Characteristics /\ k \in Kinds
    BY <1>4, <1>10 DEF Events, GapEvents, Subscriptions, Writes
  <2>2. UNCHANGED <<clients, unreported>> /\ HandleSubscribe(c, h, k)
    BY <1>1, <1>10
  <2>3. z = Picture(x.clients, subs, x.reports)
    BY <1>3, <1>5, <1>10 DEF Follows
  <2> HIDE DEF h, c, k
  <2>4. toNotify' = [toNotify EXCEPT ![c] = u]
    BY <2>2 DEF HandleSubscribe, Listed
  <2>5. toNotify[c] \in Seq(Entries) /\ OneEach(toNotify[c])
    BY <1>7, <2>1
  <2>6. Becomes(toNotify[c], u, h, k)
    BY <2>1, <2>5, ListBecomes
  <2> HIDE DEF u
  <2>7. \A d \in Characteristics : toNotify'[d] = IF d = c THEN u ELSE toNotify[d]
    BY <1>7, <2>4
  <2>8. /\ toNotify' \in [Characteristics -> Seq(Entries)]
        /\ \A d \in Characteristics : OneEach(toNotify'[d])
    BY <1>7, <2>1, <2>4, <2>6, <2>7 DEF Becomes
  <2>9. /\ SubsOf(toNotify') \in Subs
        /\ \A g \in Handles, d \in Characteristics : SubsOf(toNotify')[g][d] = Asked(toNotify'[d], g)
    BY <2>8, SubsOfType
  <2>10. \A g \in Handles, d \in Characteristics : SubsOf(toNotify)[g][d] = Asked(toNotify[d], g)
    BY <1>7, SubsOfType
  <2>11. /\ subs \in Subs
         /\ \A g \in Handles, d \in Characteristics :
               subs[g][d] = IF g = h /\ d = c THEN k ELSE SubsOf(toNotify)[g][d]
    <3> DEFINE s == SubsOf(toNotify)
    <3>1. s \in Subs
        BY <1>5
    <3> HIDE DEF s
    <3>2. subs = [s EXCEPT ![h][c] = k]
        BY DEF s
    <3> HIDE DEF subs
    <3>3. /\ subs \in Subs
          /\ \A g \in Handles, d \in Characteristics : subs[g][d] = IF g = h /\ d = c THEN k ELSE s[g][d]
        BY <2>1, <3>1, <3>2 DEF Subs
    <3>4. QED
        BY <3>3 DEF s
  <2> HIDE DEF subs
  <2>12. ASSUME NEW g \in Handles, NEW d \in Characteristics PROVE SubsOf(toNotify')[g][d] = subs[g][d]
    <3>1. CASE d = c
        BY <2>6, <2>7, <2>9, <2>10, <2>11, <3>1 DEF Becomes
    <3>2. CASE d # c
        BY <2>7, <2>9, <2>10, <2>11, <3>2
    <3>3. QED
        BY <3>1, <3>2
  <2>13. SubsOf(toNotify') = subs
    BY <2>9, <2>11, <2>12, SameSubs
  <2>14. QED
    BY <1>5, <1>7, <2>2, <2>3, <2>8, <2>13
<1>11. ASSUME e.type = "write" PROVE Handled
  <2>1. unreported # <<>> /\ Head(unreported) = e /\ z = Picture(x.clients, x.subs, Tail(unreported))
    BY <1>3, <1>5, <1>11 DEF Follows
  <2>2. UNCHANGED <<clients, toNotify>> /\ HandleWrite(e)
    BY <1>1, <1>11
  <2>3. unreported' = Tail(unreported)
    BY <2>1, <2>2 DEF HandleWrite, Reported
  <2>4. unreported' \in Seq(Writes)
    BY <1>7, <2>1, <2>3, HeadTailProperties
  <2>5. QED
    BY <1>5, <1>7, <2>1, <2>2, <2>3, <2>4
<1>12. Handled
    BY <1>1, <1>8, <1>9, <1>10, <1>11
<1>13. KnownTypes'
    BY <1>1, <1>4, <1>7, <1>12 DEF KnownTypes
<1>14. LoopPicture' = z
    BY <1>12 DEF LoopPicture
<1>15. QED
    BY <1>3, <1>6, <1>13, <1>14 DEF KnownInv

LEMMA InitCurrent == ASSUME Init PROVE CurrentInv
<1>1. LinkInv
    BY InitLink
<1>2. /\ queue = <<>> /\ clients = <<>> /\ unreported = <<>> /\ writing = NoWrite
      /\ toNotify = [c \in Characteristics |-> <<>>]
      /\ link = [h \in Handles |-> "off"] /\ subscribed = [h \in Handles |-> Nothing]
    BY DEF Init
<1>3. \A c \in Characteristics : toNotify[c] = <<>> /\ OneEach(toNotify[c]) /\ toNotify[c] \in Seq(Entries)
    BY <1>2 DEF OneEach
<1>4. toNotify \in [Characteristics -> Seq(Entries)]
    BY <1>2, <1>3
<1>5. KnownTypes
    BY <1>2, <1>3, <1>4 DEF KnownTypes
<1>6. ToSet(clients) = {} /\ ServerLinks = {} /\ Unqueued = <<>>
    BY <1>2 DEF ToSet, ServerLinks, Unqueued
<1>7. SubsOf(toNotify) = subscribed
  <2>1. /\ SubsOf(toNotify) \in Subs
        /\ \A h \in Handles, c \in Characteristics : SubsOf(toNotify)[h][c] = Asked(toNotify[c], h)
    BY <1>3, <1>4, SubsOfType
  <2>2. \A h \in Handles, c \in Characteristics : Asked(toNotify[c], h) = "no"
    BY <1>3 DEF Asked
  <2>3. subscribed \in Subs /\ \A h \in Handles, c \in Characteristics : subscribed[h][c] = "no"
    BY <1>2, NothingIs DEF Subs
  <2>4. QED
    BY <2>1, <2>2, <2>3, SameSubs
<1>8. LoopPicture = HostPicture /\ LoopPicture \in Pictures
    BY <1>1, <1>2, <1>5, <1>6, <1>7, PicturesAre DEF LoopPicture, HostPicture, LinkInv
<1>9. QED
    BY <1>1, <1>2, <1>5, <1>8, ReplaysNothing DEF CurrentInv, KnownInv

LEMMA CurrentStep ==
    ASSUME CurrentInv, [Next]_vars
    PROVE  CurrentInv'
<1>1. LinkInv /\ LinkInv'
    BY LinkStep DEF CurrentInv
<1> SUFFICES ASSUME ~lost' PROVE KnownInv'
    BY <1>1 DEF CurrentInv
<1>2. CASE \/ Boot \/ LinkFails \/ HostSynced \/ UNCHANGED vars
           \/ (\E a \in Attributes : \E data \in Values : SetValue(a, data))
  <2>1. UNCHANGED <<lost, clients, toNotify, unreported, queue, writing, link, subscribed>>
    BY <1>2 DEF Boot, SetupBle, SetupServer, EnableAction, DisableAction, LinkFails, HostSynced, SetValue,
                vars, hostVars, loopVars, valueVars
  <2>2. ServerLinks' = ServerLinks
    BY <2>1 DEF ServerLinks
  <2>3. QED
    BY <2>1, <2>2, SameKnown DEF CurrentInv
<1>3. \A es : Push(es) => ~lost
    BY DEF Push
<1>4. ASSUME NEW h \in Handles, Gap(h) PROVE KnownInv'
  <2>1. CASE LinkForms(h)
    <3>1. ~lost
        BY <1>3, <2>1 DEF LinkForms
    <3>2. QED
        BY <1>1, <2>1, <3>1, FormsKnown DEF CurrentInv
  <2>2. CASE LinkEnds(h)
    <3>1. ~lost
        BY <1>3, <2>2 DEF LinkEnds
    <3>2. QED
        BY <1>1, <2>2, <3>1, EndsKnown DEF CurrentInv
  <2>3. ASSUME NEW c \in Characteristics, NEW k \in Kinds, Subscribe(h, c, k) PROVE KnownInv'
    <3>1. ~lost
        BY <1>3, <2>3 DEF Subscribe
    <3>2. QED
        BY <1>1, <2>3, <3>1, SubscribesKnown DEF CurrentInv
  <2>4. QED
    BY <1>4, <2>1, <2>2, <2>3 DEF Gap, Kinds
<1>5. ASSUME NEW h \in Handles, NEW a \in Attributes, NEW data \in Values, Write(h, a, data) PROVE KnownInv'
  <2>1. ~lost
    BY <1>5 DEF Write
  <2>2. QED
    BY <1>1, <1>5, <2>1, WritesKnown DEF CurrentInv
<1>6. CASE HostReset
  <2>1. ~lost
    BY <1>3, <1>6 DEF HostReset
  <2>2. QED
    BY <1>1, <1>6, <2>1, ResetsKnown DEF CurrentInv
<1>7. CASE QueueWrite
  <2>1. ~lost
    BY <1>3, <1>7 DEF QueueWrite
  <2>2. QED
    BY <1>1, <1>7, <2>1, QueuesKnown DEF CurrentInv
<1>8. CASE HandleEvent
  <2>1. ~lost
    BY <1>8 DEF HandleEvent
  <2>2. QED
    BY <1>1, <1>8, <2>1, HandleKnown DEF CurrentInv
<1>9. QED
    BY <1>2, <1>4, <1>5, <1>6, <1>7, <1>8 DEF Next, Host, Access, MainLoop

LEMMA CurrentHolds == Spec => []CurrentInv
BY InitCurrent, CurrentStep, PTL DEF Spec

\* A list that says what a subscription of a characteristic is says who has one, and
\* as often as there are subscribers.
LEMMA ListIsSubscribers ==
    ASSUME NEW s \in Seq(Entries), OneEach(s), NEW asked \in [Handles -> Kinds],
           \A h \in Handles : Asked(s, h) = asked[h],
           NEW S, S = {h \in Handles : asked[h] # "no"}
    PROVE  ToSet(s) = {[handle |-> h, kind |-> asked[h]] : h \in S} /\ Len(s) = Cardinality(S)
<1>1. /\ Len(s) \in Nat /\ DOMAIN s = 1 .. Len(s)
      /\ \A i \in 1 .. Len(s) : s[i] \in Entries
    BY LenProperties, ElementOfSeq
<1>2. \A h \in Handles :
         /\ \A i \in 1 .. Len(s) : s[i].handle = h => asked[h] = s[i].kind
         /\ asked[h] # "no" => \E i \in 1 .. Len(s) : s[i] = [handle |-> h, kind |-> asked[h]]
    BY AskedIs
<1>3. \A i \in 1 .. Len(s) : /\ s[i].handle \in S
                             /\ s[i] = [handle |-> s[i].handle, kind |-> asked[s[i].handle]]
  <2>1. ASSUME NEW i \in 1 .. Len(s)
        PROVE  s[i].handle \in S /\ s[i] = [handle |-> s[i].handle, kind |-> asked[s[i].handle]]
    <3>1. /\ s[i].handle \in Handles /\ s[i].kind \in {"notify", "indicate"}
          /\ s[i] = [handle |-> s[i].handle, kind |-> s[i].kind]
        BY <1>1 DEF Entries
    <3>2. asked[s[i].handle] = s[i].kind
        BY <1>2, <3>1
    <3>3. QED
        BY <3>1, <3>2
  <2>2. QED
    BY <2>1
<1>4. \A h \in S : \E i \in 1 .. Len(s) : s[i] = [handle |-> h, kind |-> asked[h]]
    BY <1>2
<1>5. ToSet(s) = {[handle |-> h, kind |-> asked[h]] : h \in S}
    BY <1>1, <1>3, <1>4 DEF ToSet
<1> DEFINE f == [i \in 1 .. Len(s) |-> s[i].handle]
<1>6. f \in [1 .. Len(s) -> S]
    BY <1>3
<1>7. \A i, j \in 1 .. Len(s) : f[i] = f[j] => i = j
    BY DEF OneEach
<1>8. \A h \in S : \E i \in 1 .. Len(s) : f[i] = h
  <2>1. ASSUME NEW h \in S PROVE \E i \in 1 .. Len(s) : f[i] = h
    <3>1. PICK i \in 1 .. Len(s) : s[i] = [handle |-> h, kind |-> asked[h]]
        BY <1>4
    <3>2. f[i] = s[i].handle /\ s[i].handle = h
        BY <3>1
    <3>3. QED
        BY <3>2
  <2>2. QED
    BY <2>1
<1> HIDE DEF f
<1>9. f \in Bijection(1 .. Len(s), S)
    BY <1>6, <1>7, <1>8, Fun_IsBij
<1>10. ExistsBijection(1 .. Len(s), S)
    BY <1>9 DEF ExistsBijection
<1>11. QED
    BY <1>1, <1>5, <1>10, FS_CountingElements

\* ServerIsCurrent: with nothing left in the queue and nothing lost on its way, what the
\* main loop knows of clients, subscriptions and writes is what the host knows, and
\* each write was reported as it was made, in order (ble_server.cpp loop(),
\* ble_characteristic.cpp), for any number of handles and a queue of any size.
THEOREM ServerStaysCurrent == Spec => []ServerIsCurrent
<1>1. ASSUME CurrentInv PROVE ServerIsCurrent
  <2> SUFFICES ASSUME queue = <<>>, writing = NoWrite, ~lost
               PROVE  /\ ToSet(clients) = ServerLinks /\ Len(clients) = Cardinality(ServerLinks)
                      /\ \A c \in Characteristics :
                            LET subscribers == {h \in Handles : subscribed[h][c] # "no"}
                            IN  /\ ToSet(toNotify[c]) = {[handle |-> h, kind |-> subscribed[h][c]] : h \in subscribers}
                                /\ Len(toNotify[c]) = Cardinality(subscribers)
                      /\ unreported = <<>>
    BY DEF ServerIsCurrent
  <2>1. LinkInv /\ KnownTypes /\ Replays(<<>>, LoopPicture, HostPicture)
    BY <1>1 DEF CurrentInv, KnownInv
  <2>2. LoopPicture = HostPicture
    BY <2>1, ReplayedNothing
  <2>3. ToSet(clients) = ServerLinks /\ SubsOf(toNotify) = subscribed /\ unreported = Unqueued
    BY <2>2, PictureIs DEF LoopPicture, HostPicture
  <2>4. Len(clients) = Cardinality(ServerLinks)
    <3>1. CASE clients = <<>>
        <4>1. ServerLinks = {} /\ Len(clients) = 0
            BY <2>3, <3>1 DEF ToSet
        <4>2. QED
            BY <4>1, FS_EmptySet
    <3>2. CASE \E h \in Handles : clients = <<h>>
        <4>1. PICK h \in Handles : clients = <<h>>
            BY <3>2
        <4>2. ServerLinks = {h} /\ Len(clients) = 1
            BY <2>3, <4>1 DEF ToSet
        <4>3. QED
            BY <4>2, FS_Singleton
    <3>3. QED
        BY <2>1, <3>1, <3>2 DEF KnownTypes
  <2>5. ASSUME NEW c \in Characteristics
        PROVE  LET subscribers == {h \in Handles : subscribed[h][c] # "no"}
               IN  /\ ToSet(toNotify[c]) = {[handle |-> h, kind |-> subscribed[h][c]] : h \in subscribers}
                   /\ Len(toNotify[c]) = Cardinality(subscribers)
    <3> DEFINE s == toNotify[c]
               asked == [h \in Handles |-> subscribed[h][c]]
               S == {h \in Handles : asked[h] # "no"}
    <3>1. s \in Seq(Entries) /\ OneEach(s)
        BY <2>1 DEF KnownTypes
    <3>2. \A h \in Handles : Asked(s, h) = asked[h]
        BY <2>1, <2>3, SubsOfType DEF KnownTypes
    <3>3. asked \in [Handles -> Kinds]
        BY <2>1 DEF LinkInv, LinkTypes
    <3>4. \A h \in Handles : asked[h] = subscribed[h][c]
        OBVIOUS
    <3> HIDE DEF s, asked
    <3>5. ToSet(s) = {[handle |-> h, kind |-> asked[h]] : h \in S} /\ Len(s) = Cardinality(S)
        BY <3>1, <3>2, <3>3, ListIsSubscribers
    <3>6. /\ S = {h \in Handles : subscribed[h][c] # "no"}
          /\ {[handle |-> h, kind |-> asked[h]] : h \in S} = {[handle |-> h, kind |-> subscribed[h][c]] : h \in S}
        BY <3>4
    <3> HIDE DEF S
    <3>7. QED
        BY <3>5, <3>6 DEF s
  <2>6. unreported = <<>>
    BY <2>3 DEF Unqueued
  <2>7. QED
    BY <2>3, <2>4, <2>5, <2>6
<1>2. QED
    BY <1>1, CurrentHolds, PTL
=============================================================================
