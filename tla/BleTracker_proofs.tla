-------------------------- MODULE BleTracker_proofs --------------------------
(***************************************************************************)
(* Proofs about BleTracker, for any number of devices and advertisements,  *)
(* any size of the queue and of the merger's table, and any depth of calls *)
(* from listeners.                                                         *)
(*                                                                         *)
(* The agenda is a call stack: a step takes its first entry and puts what  *)
(* that entry calls in its place.  So what is said of it is said of the    *)
(* entries put there and of the rest.                                      *)
(***************************************************************************)
EXTENDS BleTracker, FiniteSetTheorems, TLAPS

-----------------------------------------------------------------------------
(* The agenda.                                                             *)

Has(s, what) == \E i \in 1 .. Len(s) : s[i].what = what

\* The advertisements that wait for their listeners' return to be held.
KeptIn(s) == {s[i].adv : i \in {j \in 1 .. Len(s) : s[j].what = "keep"}}

\* What one call puts in its own place.
Calls == {<<>>, <<Op("listeners")>>, <<Op("stop")>>, <<Op("start")>>, EndOfScan}

\* The thread goes on with calls and then with rest.
GoesOn(calls, rest) ==
    /\ calls \in Calls /\ agenda' = calls \o rest
    /\ agenda # <<>> /\ rest \in {agenda, Tail(agenda)}

LEMMA TailOf ==
    ASSUME NEW S, NEW s \in Seq(S), s # <<>>
    PROVE  /\ Tail(s) \in Seq(S) /\ Len(Tail(s)) = Len(s) - 1 /\ Len(s) \in Nat \ {0}
           /\ Head(s) = s[1] /\ Head(s) \in S
           /\ \A i \in 1 .. Len(Tail(s)) : i + 1 \in 1 .. Len(s) /\ Tail(s)[i] = s[i + 1]
OBVIOUS

LEMMA JoinOf ==
    ASSUME NEW S, NEW f \in Seq(S), NEW t \in Seq(S)
    PROVE  /\ f \o t \in Seq(S) /\ Len(f \o t) = Len(f) + Len(t)
           /\ \A i \in 1 .. Len(f) : i \in 1 .. Len(f \o t) /\ (f \o t)[i] = f[i]
           /\ \A i \in 1 .. Len(t) : Len(f) + i \in 1 .. Len(f \o t) /\ (f \o t)[Len(f) + i] = t[i]
           /\ \A i \in 1 .. Len(f \o t) :
                 \/ i \in 1 .. Len(f)
                 \/ i - Len(f) \in 1 .. Len(t) /\ (f \o t)[i] = t[i - Len(f)]
OBVIOUS

LEMMA AppendOf ==
    ASSUME NEW S, NEW s \in Seq(S), NEW x \in S
    PROVE  /\ Append(s, x) \in Seq(S) /\ Len(Append(s, x)) = Len(s) + 1 /\ Len(s) \in Nat
           /\ \A i \in 1 .. Len(s) : i \in 1 .. Len(Append(s, x)) /\ Append(s, x)[i] = s[i]
           /\ Append(s, x)[Len(s) + 1] = x
           /\ \A i \in 1 .. Len(Append(s, x)) : i \in 1 .. Len(s) \/ i = Len(s) + 1
OBVIOUS

LEMMA HasJoin ==
    ASSUME NEW f \in Seq(Ops), NEW t \in Seq(Ops), NEW what
    PROVE  Has(f \o t, what) <=> Has(f, what) \/ Has(t, what)
<1>1. ASSUME Has(f \o t, what) PROVE Has(f, what) \/ Has(t, what)
    BY <1>1, JoinOf DEF Has
<1>2. ASSUME Has(f, what) \/ Has(t, what) PROVE Has(f \o t, what)
    BY <1>2, JoinOf DEF Has
<1>3. QED
    BY <1>1, <1>2

LEMMA KeptJoin ==
    ASSUME NEW f \in Seq(Ops), NEW t \in Seq(Ops)
    PROVE  KeptIn(f \o t) = KeptIn(f) \cup KeptIn(t)
<1>1. ASSUME NEW adv \in KeptIn(f \o t) PROVE adv \in KeptIn(f) \cup KeptIn(t)
    BY <1>1, JoinOf DEF KeptIn
<1>2. ASSUME NEW adv \in KeptIn(f) PROVE adv \in KeptIn(f \o t)
  <2>1. PICK i \in 1 .. Len(f) : f[i].what = "keep" /\ adv = f[i].adv
    BY <1>2 DEF KeptIn
  <2>2. i \in 1 .. Len(f \o t) /\ (f \o t)[i] = f[i]
    BY JoinOf
  <2>3. QED
    BY <2>1, <2>2 DEF KeptIn
<1>3. ASSUME NEW adv \in KeptIn(t) PROVE adv \in KeptIn(f \o t)
  <2>1. PICK i \in 1 .. Len(t) : t[i].what = "keep" /\ adv = t[i].adv
    BY <1>3 DEF KeptIn
  <2>2. Len(f) + i \in 1 .. Len(f \o t) /\ (f \o t)[Len(f) + i] = t[i]
    BY JoinOf
  <2>3. QED
    BY <2>1, <2>2 DEF KeptIn
<1>4. QED
    BY <1>1, <1>2, <1>3

LEMMA HasTail ==
    ASSUME NEW s \in Seq(Ops), s # <<>>, NEW what
    PROVE  Has(s, what) <=> Head(s).what = what \/ Has(Tail(s), what)
<1>1. ASSUME NEW i \in 1 .. Len(s), s[i].what = what PROVE Head(s).what = what \/ Has(Tail(s), what)
  <2>1. CASE i = 1
    BY <1>1, <2>1, TailOf
  <2>2. CASE i # 1
    <3>1. i - 1 \in 1 .. Len(Tail(s)) /\ Tail(s)[i - 1] = s[i]
        BY <2>2, TailOf
    <3>2. QED
        BY <1>1, <3>1 DEF Has
  <2>3. QED
    BY <2>1, <2>2
<1>2. ASSUME Has(Tail(s), what) PROVE Has(s, what)
    BY <1>2, TailOf DEF Has
<1>3. ASSUME Head(s).what = what PROVE Has(s, what)
    BY <1>3, TailOf DEF Has
<1>4. QED
    BY <1>1, <1>2, <1>3 DEF Has

LEMMA KeptTail ==
    ASSUME NEW s \in Seq(Ops), s # <<>>
    PROVE  KeptIn(s) = (IF Head(s).what = "keep" THEN {Head(s).adv} ELSE {}) \cup KeptIn(Tail(s))
<1>1. ASSUME NEW i \in 1 .. Len(s), s[i].what = "keep"
      PROVE  s[i].adv \in (IF Head(s).what = "keep" THEN {Head(s).adv} ELSE {}) \cup KeptIn(Tail(s))
  <2>1. CASE i = 1
    BY <1>1, <2>1, TailOf
  <2>2. CASE i # 1
    <3>1. i - 1 \in 1 .. Len(Tail(s)) /\ Tail(s)[i - 1] = s[i]
        BY <2>2, TailOf
    <3>2. QED
        BY <1>1, <3>1 DEF KeptIn
  <2>3. QED
    BY <2>1, <2>2
<1>2. ASSUME NEW i \in 1 .. Len(Tail(s)), Tail(s)[i].what = "keep" PROVE Tail(s)[i].adv \in KeptIn(s)
    BY <1>2, TailOf DEF KeptIn
<1>3. ASSUME Head(s).what = "keep" PROVE Head(s).adv \in KeptIn(s)
    BY <1>3, TailOf DEF KeptIn
<1>4. QED
    BY <1>1, <1>2, <1>3 DEF KeptIn

LEMMA CallsAre ==
    ASSUME NEW f \in Calls
    PROVE  /\ f \in Seq(Ops) /\ KeptIn(f) = {} /\ ~Has(f, "keep") /\ ~Has(f, "again")
           /\ Has(f, "idle") => f = EndOfScan
           /\ Has(f, "start") => f = <<Op("start")>>
<1>1. \A w \in {"listeners", "flush", "idle", "stop", "start"} : Op(w) \in Ops /\ Op(w).what = w
    BY DEF Ops, Op
<1>2. f \in Seq(Ops) /\ \A i \in 1 .. Len(f) : f[i].what \in {"listeners", "flush", "idle", "stop", "start"}
  <2>1. CASE f = <<>>
    BY <2>1
  <2>2. ASSUME NEW w \in {"listeners", "stop", "start"}, f = <<Op(w)>>
        PROVE  f \in Seq(Ops) /\ \A i \in 1 .. Len(f) : f[i].what = w
    BY <1>1, <2>2
  <2>3. CASE f = EndOfScan
    BY <1>1, <2>3 DEF EndOfScan
  <2>4. QED
    BY <2>1, <2>2, <2>3 DEF Calls
<1>3. f # EndOfScan => \A i \in 1 .. Len(f) : f[i].what # "idle"
    BY <1>1 DEF Calls, EndOfScan
<1>4. f # <<Op("start")>> => \A i \in 1 .. Len(f) : f[i].what # "start"
    BY <1>1 DEF Calls, EndOfScan
<1>5. QED
    BY <1>2, <1>3, <1>4 DEF Has, KeptIn

\* What one call does to what is kept.
LEMMA GoingOn ==
    ASSUME agenda \in Seq(Ops), NEW calls, NEW rest, GoesOn(calls, rest)
    PROVE  /\ agenda' \in Seq(Ops) /\ calls \in Seq(Ops) /\ rest \in Seq(Ops)
           /\ KeptIn(agenda') = KeptIn(rest)
           /\ \A w : Has(agenda', w) <=> Has(calls, w) \/ Has(rest, w)
           /\ \A w : Has(rest, w) => Has(agenda, w)
           /\ Head(agenda).what # "keep" => KeptIn(agenda') = KeptIn(agenda)
<1>1. calls \in Seq(Ops) /\ KeptIn(calls) = {} /\ agenda' = calls \o rest
    BY CallsAre DEF GoesOn
<1>2. rest \in Seq(Ops) /\ rest \in {agenda, Tail(agenda)} /\ agenda # <<>>
    BY TailOf DEF GoesOn
<1>3. agenda' \in Seq(Ops) /\ KeptIn(agenda') = KeptIn(rest)
  <2>1. calls \o rest \in Seq(Ops)
    BY <1>1, <1>2
  <2>2. KeptIn(calls \o rest) = KeptIn(rest)
    <3>1. KeptIn(calls \o rest) = KeptIn(calls) \cup KeptIn(rest)
        BY <1>1, <1>2, KeptJoin
    <3>2. QED
        BY <1>1, <3>1
  <2>3. QED
    BY <1>1, <2>1, <2>2
<1>4. \A w : Has(agenda', w) <=> Has(calls, w) \/ Has(rest, w)
    BY <1>1, <1>2, HasJoin
<1>5. \A w : Has(rest, w) => Has(agenda, w)
    BY <1>2, HasTail
<1>6. Head(agenda).what # "keep" => KeptIn(rest) = KeptIn(agenda)
    BY <1>2, KeptTail
<1>7. QED
    BY <1>1, <1>2, <1>3, <1>4, <1>5, <1>6

-----------------------------------------------------------------------------
(* The kinds of step.                                                      *)

Events == Reports \cup {ScanComplete}

\* The merger is left alone; the discovery procedure may end.
Mild ==
    /\ UNCHANGED <<held, given, sent>>
    /\ queue' \in {queue, Append(queue, ScanComplete)}
    /\ awaited' \in {awaited, NothingAwaited}

\* What loop() and other callers leave on an empty agenda.
FirstCalls == {<<>>, <<Op("sweep")>>, <<Op("stop")>>, <<Op("start")>>, <<Op("stop"), Op("again")>>}

LEMMA CancelIs ==
    ASSUME CancelDiscovery \/ EndDiscovery
    PROVE  /\ queue' \in {queue, Append(queue, ScanComplete)}
           /\ awaited' \in {awaited, NothingAwaited}
           /\ scanning' \in {scanning, FALSE}
BY DEF CancelDiscovery, EndDiscovery, Push

LEMMA OpIs ==
    ASSUME NEW w PROVE Op(w).what = w
BY DEF Op

LEMMA AgendaKinds ==
    ASSUME TypeOK, Agenda
    PROVE  /\ agenda # <<>>
           /\ \/ KeepAdv /\ OutsideMerger
              \/ /\ \E adv \in held : DeliverHeld(adv)
                 /\ OutsideMerger /\ Head(agenda).what \in {"flush", "sweep"}
              \/ /\ Mild /\ Head(agenda).what # "keep"
                 /\ \E calls \in Calls : GoesOn(calls, Tail(agenda))
<1>1. agenda \in Seq(Ops)
    BY DEF TypeOK, MergerTypeOK
<1>2. ASSUME agenda # <<>>, agenda' = Tail(agenda) PROVE GoesOn(<<>>, Tail(agenda)) /\ <<>> \in Calls
  <2>1. <<>> \o Tail(agenda) = Tail(agenda)
    BY <1>1, <1>2
  <2>2. QED
    BY <1>2, <2>1 DEF GoesOn, Calls
<1>3. ASSUME agenda # <<>>, NEW calls \in Calls, agenda' = calls \o Tail(agenda)
      PROVE  \E c \in Calls : GoesOn(c, Tail(agenda))
    BY <1>3 DEF GoesOn
<1>4. CASE BecomeIdle
  <2>1. Mild
    BY <1>4 DEF BecomeIdle, Mild, hostVars
  <2>2. QED
    BY <1>2, <1>4, <2>1 DEF BecomeIdle, Doing
<1>5. CASE Stop
  <2>1. Mild
    BY <1>5, CancelIs DEF Stop, Mild
  <2>2. EndOfScan \in Calls
    BY DEF Calls
  <2>3. QED
    BY <1>2, <1>3, <1>5, <2>1, <2>2 DEF Stop, Doing
<1>6. CASE Start
  <2>1. Mild
    BY <1>6 DEF Start, Mild
  <2>2. QED
    BY <1>2, <1>6, <2>1 DEF Start, Doing
<1>7. CASE Again
  <2>1. Mild
    BY <1>7 DEF Again, Mild, hostVars
  <2>2. QED
    BY <1>2, <1>7, <2>1 DEF Again, Doing
<1>8. CASE Listeners
  <2>1. Mild
    BY <1>8 DEF Listeners, Mild, hostVars
  <2>2. <<Op("stop")>> \in Calls /\ <<Op("start")>> \in Calls
    BY DEF Calls
  <2>3. QED
    BY <1>2, <1>3, <1>8, <2>1, <2>2 DEF Listeners, Doing
<1>9. CASE KeepAdv /\ OutsideMerger
    BY <1>9 DEF KeepAdv, Doing
<1>10. CASE (Sweep \/ Flush) /\ OutsideMerger
  <2>1. agenda # <<>> /\ Head(agenda).what \in {"flush", "sweep"}
    BY <1>10 DEF Sweep, Flush, Doing
  <2>2. CASE \E adv \in held : DeliverHeld(adv)
    BY <1>10, <2>1, <2>2
  <2>3. CASE agenda' = Tail(agenda) /\ UNCHANGED <<held, given>>
    <3>1. Mild
        BY <1>10, <2>3 DEF OutsideMerger, Mild, hostVars
    <3>2. QED
        BY <1>2, <2>1, <2>3, <3>1
  <2>4. QED
    BY <1>10, <2>2, <2>3 DEF Sweep, Flush
<1>11. QED
    BY <1>4, <1>5, <1>6, <1>7, <1>8, <1>9, <1>10 DEF Agenda

LEMMA Kinds ==
    ASSUME TypeOK, [Next]_vars
    PROVE  \/ \E d \in Devices : (Advertise(d) \/ Respond(d)) /\ UNCHANGED mergerVars
           \/ Pop
           \/ Agenda
           \/ Mild /\ UNCHANGED agenda
           \/ Mild /\ agenda = <<>> /\ agenda' \in FirstCalls
<1>1. CASE HostStep
    BY <1>1, CancelIs DEF HostStep, ScanTimesOut, ConnectEnds, Mild, mergerVars
<1>2. CASE DrainEnds
    BY <1>2 DEF DrainEnds, At, Mild, FirstCalls, hostVars
<1>3. CASE Restart \/ LoopBegins
    BY <1>3 DEF Restart, LoopBegins, Mild, mergerVars, hostVars
<1>4. CASE UserCalls
    BY <1>4 DEF UserCalls, At, Mild, FirstCalls, hostVars
<1>5. CASE EngineConnects
    BY <1>5, CancelIs DEF EngineConnects, Mild, mergerVars
<1>6. CASE UNCHANGED vars
    BY <1>6 DEF vars, mergerVars, hostVars, Mild
<1>7. QED
    BY <1>1, <1>2, <1>3, <1>4, <1>5, <1>6 DEF Next, MainStep

-----------------------------------------------------------------------------
(* Types, and the merger's slots: the entry that stashAdv() uses again is  *)
(* free until the listeners return, whatever they call.                    *)

KeepIsLast == \A i \in 1 .. Len(agenda) : agenda[i].what = "keep" => i = Len(agenda)

SlotInv ==
    /\ KeepIsLast
    /\ IsFiniteSet(held)
    /\ KeptIn(agenda) # {} => Cardinality(held) < MaxPendingAdv

Base == TypeOK /\ SlotInv

LEMMA TypesAre ==
    ASSUME TypeOK
    PROVE  /\ held \subseteq Adverts
           /\ given \in [AdvertIds -> Seq(0 .. MaxAdverts)]
           /\ agenda \in Seq(Ops)
           /\ queue \in Seq(Events) /\ Len(queue) <= AdvQueueCapacity
           /\ awaited \in [Devices -> 0 .. MaxAdverts]
           /\ sent \in 0 .. MaxAdverts /\ MaxAdverts \in Nat /\ AdvQueueCapacity \in Nat \ {0}
BY TrackerAssumption, MergerAssumption DEF TypeOK, MergerTypeOK, Events

LEMMA Pushes ==
    ASSUME TypeOK, NEW ev \in Events, Push(ev)
    PROVE  /\ queue' \in {queue, Append(queue, ev)}
           /\ queue' \in Seq(Events) /\ Len(queue') <= AdvQueueCapacity
<1>1. Reserved(ev) \in {0, 1} /\ Len(queue) \in Nat
    BY TypesAre DEF Reserved
<1>2. QED
    BY <1>1, TypesAre, AppendOf DEF Push, HasRoom

\* The types of what the merger does not keep.
LEMMA OtherTypes ==
    ASSUME TypeOK, [Next]_vars
    PROVE  /\ queue' \in Seq(Events) /\ Len(queue') <= AdvQueueCapacity
           /\ scanner' \in {"IDLE", "RUNNING"} /\ continuous' \in BOOLEAN
           /\ main' \in {"idle", "drain", "restart"}
           /\ scanning' \in BOOLEAN /\ connecting' \in BOOLEAN
           /\ sent' \in 0 .. MaxAdverts /\ awaited' \in [Devices -> 0 .. MaxAdverts]
<1> DEFINE Typed ==
             /\ queue' \in Seq(Events) /\ Len(queue') <= AdvQueueCapacity
             /\ scanner' \in {"IDLE", "RUNNING"} /\ continuous' \in BOOLEAN
             /\ main' \in {"idle", "drain", "restart"}
             /\ scanning' \in BOOLEAN /\ connecting' \in BOOLEAN
             /\ sent' \in 0 .. MaxAdverts /\ awaited' \in [Devices -> 0 .. MaxAdverts]
<1>1. /\ queue \in Seq(Events) /\ Len(queue) <= AdvQueueCapacity
      /\ scanner \in {"IDLE", "RUNNING"} /\ continuous \in BOOLEAN
      /\ main \in {"idle", "drain", "restart"}
      /\ scanning \in BOOLEAN /\ connecting \in BOOLEAN
      /\ sent \in 0 .. MaxAdverts /\ awaited \in [Devices -> 0 .. MaxAdverts]
      /\ MaxAdverts \in Nat /\ NothingAwaited \in [Devices -> 0 .. MaxAdverts]
    BY TypesAre DEF TypeOK, NothingAwaited
<1>2. ASSUME CancelDiscovery \/ EndDiscovery
      PROVE  /\ queue' \in Seq(Events) /\ Len(queue') <= AdvQueueCapacity
             /\ scanning' \in BOOLEAN /\ awaited' \in [Devices -> 0 .. MaxAdverts]
  <2>1. ScanComplete \in Events
    BY DEF Events
  <2>2. QED
    BY <1>1, <1>2, <2>1, Pushes DEF CancelDiscovery, EndDiscovery
<1>3. ASSUME NEW d \in Devices, Advertise(d), UNCHANGED <<mergerVars, trackerVars>> PROVE Typed
  <2>1. sent + 1 \in AdvertIds
    BY <1>1, <1>3 DEF Advertise, AdvertIds
  <2>2. PICK type \in {"STASH_ADV", "DIRECT"} :
           /\ Push([type |-> type, id |-> sent + 1, device |-> d])
           /\ awaited' = [awaited EXCEPT ![d] = IF type = "DIRECT" THEN 0 ELSE sent + 1]
    BY <1>3 DEF Advertise
  <2>3. [type |-> type, id |-> sent + 1, device |-> d] \in Events
    BY <2>1 DEF Events, Reports
  <2>4. queue' \in Seq(Events) /\ Len(queue') <= AdvQueueCapacity
    <3>1. PICK ev \in Events : Push(ev)
        BY <2>2, <2>3
    <3>2. QED
        BY <3>1, Pushes
  <2>5. awaited' \in [Devices -> 0 .. MaxAdverts] /\ sent' \in 0 .. MaxAdverts
    BY <1>1, <1>3, <2>1, <2>2 DEF Advertise, AdvertIds
  <2>6. QED
    BY <1>1, <1>3, <2>4, <2>5 DEF Advertise, trackerVars
<1>4. ASSUME NEW d \in Devices, Respond(d), UNCHANGED <<mergerVars, trackerVars>> PROVE Typed
  <2>1. [type |-> "SCAN_RSP", id |-> awaited[d], device |-> d] \in Events
    BY <1>1, <1>4 DEF Respond, Events, Reports, AdvertIds
  <2>2. queue' \in Seq(Events) /\ Len(queue') <= AdvQueueCapacity
    BY <1>4, <2>1, Pushes DEF Respond
  <2>3. QED
    BY <1>1, <1>4, <2>2 DEF Respond, trackerVars
<1>5. CASE HostStep
    BY <1>1, <1>2, <1>3, <1>4, <1>5 DEF HostStep, ScanTimesOut, ConnectEnds, trackerVars
<1>6. CASE Agenda
    BY <1>1, <1>2, <1>6 DEF Agenda, BecomeIdle, Stop, Start, StartScan, Again, Listeners,
       OutsideMerger, hostVars, trackerVars
<1>7. CASE Pop
  <2>1. queue # <<>> /\ queue' = Tail(queue) /\ UNCHANGED <<trackerVars, hostVars>>
    BY <1>7 DEF Pop
  <2>2. queue' \in Seq(Events) /\ Len(queue') <= AdvQueueCapacity
    <3>1. Len(queue) \in Nat /\ AdvQueueCapacity \in Nat
        BY <1>1, TypesAre
    <3>2. QED
        BY <1>1, <2>1, <3>1, TailOf
  <2>3. QED
    BY <1>1, <2>1, <2>2 DEF trackerVars, hostVars
<1>8. CASE DrainEnds \/ Restart \/ LoopBegins \/ UserCalls \/ EngineConnects
    BY <1>1, <1>2, <1>8 DEF DrainEnds, Restart, StartScan, LoopBegins, UserCalls, EngineConnects,
       hostVars, trackerVars
<1>9. CASE UNCHANGED vars
    BY <1>1, <1>9 DEF vars, hostVars, trackerVars
<1>10. QED
    BY <1>5, <1>6, <1>7, <1>8, <1>9 DEF Next, MainStep

IsAdvert(ev) == ev.type \in {"STASH_ADV", "DIRECT"}

AdvertOf(ev) == [id |-> ev.id, device |-> ev.device]

\* loop() takes an event from the queue.
LEMMA PopIs ==
    ASSUME TypeOK, Pop, NEW ev, ev = Head(queue)
    PROVE  /\ agenda = <<>> /\ main = "drain" /\ queue # <<>> /\ queue' = Tail(queue)
           /\ ev \in Events /\ UNCHANGED <<sent, awaited, trackerVars, scanning>>
           /\ IsAdvert(ev) => AdvertOf(ev) \in Adverts
           /\ AdvertOf(ev).id = ev.id /\ AdvertOf(ev).device = ev.device
           /\ ev.type = "SCAN_RSP" => SubmitScanRsp(AdvertOf(ev))
           /\ ev.type = "STASH_ADV" => StashAdv(AdvertOf(ev))
           /\ ev.type = "DIRECT" => Deliver(AdvertOf(ev), NoResponse, <<>>) /\ UNCHANGED held
           /\ ev.type \notin {"SCAN_RSP", "STASH_ADV", "DIRECT"} =>
                 ev = ScanComplete /\ agenda' = EndOfScan /\ UNCHANGED <<held, given>>
<1>1. /\ agenda = <<>> /\ main = "drain" /\ queue # <<>> /\ queue' = Tail(queue)
      /\ UNCHANGED <<sent, awaited, trackerVars, scanning>>
    BY DEF Pop, At, hostVars
<1>2. /\ ev.type = "SCAN_RSP" => SubmitScanRsp(AdvertOf(ev))
      /\ ev.type = "STASH_ADV" => StashAdv(AdvertOf(ev))
      /\ ev.type = "DIRECT" => Deliver(AdvertOf(ev), NoResponse, <<>>) /\ UNCHANGED held
      /\ ev.type \notin {"SCAN_RSP", "STASH_ADV", "DIRECT"} =>
            agenda' = EndOfScan /\ UNCHANGED <<held, given>>
    BY DEF Pop, AdvertOf
<1>3. ev \in Events
    BY <1>1, TypesAre, TailOf
<1>4. IsAdvert(ev) => AdvertOf(ev) \in Adverts
    BY <1>3 DEF IsAdvert, AdvertOf, Adverts, Events, Reports, ScanComplete
<1>5. ev.type \notin {"SCAN_RSP", "STASH_ADV", "DIRECT"} => ev = ScanComplete
    BY <1>3 DEF Events, Reports
<1>6. AdvertOf(ev).id = ev.id /\ AdvertOf(ev).device = ev.device
    BY DEF AdvertOf
<1>7. QED
    BY <1>1, <1>2, <1>3, <1>4, <1>5, <1>6

\* What is held when a delivery is done with one advertisement.
Releases(adv, response) ==
    /\ adv \in held /\ held' = held \ {adv}
    /\ given' = [given EXCEPT ![adv.id] = Append(@, response)]

\* An advertisement is given to the listeners and never held.
GivesAtOnce(id) ==
    /\ held' = held
    /\ given' = [given EXCEPT ![id] = Append(@, NoResponse)]
    /\ agenda' = <<Op("listeners")>>

LEMMA NoRest == <<Op("listeners")>> \o <<>> = <<Op("listeners")>>
OBVIOUS

LEMMA PopsResponse ==
    ASSUME TypeOK, Pop, NEW ev, ev = Head(queue), ev.type = "SCAN_RSP"
    PROVE  \/ /\ \E adv \in held : adv.device = ev.device /\ Releases(adv, ev.id)
              /\ agenda' = <<Op("listeners")>>
           \/ UNCHANGED <<held, given, agenda>>
<1>1. SubmitScanRsp(AdvertOf(ev)) /\ AdvertOf(ev).id = ev.id /\ AdvertOf(ev).device = ev.device
    BY PopIs
<1>2. QED
    BY <1>1, NoRest DEF SubmitScanRsp, HeldFor, Deliver, Releases, mergerVars

LEMMA PopsStash ==
    ASSUME TypeOK, Pop, NEW ev, ev = Head(queue), ev.type = "STASH_ADV"
    PROVE  \/ /\ \E adv \in held : adv.device = ev.device /\ Releases(adv, NoResponse)
              /\ agenda' = <<Op("listeners")>> \o <<Keep(AdvertOf(ev))>>
           \/ /\ HasSlot /\ (\A adv \in held : adv.device # ev.device)
              /\ held' = held \cup {AdvertOf(ev)} /\ UNCHANGED <<given, agenda>>
           \/ /\ \A adv \in held : adv.device # ev.device
              /\ GivesAtOnce(ev.id)
<1>1. StashAdv(AdvertOf(ev)) /\ AdvertOf(ev).id = ev.id /\ AdvertOf(ev).device = ev.device
    BY PopIs
<1>2. QED
    BY <1>1, NoRest DEF StashAdv, Replace, HeldFor, Deliver, Releases, GivesAtOnce

LEMMA PopsDirect ==
    ASSUME TypeOK, Pop, NEW ev, ev = Head(queue), ev.type = "DIRECT"
    PROVE  GivesAtOnce(ev.id)
<1>1. Deliver(AdvertOf(ev), NoResponse, <<>>) /\ UNCHANGED held /\ AdvertOf(ev).id = ev.id
    BY PopIs
<1>2. QED
    BY <1>1, NoRest DEF Deliver, GivesAtOnce

\* Giving an advertisement to listeners keeps the types of the merger.
LEMMA GivenTypes ==
    ASSUME TypeOK, NEW i \in AdvertIds, NEW r \in 0 .. MaxAdverts,
           given' = [given EXCEPT ![i] = Append(@, r)]
    PROVE  given' \in [AdvertIds -> Seq(0 .. MaxAdverts)]
BY TypesAre, AppendOf

LEMMA HeldTypes ==
    ASSUME Base
    PROVE  /\ Cardinality(held) \in Nat /\ Cardinality(held) <= MaxPendingAdv
           /\ MaxPendingAdv \in Nat /\ IsFiniteSet(held)
           /\ \A adv \in held : /\ IsFiniteSet(held \ {adv})
                                /\ Cardinality(held \ {adv}) = Cardinality(held) - 1
           /\ \A adv : /\ IsFiniteSet(held \cup {adv})
                       /\ Cardinality(held \cup {adv}) <= Cardinality(held) + 1
                       /\ Cardinality(held \cup {adv}) \in Nat
<1>1. IsFiniteSet(held) /\ Cardinality(held) <= MaxPendingAdv /\ MaxPendingAdv \in Nat
    BY MergerAssumption DEF Base, SlotInv, TypeOK, MergerTypeOK
<1>2. Cardinality(held) \in Nat
    BY <1>1, FS_CardinalityType
<1>3. ASSUME NEW adv \in held
      PROVE  IsFiniteSet(held \ {adv}) /\ Cardinality(held \ {adv}) = Cardinality(held) - 1
    BY <1>1, FS_RemoveElement
<1>4. ASSUME NEW adv
      PROVE  /\ IsFiniteSet(held \cup {adv})
             /\ Cardinality(held \cup {adv}) <= Cardinality(held) + 1
             /\ Cardinality(held \cup {adv}) \in Nat
    BY <1>1, <1>2, FS_AddElement
<1>5. QED
    BY <1>1, <1>2, <1>3, <1>4

\* An agenda without a kept advertisement.
LEMMA NothingKept ==
    ASSUME NEW s \in Seq(Ops), ~Has(s, "keep")
    PROVE  KeptIn(s) = {} /\ \A i \in 1 .. Len(s) : s[i].what # "keep"
BY DEF Has, KeptIn

LEMMA FirstCallsAre ==
    ASSUME NEW f \in FirstCalls
    PROVE  f \in Seq(Ops) /\ ~Has(f, "keep") /\ ~Has(f, "idle") /\ (f # <<>> => ~Has(Tail(f), "start"))
<1>1. \A w \in {"sweep", "stop", "start", "again"} : Op(w) \in Ops /\ Op(w).what = w
    BY DEF Ops, Op
<1>2. CASE f = <<>>
    BY <1>2 DEF Has
<1>3. ASSUME NEW w \in {"sweep", "stop", "start"}, f = <<Op(w)>>
      PROVE  f \in Seq(Ops) /\ ~Has(f, "keep") /\ ~Has(f, "idle") /\ Tail(f) = <<>>
    BY <1>1, <1>3 DEF Has
<1>4. CASE f = <<Op("stop"), Op("again")>>
  <2>1. f \in Seq(Ops) /\ Len(f) = 2 /\ f[1] = Op("stop") /\ f[2] = Op("again")
    BY <1>1, <1>4
  <2>2. Len(Tail(f)) = 1 /\ Tail(f)[1] = Op("again")
    <3>1. f # <<>>
        BY <2>1
    <3>2. Len(Tail(f)) = 1
        BY <2>1, <3>1, TailOf
    <3>3. \A i \in 1 .. Len(Tail(f)) : Tail(f)[i] = f[i + 1]
        BY <2>1, <3>1, TailOf
    <3>4. Tail(f)[1] = f[1 + 1]
        BY <3>2, <3>3
    <3>5. QED
        BY <2>1, <3>2, <3>4
  <2>3. \A i \in 1 .. Len(f) : f[i].what \in {"stop", "again"}
    BY <1>1, <2>1
  <2>4. \A i \in 1 .. Len(Tail(f)) : Tail(f)[i].what = "again"
    BY <1>1, <2>2
  <2>5. QED
    BY <2>1, <2>3, <2>4 DEF Has
<1>5. QED
    BY <1>2, <1>3, <1>4 DEF FirstCalls, Has

LEMMA KeepIsKept ==
    ASSUME NEW adv \in Adverts, NEW s, s = <<Op("listeners")>> \o <<Keep(adv)>>
    PROVE  /\ s \in Seq(Ops) /\ KeptIn(s) = {adv}
           /\ \A i \in 1 .. Len(s) : s[i].what = "keep" => i = Len(s)
           /\ \A w \in {"idle", "start", "again"} : ~Has(s, w)
<1>1. Op("listeners") \in Ops /\ Op("listeners").what = "listeners"
    BY DEF Ops, Op
<1>2. Keep(adv) \in Ops /\ Keep(adv).what = "keep" /\ Keep(adv).adv = adv
    BY DEF Ops, Keep
<1>3. s \in Seq(Ops) /\ Len(s) = 2 /\ s[1] = Op("listeners") /\ s[2] = Keep(adv)
    BY <1>1, <1>2
<1>4. QED
    BY <1>1, <1>2, <1>3 DEF KeptIn, Has

\* A step that leaves the merger alone keeps the slots.
LEMMA SlotsGoOn ==
    ASSUME Base, NEW calls, NEW rest, GoesOn(calls, rest), Head(agenda).what # "keep",
           held' = held \/ \E adv \in held : held' = held \ {adv}
    PROVE  SlotInv'
<1>1. agenda \in Seq(Ops) /\ KeepIsLast /\ (KeptIn(agenda) # {} => Cardinality(held) < MaxPendingAdv)
    BY TypesAre DEF Base, SlotInv
<1>2. /\ KeptIn(agenda') = KeptIn(agenda) /\ calls \in Calls /\ agenda' = calls \o rest
      /\ calls \in Seq(Ops) /\ rest \in Seq(Ops) /\ rest \in {agenda, Tail(agenda)} /\ agenda # <<>>
    BY <1>1, GoingOn DEF GoesOn
<1>3. IsFiniteSet(held') /\ Cardinality(held') <= Cardinality(held)
  <2>1. Cardinality(held) \in Nat
    BY HeldTypes
  <2>2. QED
    BY <2>1, HeldTypes
<1>4. KeptIn(agenda') # {} => Cardinality(held') < MaxPendingAdv
  <2>1. Cardinality(held') \in Nat /\ Cardinality(held) \in Nat /\ MaxPendingAdv \in Nat
    BY <1>3, HeldTypes, FS_CardinalityType
  <2>2. QED
    BY <1>1, <1>2, <1>3, <2>1
<1>5. ASSUME NEW i \in 1 .. Len(agenda'), agenda'[i].what = "keep" PROVE i = Len(agenda')
  <2>1. \A j \in 1 .. Len(rest) : rest[j].what = "keep" => j = Len(rest)
    <3>1. CASE rest = agenda
        BY <1>1, <3>1 DEF KeepIsLast
    <3>2. CASE rest = Tail(agenda)
        BY <1>1, <1>2, <3>2, TailOf DEF KeepIsLast
    <3>3. QED
        BY <1>2, <3>1, <3>2
  <2>2. i \notin 1 .. Len(calls)
    <3>1. \A j \in 1 .. Len(calls) : calls[j].what # "keep"
        BY <1>2, CallsAre, NothingKept
    <3>2. \A j \in 1 .. Len(calls) : agenda'[j] = calls[j]
        BY <1>2, JoinOf
    <3>3. QED
        BY <1>5, <3>1, <3>2
  <2>3. i - Len(calls) \in 1 .. Len(rest) /\ agenda'[i] = rest[i - Len(calls)]
    BY <1>2, <1>5, <2>2, JoinOf
  <2>4. i - Len(calls) = Len(rest)
    BY <1>5, <2>1, <2>3
  <2>5. QED
    BY <1>2, <2>4, JoinOf
<1>6. QED
    BY <1>3, <1>4, <1>5 DEF SlotInv, KeepIsLast

LEMMA BaseHeldStep ==
    ASSUME Base, [Next]_vars
    PROVE  /\ held' \subseteq Adverts
           /\ given' \in [AdvertIds -> Seq(0 .. MaxAdverts)]
           /\ agenda' \in Seq(Ops)
           /\ SlotInv'
           /\ Cardinality(held') <= MaxPendingAdv
<1> DEFINE Goal == /\ held' \subseteq Adverts
                   /\ given' \in [AdvertIds -> Seq(0 .. MaxAdverts)]
                   /\ agenda' \in Seq(Ops)
                   /\ SlotInv'
                   /\ Cardinality(held') <= MaxPendingAdv
<1>1. TypeOK /\ SlotInv
    BY DEF Base
<1>2. /\ held \subseteq Adverts /\ given \in [AdvertIds -> Seq(0 .. MaxAdverts)] /\ agenda \in Seq(Ops)
      /\ Cardinality(held) \in Nat /\ MaxPendingAdv \in Nat /\ Cardinality(held) <= MaxPendingAdv
    BY <1>1, TypesAre, HeldTypes
<1>3. ASSUME UNCHANGED <<held, given, agenda>> PROVE Goal
    BY <1>1, <1>2, <1>3 DEF SlotInv, KeepIsLast
<1>4. ASSUME UNCHANGED <<held, given>>, agenda = <<>>, agenda' \in FirstCalls PROVE Goal
  <2>1. agenda' \in Seq(Ops) /\ KeptIn(agenda') = {}
        /\ \A i \in 1 .. Len(agenda') : agenda'[i].what # "keep"
    BY <1>4, FirstCallsAre, NothingKept
  <2>2. QED
    BY <1>1, <1>2, <1>4, <2>1 DEF SlotInv, KeepIsLast
<1>5. CASE KeepAdv /\ OutsideMerger
  <2>1. /\ agenda # <<>> /\ Head(agenda).what = "keep" /\ held' = held \cup {Head(agenda).adv}
        /\ agenda' = Tail(agenda) /\ given' = given
    BY <1>5 DEF KeepAdv, Doing
  <2>2. Head(agenda) \in Ops /\ Head(agenda) = agenda[1] /\ Len(agenda) \in Nat \ {0}
    BY <1>2, <2>1, TailOf
  <2>3. Head(agenda).adv \in Adverts
    BY <2>1, <2>2 DEF Ops, Op, Keep
  <2>4. Len(agenda) = 1
    <3>1. 1 \in 1 .. Len(agenda) /\ agenda[1].what = "keep"
        BY <2>1, <2>2
    <3>2. KeepIsLast
        BY <1>1 DEF SlotInv
    <3>3. QED
        BY <3>1, <3>2 DEF KeepIsLast
  <2>5. agenda' \in Seq(Ops) /\ Len(agenda') = 0
    BY <1>2, <2>1, <2>4, TailOf
  <2>6. KeptIn(agenda') = {} /\ KeepIsLast'
    BY <2>5 DEF KeptIn, KeepIsLast
  <2>7. Cardinality(held) < MaxPendingAdv
    BY <1>1, <1>2, <2>1, KeptTail DEF SlotInv
  <2>8. IsFiniteSet(held') /\ Cardinality(held') <= MaxPendingAdv
    <3> DEFINE adv == Head(agenda).adv
    <3>1. IsFiniteSet(held \cup {adv}) /\ Cardinality(held \cup {adv}) <= Cardinality(held) + 1
          /\ Cardinality(held \cup {adv}) \in Nat
        BY HeldTypes
    <3>2. QED
        BY <1>2, <2>1, <2>7, <3>1
  <2>9. QED
    BY <1>2, <2>1, <2>3, <2>5, <2>6, <2>8 DEF SlotInv
<1>6. ASSUME NEW adv \in held, DeliverHeld(adv), agenda # <<>>, Head(agenda).what \in {"flush", "sweep"}
      PROVE  Goal
  <2>1. /\ held' = held \ {adv} /\ agenda' = <<Op("listeners")>> \o agenda
        /\ given' = [given EXCEPT ![adv.id] = Append(@, NoResponse)]
    BY <1>6 DEF DeliverHeld, Deliver
  <2>2. GoesOn(<<Op("listeners")>>, agenda)
    BY <1>6, <2>1 DEF GoesOn, Calls
  <2>3. agenda' \in Seq(Ops)
    BY <1>2, <2>2, GoingOn
  <2>4. adv.id \in AdvertIds /\ NoResponse \in 0 .. MaxAdverts
    BY <1>2, MergerAssumption DEF Adverts, NoResponse
  <2>5. given' \in [AdvertIds -> Seq(0 .. MaxAdverts)]
    BY <1>1, <2>1, <2>4, GivenTypes
  <2>6. SlotInv'
    BY <1>6, <2>1, <2>2, SlotsGoOn
  <2>7. Cardinality(held') = Cardinality(held) - 1
    BY <2>1, HeldTypes
  <2>8. QED
    BY <1>2, <2>1, <2>3, <2>5, <2>6, <2>7
<1>7. ASSUME Mild, agenda # <<>>, Head(agenda).what # "keep", NEW calls \in Calls, GoesOn(calls, Tail(agenda))
      PROVE  Goal
  <2>1. held' = held /\ given' = given
    BY <1>7 DEF Mild
  <2>2. agenda' \in Seq(Ops)
    BY <1>2, <1>7, GoingOn
  <2>3. SlotInv'
    BY <1>7, <2>1, SlotsGoOn
  <2>4. QED
    BY <1>2, <2>1, <2>2, <2>3
<1>8. CASE Agenda
    BY <1>1, <1>5, <1>6, <1>7, <1>8, AgendaKinds
<1>9. CASE Pop
  <2> DEFINE ev == Head(queue)
  <2>1. /\ ev \in Events /\ agenda = <<>> /\ (IsAdvert(ev) => AdvertOf(ev) \in Adverts)
    BY <1>1, <1>9, PopIs
  <2>2. ev.type \in {"SCAN_RSP", "STASH_ADV", "DIRECT"} => ev.id \in AdvertIds
    BY <2>1 DEF Events, Reports, ScanComplete
  <2>3. NoResponse \in 0 .. MaxAdverts /\ AdvertIds \subseteq 0 .. MaxAdverts
        /\ \A adv \in held : adv.id \in AdvertIds
    BY <1>2, MergerAssumption DEF NoResponse, AdvertIds, Adverts
  <2>4. ASSUME agenda' \in {<<Op("listeners")>>, EndOfScan}
        PROVE  agenda' \in Seq(Ops) /\ KeptIn(agenda') = {} /\ KeepIsLast'
    <3>1. agenda' \in Calls
        BY <2>4 DEF Calls
    <3>2. agenda' \in Seq(Ops) /\ KeptIn(agenda') = {} /\ ~Has(agenda', "keep")
        BY <3>1, CallsAre
    <3>3. QED
        BY <3>2 DEF Has, KeepIsLast
  <2>5. ASSUME NEW adv \in held, held' = held \ {adv}
        PROVE  /\ held' \subseteq Adverts /\ IsFiniteSet(held')
               /\ Cardinality(held') < MaxPendingAdv /\ Cardinality(held') <= MaxPendingAdv
    <3>1. IsFiniteSet(held \ {adv}) /\ Cardinality(held \ {adv}) = Cardinality(held) - 1
        BY HeldTypes
    <3>2. QED
        BY <1>2, <2>5, <3>1
  <2>6. IsFiniteSet(held)
    BY HeldTypes
  <2>7. ASSUME NEW adv \in held, NEW response \in 0 .. MaxAdverts, Releases(adv, response),
               agenda' \in Seq(Ops), KeepIsLast'
        PROVE  Goal
    <3>1. given' \in [AdvertIds -> Seq(0 .. MaxAdverts)]
        BY <1>1, <2>3, <2>7, GivenTypes DEF Releases
    <3>2. QED
        BY <2>5, <2>7, <3>1 DEF Releases, SlotInv
  <2>8. ASSUME ev.type = "STASH_ADV", HasSlot, held' = held \cup {AdvertOf(ev)}, UNCHANGED <<given, agenda>>
        PROVE  Goal
    <3>1. IsFiniteSet(held') /\ Cardinality(held') <= MaxPendingAdv
        <4> DEFINE adv == AdvertOf(ev)
        <4>1. IsFiniteSet(held \cup {adv}) /\ Cardinality(held \cup {adv}) <= Cardinality(held) + 1
              /\ Cardinality(held \cup {adv}) \in Nat
            BY HeldTypes
        <4>2. Cardinality(held) < MaxPendingAdv
            BY <2>8 DEF HasSlot
        <4>3. QED
            BY <1>2, <2>8, <4>1, <4>2
    <3>2. KeptIn(agenda') = {} /\ KeepIsLast'
        BY <2>1, <2>8 DEF KeptIn, KeepIsLast
    <3>3. QED
        BY <1>2, <2>1, <2>8, <3>1, <3>2 DEF SlotInv, IsAdvert
  <2>9. ASSUME GivesAtOnce(ev.id), IsAdvert(ev)
        PROVE  Goal
    <3>1. ev.id \in AdvertIds
        BY <2>2, <2>9 DEF IsAdvert
    <3>2. given' \in [AdvertIds -> Seq(0 .. MaxAdverts)]
        BY <1>1, <2>3, <2>9, <3>1, GivenTypes DEF GivesAtOnce
    <3>3. agenda' \in Seq(Ops) /\ KeptIn(agenda') = {} /\ KeepIsLast'
        BY <2>4, <2>9 DEF GivesAtOnce
    <3>4. SlotInv'
        BY <2>6, <2>9, <3>3 DEF SlotInv, GivesAtOnce
    <3>5. held' \subseteq Adverts /\ Cardinality(held') <= MaxPendingAdv
        BY <1>2, <2>9 DEF GivesAtOnce
    <3>6. QED
        BY <3>2, <3>3, <3>4, <3>5
  <2>10. ASSUME agenda' = EndOfScan, UNCHANGED <<held, given>> PROVE Goal
    BY <1>2, <2>4, <2>6, <2>10 DEF SlotInv
  <2>11. ASSUME ev.type = "SCAN_RSP" PROVE Goal
    <3>1. CASE UNCHANGED <<held, given, agenda>>
        BY <1>3, <3>1
    <3>2. CASE ~UNCHANGED <<held, given, agenda>>
        <4>1. PICK adv \in held : Releases(adv, ev.id) /\ agenda' = <<Op("listeners")>>
            BY <1>1, <1>9, <2>11, <3>2, PopsResponse
        <4>2. QED
            BY <2>2, <2>3, <2>4, <2>7, <2>11, <4>1
    <3>3. QED
        BY <3>1, <3>2
  <2>12. ASSUME ev.type = "STASH_ADV" PROVE Goal
    <3>1. IsAdvert(ev) /\ AdvertOf(ev) \in Adverts
        BY <2>1, <2>12 DEF IsAdvert
    <3>2. ASSUME NEW adv \in held, Releases(adv, NoResponse),
                 agenda' = <<Op("listeners")>> \o <<Keep(AdvertOf(ev))>>
          PROVE  Goal
        <4>1. agenda' \in Seq(Ops) /\ KeepIsLast'
            BY <3>1, <3>2, KeepIsKept DEF KeepIsLast
        <4>2. QED
            BY <2>3, <2>7, <3>2, <4>1
    <3>3. QED
        BY <1>1, <1>9, <2>8, <2>9, <2>12, <3>1, <3>2, PopsStash
  <2>13. ASSUME ev.type = "DIRECT" PROVE Goal
    BY <1>1, <1>9, <2>9, <2>13, PopsDirect DEF IsAdvert
  <2>14. QED
    BY <1>1, <1>9, <2>10, <2>11, <2>12, <2>13, PopIs
<1>10. QED
  <2>1. ASSUME NEW d \in Devices, (Advertise(d) \/ Respond(d)) /\ UNCHANGED mergerVars PROVE Goal
    BY <1>3, <2>1 DEF mergerVars
  <2>2. CASE Mild /\ UNCHANGED agenda
    BY <1>3, <2>2 DEF Mild
  <2>3. CASE Mild /\ agenda = <<>> /\ agenda' \in FirstCalls
    BY <1>4, <2>3 DEF Mild
  <2>4. QED
    <3> HIDE DEF Goal
    <3>1. Goal
        BY <1>1, <1>8, <1>9, <2>1, <2>2, <2>3, Kinds DEF Goal
    <3>2. QED
        BY <3>1 DEF Goal

LEMMA BaseStep ==
    ASSUME Base, [Next]_vars PROVE Base'
BY BaseHeldStep, OtherTypes DEF Base, TypeOK, MergerTypeOK, Events

LEMMA BaseInit ==
    ASSUME Init PROVE Base
<1>1. Cardinality({}) = 0 /\ IsFiniteSet({}) /\ KeptIn(<<>>) = {}
    BY FS_EmptySet DEF KeptIn
<1>2. SlotInv
    BY <1>1 DEF Init, MergerInit, SlotInv, KeepIsLast
<1>3. MergerTypeOK
    BY <1>1, MergerAssumption DEF Init, MergerInit, MergerTypeOK
<1>4. awaited \in [Devices -> 0 .. MaxAdverts] /\ sent \in 0 .. MaxAdverts
    BY MergerAssumption DEF Init, NothingAwaited
<1>5. queue \in Seq(Reports \cup {ScanComplete}) /\ Len(queue) <= AdvQueueCapacity
    BY TrackerAssumption DEF Init
<1>6. QED
    BY <1>2, <1>3, <1>4, <1>5 DEF Init, Base, TypeOK

\* Every variable keeps its type: the merger holds no more advertisements than it has
\* entries, and the queue no more events than its capacity.
THEOREM TrackerTypes == Spec => []TypeOK
<1>1. Init => Base
    BY BaseInit
<1>2. Base /\ [Next]_vars => Base'
    BY BaseStep
<1>3. Base => TypeOK
    BY DEF Base
<1>4. QED
    BY <1>1, <1>2, <1>3, PTL DEF Spec

-----------------------------------------------------------------------------
(* The end of a scan: it is in the queue, or among what the thread has     *)
(* still to do, from when the procedure ends until the tracker is IDLE.    *)
(* This takes a place in the queue for it, and no scan started in between. *)

Orderly == Allowed = {}

Ending == Has(agenda, "idle")

AgendaInv ==
    /\ \A i \in 1 .. Len(agenda) : agenda[i].what = "start" => i = 1
    /\ Has(agenda, "again") => main = "idle"

EndInv ==
    /\ scanning => scanner = "RUNNING"
    /\ scanner = "RUNNING" => scanning \/ EndQueued \/ Ending
    /\ EndQueued \/ Ending => ~scanning

\* There is room for the end of the scan.
RoomInv == ~EndQueued => Len(queue) < AdvQueueCapacity

\* A scan is not started while the end of another is still to be handled.
StartInv ==
    /\ Doing("start") /\ EndQueued => scanner = "RUNNING" /\ ~Ending
    /\ Doing("start") /\ Ending => scanner = "RUNNING"
    /\ main = "restart" /\ EndQueued /\ (scanner = "IDLE" \/ Ending) => ~continuous

ScanInv == Base /\ AgendaInv /\ EndInv /\ RoomInv /\ StartInv

LEMMA OrderlyMeans ==
    ASSUME Orderly PROVE "restart" \notin Allowed /\ "lost end" \notin Allowed
BY DEF Orderly

LEMMA EndPushed ==
    ASSUME Orderly, Base, RoomInv, EndDiscovery
    PROVE  EndQueued' /\ scanning' = FALSE /\ RoomInv'
<1>1. queue \in Seq(Events) /\ Len(queue) \in Nat /\ AdvQueueCapacity \in Nat /\ ScanComplete \in Events
    BY TypesAre DEF Base, Events
<1>2. queue' = IF HasRoom(ScanComplete) THEN Append(queue, ScanComplete) ELSE queue
    BY DEF EndDiscovery, Push
<1>3. EndQueued'
  <2>1. CASE EndQueued
    <3>1. PICK i \in 1 .. Len(queue) : queue[i] = ScanComplete
        BY <2>1 DEF EndQueued
    <3>2. i \in 1 .. Len(queue') /\ queue'[i] = ScanComplete
        BY <1>1, <1>2, <3>1, AppendOf
    <3>3. QED
        BY <3>2 DEF EndQueued
  <2>2. CASE ~EndQueued
    <3>1. HasRoom(ScanComplete)
        BY <1>1, <2>2 DEF HasRoom, Reserved, RoomInv
    <3>2. queue'[Len(queue) + 1] = ScanComplete /\ Len(queue) + 1 \in 1 .. Len(queue')
        BY <1>1, <1>2, <3>1, AppendOf
    <3>3. QED
        BY <3>2 DEF EndQueued
  <2>3. QED
    BY <2>1, <2>2
<1>4. QED
    BY <1>3 DEF EndDiscovery, RoomInv

LEMMA ReportPushed ==
    ASSUME Orderly, Base, RoomInv, NEW ev \in Reports, Push(ev)
    PROVE  (EndQueued' <=> EndQueued) /\ RoomInv'
<1>1. queue \in Seq(Events) /\ Len(queue) \in Nat /\ AdvQueueCapacity \in Nat /\ ev \in Events
      /\ ev # ScanComplete
    BY TypesAre DEF Base, Events, Reports, ScanComplete
<1>2. queue' = IF HasRoom(ev) THEN Append(queue, ev) ELSE queue
    BY DEF Push
<1>3. /\ Len(queue') \in Nat /\ Len(queue) <= Len(queue')
      /\ \A i \in 1 .. Len(queue) : queue'[i] = queue[i]
      /\ \A i \in 1 .. Len(queue') : i \in 1 .. Len(queue) \/ queue'[i] = ev
    BY <1>1, <1>2, AppendOf
<1>4. EndQueued' <=> EndQueued
  <2>1. ASSUME EndQueued PROVE EndQueued'
    BY <1>1, <1>3, <2>1 DEF EndQueued
  <2>2. ASSUME EndQueued' PROVE EndQueued
    BY <1>1, <1>3, <2>2 DEF EndQueued
  <2>3. QED
    BY <2>1, <2>2
<1>5. ASSUME ~EndQueued PROVE Len(queue') < AdvQueueCapacity
  <2>1. Reserved(ev) = 1
    BY <1>1, <1>5, OrderlyMeans DEF Reserved
  <2>2. Len(queue) < AdvQueueCapacity
    BY <1>5 DEF RoomInv
  <2>3. CASE HasRoom(ev)
    BY <1>1, <1>2, <2>1, <2>3, AppendOf DEF HasRoom
  <2>4. QED
    BY <1>2, <2>2, <2>3
<1>6. QED
    BY <1>4, <1>5 DEF RoomInv

\* Taking the first event from the queue.
LEMMA EndPopped ==
    ASSUME Base, RoomInv, Pop
    PROVE  /\ EndQueued' => EndQueued
           /\ EndQueued => EndQueued' \/ Head(queue) = ScanComplete
           /\ RoomInv'
<1>1. queue \in Seq(Events) /\ queue # <<>> /\ queue' = Tail(queue)
    BY PopIs, TypesAre DEF Base
<1>2. /\ Len(queue') = Len(queue) - 1 /\ Len(queue) \in Nat \ {0}
      /\ Head(queue) = queue[1]
      /\ \A i \in 1 .. Len(queue') : i + 1 \in 1 .. Len(queue) /\ queue'[i] = queue[i + 1]
    BY <1>1, TailOf
<1>3. ASSUME EndQueued' PROVE EndQueued
    BY <1>2, <1>3 DEF EndQueued
<1>4. ASSUME NEW i \in 1 .. Len(queue), queue[i] = ScanComplete, i # 1 PROVE EndQueued'
  <2>1. i - 1 \in 1 .. Len(queue') /\ queue'[i - 1] = queue[(i - 1) + 1] /\ (i - 1) + 1 = i
    BY <1>2, <1>4
  <2>2. QED
    BY <1>4, <2>1 DEF EndQueued
<1>5. Len(queue') < AdvQueueCapacity
    BY <1>2, TypesAre DEF Base
<1>6. QED
    BY <1>2, <1>3, <1>4, <1>5 DEF EndQueued, RoomInv

\* No start is left behind a call.
LEMMA NoStartBehind ==
    ASSUME Base, AgendaInv, agenda # <<>>
    PROVE  /\ ~Has(Tail(agenda), "start")
           /\ Head(agenda).what # "start" => ~Has(agenda, "start")
<1>1. agenda \in Seq(Ops)
    BY TypesAre DEF Base
<1>2. \A i \in 1 .. Len(Tail(agenda)) : Tail(agenda)[i] = agenda[i + 1] /\ i + 1 \in 1 .. Len(agenda) /\ i + 1 # 1
    BY <1>1, TailOf
<1>3. ~Has(Tail(agenda), "start")
    BY <1>2 DEF AgendaInv, Has
<1>4. QED
    BY <1>1, <1>3, HasTail

\* What a call that is not to start the scan leaves.
LEMMA AgendaGoesOn ==
    ASSUME Base, AgendaInv, NEW calls, NEW rest, GoesOn(calls, rest),
           rest = agenda => Head(agenda).what # "start", main' = main
    PROVE  /\ AgendaInv'
           /\ Doing("start")' => calls = <<Op("start")>>
           /\ Ending' => calls = EndOfScan \/ Has(rest, "idle")
           /\ Has(rest, "idle") => Ending'
           /\ calls = EndOfScan => Ending'
           /\ Ending /\ Head(agenda).what # "idle" => Ending'
<1>1. agenda \in Seq(Ops) /\ agenda # <<>> /\ calls \in Calls /\ agenda' = calls \o rest
      /\ rest \in {agenda, Tail(agenda)}
    BY TypesAre DEF Base, GoesOn
<1>2. /\ calls \in Seq(Ops) /\ rest \in Seq(Ops) /\ agenda' \in Seq(Ops)
      /\ \A w : Has(agenda', w) <=> Has(calls, w) \/ Has(rest, w)
      /\ \A w : Has(rest, w) => Has(agenda, w)
    BY <1>1, GoingOn
<1>3. ~Has(rest, "start")
    BY <1>1, NoStartBehind
<1>4. Has(calls, "start") => calls = <<Op("start")>>
    BY <1>1, CallsAre
<1>5. ASSUME NEW i \in 1 .. Len(agenda'), agenda'[i].what = "start" PROVE i = 1
  <2>1. Has(agenda', "start")
    BY <1>5 DEF Has
  <2>2. calls = <<Op("start")>>
    BY <1>2, <1>3, <1>4, <2>1
  <2>3. Len(calls) = 1
    BY <2>2
  <2>4. CASE i \in 1 .. Len(calls)
    BY <2>3, <2>4
  <2>5. CASE i \notin 1 .. Len(calls)
    <3>1. i - Len(calls) \in 1 .. Len(rest) /\ agenda'[i] = rest[i - Len(calls)]
        BY <1>1, <1>2, <1>5, <2>5, JoinOf
    <3>2. QED
        BY <1>3, <1>5, <3>1 DEF Has
  <2>6. QED
    BY <2>4, <2>5
<1>6. Has(agenda', "again") => main' = "idle"
    BY <1>1, <1>2, CallsAre DEF AgendaInv
<1>7. Doing("start")' => Has(agenda', "start")
  <2>1. ASSUME agenda' # <<>>, Head(agenda').what = "start" PROVE Has(agenda', "start")
    BY <1>2, <2>1, TailOf DEF Has
  <2>2. QED
    BY <2>1 DEF Doing
<1>8. Ending' <=> Has(calls, "idle") \/ Has(rest, "idle")
    BY <1>2 DEF Ending
<1>9. Has(calls, "idle") => calls = EndOfScan
    BY <1>1, CallsAre
<1>10. Has(EndOfScan, "idle")
  <2>1. EndOfScan[3] = Op("idle") /\ 3 \in 1 .. Len(EndOfScan)
    BY DEF EndOfScan
  <2>2. QED
    BY <2>1, OpIs DEF Has
<1>11. Ending /\ Head(agenda).what # "idle" => Has(rest, "idle")
    BY <1>1, HasTail DEF Ending
<1>12. QED
    BY <1>2, <1>3, <1>4, <1>5, <1>6, <1>7, <1>8, <1>9, <1>10, <1>11 DEF AgendaInv

LEMMA AgendaStep ==
    ASSUME Base, AgendaInv, [Next]_vars
    PROVE  AgendaInv'
<1>1. agenda \in Seq(Ops) /\ TypeOK
    BY TypesAre DEF Base
<1>2. ASSUME agenda = <<>>, agenda' \in {<<>>, <<Op("listeners")>>, <<Op("sweep")>>, <<Op("stop")>>, <<Op("start")>>}
      PROVE  AgendaInv'
  <2>1. Len(agenda') \in {0, 1} /\ \A i \in 1 .. Len(agenda') : agenda'[i].what # "again"
    BY <1>2 DEF Op
  <2>2. QED
    BY <2>1 DEF AgendaInv, Has
<1>3. CASE Agenda
  <2>1. main' = main
    BY <1>3 DEF Agenda, BecomeIdle, Stop, Start, Again, Listeners, OutsideMerger, trackerVars
  <2>2. CASE KeepAdv /\ OutsideMerger
    <3>1. agenda # <<>> /\ agenda' = Tail(agenda)
        BY <2>2 DEF KeepAdv, Doing
    <3>2. <<>> \o Tail(agenda) = Tail(agenda)
        BY <1>1, <3>1
    <3>3. GoesOn(<<>>, Tail(agenda)) /\ Tail(agenda) # agenda
        BY <1>1, <3>1, <3>2, TailOf DEF GoesOn, Calls
    <3>4. QED
        BY <2>1, <3>3, AgendaGoesOn
  <2>3. ASSUME NEW adv \in held, DeliverHeld(adv), agenda # <<>>, Head(agenda).what \in {"flush", "sweep"}
        PROVE  AgendaInv'
    <3>1. GoesOn(<<Op("listeners")>>, agenda)
        BY <2>3 DEF DeliverHeld, Deliver, GoesOn, Calls
    <3>2. QED
        BY <2>1, <2>3, <3>1, AgendaGoesOn
  <2>4. ASSUME NEW calls \in Calls, GoesOn(calls, Tail(agenda)) PROVE AgendaInv'
    <3>1. Tail(agenda) # agenda
        BY <1>1, <2>4, TailOf DEF GoesOn
    <3>2. QED
        BY <2>1, <2>4, <3>1, AgendaGoesOn
  <2>5. QED
    BY <1>1, <1>3, <2>2, <2>3, <2>4, AgendaKinds
<1>4. CASE Pop
  <2> DEFINE ev == Head(queue)
  <2>1. agenda = <<>> /\ (IsAdvert(ev) => AdvertOf(ev) \in Adverts)
    BY <1>1, <1>4, PopIs
  <2>2. CASE UNCHANGED agenda
    BY <1>2, <2>1, <2>2
  <2>3. CASE agenda' = <<Op("listeners")>>
    BY <1>2, <2>1, <2>3
  <2>4. CASE IsAdvert(ev) /\ agenda' = <<Op("listeners")>> \o <<Keep(AdvertOf(ev))>>
    BY <2>1, <2>4, KeepIsKept DEF AgendaInv, Has
  <2>5. CASE agenda' = EndOfScan
    <3>1. \A i \in 1 .. Len(agenda') : agenda'[i].what \notin {"start", "again"}
        BY <2>5 DEF EndOfScan, Op
    <3>2. QED
        BY <3>1 DEF AgendaInv, Has
  <2>6. QED
    BY <1>1, <1>4, <2>2, <2>3, <2>4, <2>5, PopIs, PopsResponse, PopsStash, PopsDirect DEF IsAdvert, GivesAtOnce
<1>5. CASE UserCalls
  <2>1. CASE agenda' = <<Op("stop"), Op("again")>>
    <3>1. \A i \in 1 .. Len(agenda') : agenda'[i].what # "start"
        BY <2>1 DEF Op
    <3>2. main' = "idle"
        BY <1>5 DEF UserCalls, At, trackerVars
    <3>3. QED
        BY <3>1, <3>2 DEF AgendaInv
  <2>2. QED
    BY <1>2, <1>5, <2>1 DEF UserCalls, At
<1>6. CASE DrainEnds
    BY <1>2, <1>6 DEF DrainEnds, At
<1>7. CASE Restart \/ LoopBegins \/ EngineConnects
    BY <1>2, <1>7 DEF Restart, LoopBegins, EngineConnects, At, mergerVars
<1>8. CASE HostStep \/ UNCHANGED vars
    BY <1>8 DEF HostStep, AgendaInv, vars, mergerVars, trackerVars
<1>9. QED
    BY <1>3, <1>4, <1>5, <1>6, <1>7, <1>8 DEF Next, MainStep

ScanParts == EndInv /\ RoomInv /\ StartInv

\* Nothing is done about the scan.
LEMMA ScanLeft ==
    ASSUME ScanParts, UNCHANGED <<scanner, scanning, agenda, main, continuous>>,
           EndQueued' <=> EndQueued, RoomInv'
    PROVE  ScanParts'
BY DEF ScanParts, EndInv, StartInv, Ending, Doing

\* The procedure ends, of itself or because an engine connects.
LEMMA ProcedureEnds ==
    ASSUME Orderly, Base, ScanParts, scanning, EndDiscovery,
           UNCHANGED <<scanner, agenda, main, continuous>>
    PROVE  ScanParts'
<1>1. EndQueued' /\ scanning' = FALSE /\ RoomInv'
    BY EndPushed DEF ScanParts
<1>2. scanner = "RUNNING" /\ ~Ending
    BY DEF ScanParts, EndInv
<1>3. Ending' <=> Ending
    BY DEF Ending
<1>4. QED
    BY <1>1, <1>2, <1>3 DEF ScanParts, EndInv, StartInv

LEMMA HostKeepsScan ==
    ASSUME Orderly, ScanInv, HostStep \/ EngineConnects
    PROVE  ScanParts'
<1>1. Base /\ ScanParts /\ TypeOK
    BY DEF ScanInv, ScanParts, Base
<1>2. UNCHANGED <<scanner, agenda, main, continuous>>
    BY DEF HostStep, EngineConnects, mergerVars, trackerVars
<1>3. ASSUME NEW ev \in Reports, Push(ev), scanning' = scanning PROVE ScanParts'
    BY <1>1, <1>2, <1>3, ReportPushed, ScanLeft DEF ScanParts
<1>4. ASSUME NEW d \in Devices, Advertise(d) PROVE ScanParts'
  <2>1. PICK type \in {"STASH_ADV", "DIRECT"} : Push([type |-> type, id |-> sent + 1, device |-> d])
    BY <1>4 DEF Advertise
  <2>2. sent + 1 \in AdvertIds
    BY <1>1, <1>4, TypesAre DEF Advertise, AdvertIds
  <2>3. [type |-> type, id |-> sent + 1, device |-> d] \in Reports
    BY <2>2 DEF Reports
  <2>4. scanning' = scanning
    BY <1>4 DEF Advertise
  <2>5. QED
    BY <1>3, <2>1, <2>3, <2>4
<1>5. ASSUME NEW d \in Devices, Respond(d) PROVE ScanParts'
  <2>1. [type |-> "SCAN_RSP", id |-> awaited[d], device |-> d] \in Reports
    BY <1>1, <1>5, TypesAre DEF Respond, Reports, AdvertIds
  <2>2. QED
    BY <1>3, <1>5, <2>1 DEF Respond
<1>6. ASSUME UNCHANGED <<queue, scanning>> PROVE ScanParts'
  <2>1. (EndQueued' <=> EndQueued) /\ RoomInv'
    BY <1>1, <1>6 DEF EndQueued, RoomInv, ScanParts
  <2>2. QED
    BY <1>1, <1>2, <1>6, <2>1, ScanLeft
<1>7. ASSUME scanning, EndDiscovery PROVE ScanParts'
    BY <1>1, <1>2, <1>7, ProcedureEnds
<1>8. QED
    BY <1>4, <1>5, <1>6, <1>7 DEF HostStep, EngineConnects, ScanTimesOut, ConnectEnds, CancelDiscovery

LEMMA AgendaKeepsScan ==
    ASSUME Orderly, ScanInv, Agenda
    PROVE  ScanParts'
<1>1. Base /\ AgendaInv /\ ScanParts /\ EndInv /\ RoomInv /\ StartInv /\ agenda \in Seq(Ops)
    BY TypesAre DEF ScanInv, ScanParts, Base
<1>2. main' = main /\ agenda # <<>>
    BY <1>1, AgendaKinds DEF Agenda, BecomeIdle, Stop, Start, Again, Listeners, OutsideMerger, trackerVars, Base
<1>3. Tail(agenda) # agenda /\ <<>> \o Tail(agenda) = Tail(agenda)
      /\ (Has(Tail(agenda), "idle") => Ending) /\ (Head(agenda).what = "idle" => Ending)
    BY <1>1, <1>2, TailOf, HasTail DEF Ending
<1>4. ASSUME NEW calls \in Calls, calls # EndOfScan, agenda' = calls \o Tail(agenda)
      PROVE  /\ Doing("start")' => calls = <<Op("start")>>
             /\ Ending' => Ending
             /\ Head(agenda).what # "idle" => (Ending' <=> Ending)
  <2>1. GoesOn(calls, Tail(agenda))
    BY <1>2, <1>4 DEF GoesOn
  <2>2. QED
    BY <1>1, <1>2, <1>3, <1>4, <2>1, AgendaGoesOn
<1>5. /\ <<>> \in Calls /\ <<Op("listeners")>> \in Calls /\ <<Op("stop")>> \in Calls /\ <<Op("start")>> \in Calls
      /\ EndOfScan \in Calls
      /\ \A w : <<Op(w)>> # EndOfScan /\ <<>> # EndOfScan /\ <<>> # <<Op(w)>>
      /\ <<Op("stop")>> # <<Op("start")>> /\ <<Op("listeners")>> # <<Op("start")>>
  <2>1. Len(EndOfScan) = 3 /\ \A w : Len(<<Op(w)>>) = 1 /\ <<Op(w)>>[1].what = w
    BY OpIs DEF EndOfScan
  <2>2. QED
    BY <2>1 DEF Calls
<1>6. ASSUME agenda' = Tail(agenda)
      PROVE  /\ ~Doing("start")' /\ (Ending' => Ending)
             /\ Head(agenda).what # "idle" => (Ending' <=> Ending)
    BY <1>3, <1>4, <1>5, <1>6
<1>7. ASSUME UNCHANGED queue PROVE (EndQueued' <=> EndQueued) /\ RoomInv'
    BY <1>1, <1>7 DEF EndQueued, RoomInv
<1>8. ASSUME UNCHANGED <<queue, scanner, scanning, continuous>>, Ending' <=> Ending,
             Doing("start")' => (EndQueued => scanner = "RUNNING" /\ ~Ending) /\ (Ending => scanner = "RUNNING")
      PROVE  ScanParts'
    BY <1>1, <1>2, <1>7, <1>8 DEF ScanParts, EndInv, StartInv
<1>9. CASE BecomeIdle
  <2>1. /\ Ending /\ agenda' = Tail(agenda) /\ UNCHANGED <<queue, scanning, continuous>> /\ scanner' = "IDLE"
    BY <1>3, <1>9 DEF BecomeIdle, Doing, hostVars
  <2>2. QED
    BY <1>1, <1>2, <1>6, <1>7, <2>1 DEF ScanParts, EndInv, StartInv
<1>10. CASE Stop
  <2>1. continuous' = FALSE /\ scanner' = scanner
    BY <1>10 DEF Stop
  <2>2. CASE scanner = "RUNNING"
    <3>1. CancelDiscovery /\ agenda' = EndOfScan \o Tail(agenda)
        BY <1>10, <2>2 DEF Stop
    <3>2. scanning' = FALSE /\ RoomInv'
        BY <1>1, <1>7, <3>1, EndPushed, TypesAre DEF CancelDiscovery, Base, TypeOK
    <3>3. GoesOn(EndOfScan, Tail(agenda))
        BY <1>2, <1>5, <3>1 DEF GoesOn
    <3>4. Ending' /\ ~Doing("start")'
        BY <1>1, <1>2, <1>3, <1>5, <3>3, AgendaGoesOn
    <3>5. QED
        BY <2>1, <2>2, <3>2, <3>4 DEF ScanParts, EndInv, StartInv
  <2>3. CASE scanner # "RUNNING"
    <3>1. UNCHANGED <<queue, scanning>> /\ agenda' = Tail(agenda)
        BY <1>10, <2>3 DEF Stop
    <3>2. ~scanning
        BY <1>1, <2>3 DEF EndInv
    <3>3. QED
        BY <1>6, <1>7, <2>1, <2>3, <3>1, <3>2 DEF ScanParts, EndInv, StartInv
  <2>4. QED
    BY <2>2, <2>3
<1>11. CASE Start
  <2>1. Doing("start") /\ Head(agenda).what = "start" /\ agenda' = Tail(agenda) /\ queue' = queue /\ StartScan
    BY <1>11 DEF Start, Doing
  <2>2. /\ EndQueued => scanner = "RUNNING" /\ ~Ending
        /\ Ending => scanner = "RUNNING"
    BY <1>1, <2>1 DEF StartInv
  <2>3. ~Doing("start")' /\ (Ending' <=> Ending) /\ (EndQueued' <=> EndQueued) /\ RoomInv'
    BY <1>6, <1>7, <2>1
  <2>4. CASE scanner = "IDLE" /\ CanScan
    <3>1. scanner' = "RUNNING" /\ scanning' = TRUE
        BY <2>1, <2>4 DEF StartScan
    <3>2. ~EndQueued' /\ ~Ending'
        BY <2>2, <2>3, <2>4
    <3>3. QED
        BY <2>3, <3>1, <3>2 DEF ScanParts, EndInv, StartInv
  <2>5. CASE ~(scanner = "IDLE" /\ CanScan)
    <3>1. UNCHANGED <<scanner, scanning>>
        BY <2>1, <2>5 DEF StartScan
    <3>2. QED
        BY <1>1, <2>2, <2>3, <3>1 DEF ScanParts, EndInv, StartInv
  <2>6. QED
    BY <2>4, <2>5
<1>12. CASE Again
  <2>1. /\ Head(agenda).what = "again" /\ agenda' = Tail(agenda)
        /\ UNCHANGED <<queue, scanner, scanning>>
    BY <1>12 DEF Again, Doing, hostVars
  <2>2. main = "idle"
    BY <1>1, <1>2, <2>1, HasTail DEF AgendaInv
  <2>3. QED
    BY <1>1, <1>2, <1>6, <1>7, <2>1, <2>2 DEF ScanParts, EndInv, StartInv
<1>13. CASE Listeners
  <2>1. Head(agenda).what = "listeners" /\ UNCHANGED <<queue, scanner, scanning, continuous>>
    BY <1>13 DEF Listeners, Doing, trackerVars, hostVars
  <2>2. CASE agenda' = Tail(agenda)
    BY <1>6, <1>8, <2>1, <2>2
  <2>3. CASE agenda' = <<Op("stop")>> \o Tail(agenda)
    BY <1>4, <1>5, <1>8, <2>1, <2>3
  <2>4. CASE MayStart /\ agenda' = <<Op("start")>> \o Tail(agenda)
    <3>1. ~EndQueued /\ (Ending => scanner = "RUNNING")
        BY <2>4, OrderlyMeans DEF MayStart, Ending, Has
    <3>2. QED
        BY <1>4, <1>5, <1>8, <2>1, <2>4, <3>1
  <2>5. QED
    BY <1>13, <2>2, <2>3, <2>4 DEF Listeners
<1>14. CASE (KeepAdv \/ Sweep \/ Flush) /\ OutsideMerger
  <2>1. UNCHANGED <<queue, scanner, scanning, continuous>> /\ Head(agenda).what \in {"keep", "sweep", "flush"}
    BY <1>14 DEF OutsideMerger, trackerVars, hostVars, KeepAdv, Sweep, Flush, Doing
  <2>2. CASE agenda' = Tail(agenda)
    BY <1>6, <1>8, <2>1, <2>2
  <2>3. CASE agenda' = <<Op("listeners")>> \o agenda /\ Head(agenda).what # "keep"
    <3>1. GoesOn(<<Op("listeners")>>, agenda)
        BY <1>2, <1>5, <2>3 DEF GoesOn
    <3>2. ~Doing("start")' /\ (Ending' <=> Ending)
        BY <1>1, <1>2, <1>5, <2>1, <3>1, AgendaGoesOn DEF Ending
    <3>3. QED
        BY <1>8, <2>1, <3>2
  <2>4. QED
    BY <1>14, <2>2, <2>3 DEF KeepAdv, Sweep, Flush, DeliverHeld, Deliver, Doing
<1>15. QED
    BY <1>9, <1>10, <1>11, <1>12, <1>13, <1>14 DEF Agenda

\* Agendas that say nothing of the scan.
LEMMA NotOfScan ==
    ASSUME NEW s, s \in {<<>>, <<Op("listeners")>>, <<Op("sweep")>>, <<Op("stop")>>, <<Op("stop"), Op("again")>>}
    PROVE  ~Has(s, "idle") /\ ~(s # <<>> /\ Head(s).what = "start")
<1>1. \A i \in 1 .. Len(s) : s[i].what \notin {"idle", "start"}
    BY DEF Op
<1>2. s # <<>> => 1 \in 1 .. Len(s) /\ Head(s) = s[1]
    OBVIOUS
<1>3. QED
    BY <1>1, <1>2 DEF Has

LEMMA LoopKeepsScan ==
    ASSUME Orderly, ScanInv, Pop \/ DrainEnds \/ Restart \/ LoopBegins \/ UserCalls
    PROVE  ScanParts'
<1>1. Base /\ ScanParts /\ EndInv /\ RoomInv /\ StartInv /\ TypeOK /\ scanner \in {"IDLE", "RUNNING"}
    BY DEF ScanInv, ScanParts, Base, TypeOK
<1>2. agenda = <<>> /\ ~Ending
    BY DEF Pop, DrainEnds, Restart, LoopBegins, UserCalls, At, Ending, Has
<1>3. ASSUME UNCHANGED queue PROVE (EndQueued' <=> EndQueued) /\ RoomInv'
    BY <1>1, <1>3 DEF EndQueued, RoomInv
<1>4. ASSUME NEW s, agenda' = s, ~Has(s, "idle"), ~(s # <<>> /\ Head(s).what = "start")
      PROVE  ~Ending' /\ ~Doing("start")'
    BY <1>4 DEF Ending, Doing
<1>5. CASE Pop
  <2>1. queue' = Tail(queue) /\ main' = "drain" /\ UNCHANGED <<scanner, scanning>>
        /\ (IsAdvert(Head(queue)) => AdvertOf(Head(queue)) \in Adverts)
    BY <1>1, <1>5, PopIs DEF trackerVars
  <2>2. /\ EndQueued' => EndQueued
        /\ EndQueued => EndQueued' \/ Head(queue) = ScanComplete
        /\ RoomInv'
    BY <1>1, <1>5, EndPopped
  <2>3. CASE Head(queue) = ScanComplete
    <3>1. agenda' = EndOfScan /\ EndQueued
        <4>1. queue # <<>> /\ queue \in Seq(Events)
            BY <1>1, <1>5, PopIs, TypesAre
        <4>2. 1 \in 1 .. Len(queue) /\ queue[1] = ScanComplete
            BY <2>3, <4>1, TailOf
        <4>3. QED
            BY <1>1, <1>5, <2>3, <4>2, PopIs DEF ScanComplete, EndQueued
    <3>2. Ending' /\ ~Doing("start")'
        <4>1. /\ EndOfScan[3].what = "idle" /\ 3 \in 1 .. Len(EndOfScan)
              /\ Head(EndOfScan).what = "flush"
            BY DEF EndOfScan, Op
        <4>2. QED
            BY <3>1, <4>1 DEF Ending, Has, Doing
    <3>3. ~scanning
        BY <1>1, <3>1 DEF EndInv
    <3>4. QED
        BY <2>1, <2>2, <3>2, <3>3 DEF ScanParts, EndInv, StartInv
  <2>4. CASE Head(queue) # ScanComplete
    <3>1. ~Ending' /\ ~Doing("start")'
        <4>1. CASE agenda' \in {<<>>, <<Op("listeners")>>}
            BY <1>4, <4>1, NotOfScan
        <4>2. CASE IsAdvert(Head(queue)) /\ agenda' = <<Op("listeners")>> \o <<Keep(AdvertOf(Head(queue)))>>
            <5>1. agenda' \in Seq(Ops) /\ ~Has(agenda', "idle") /\ ~Has(agenda', "start")
                BY <2>1, <4>2, KeepIsKept
            <5>2. agenda' # <<>> => Head(agenda').what # "start"
                BY <5>1, HasTail
            <5>3. QED
                BY <5>1, <5>2 DEF Ending, Doing
        <4>3. QED
            BY <1>1, <1>2, <1>5, <2>4, <4>1, <4>2, PopIs, PopsResponse, PopsStash, PopsDirect
               DEF IsAdvert, GivesAtOnce
    <3>2. EndQueued' <=> EndQueued
        BY <2>2, <2>4
    <3>3. QED
        BY <1>1, <1>2, <2>1, <2>2, <3>1, <3>2 DEF ScanParts, EndInv, StartInv
  <2>5. QED
    BY <2>3, <2>4
<1>6. CASE DrainEnds
  <2>1. queue = <<>> /\ UNCHANGED <<queue, scanner, scanning>> /\ agenda' \in {<<>>, <<Op("sweep")>>}
    BY <1>6 DEF DrainEnds, hostVars
  <2>2. ~EndQueued
    BY <2>1 DEF EndQueued
  <2>3. ~Ending' /\ ~Doing("start")'
    BY <1>4, <2>1, NotOfScan
  <2>4. (EndQueued' <=> EndQueued) /\ RoomInv'
    BY <1>3, <2>1
  <2>5. QED
    BY <1>1, <1>2, <2>1, <2>2, <2>3, <2>4 DEF ScanParts, EndInv, StartInv
<1>7. CASE Restart
  <2>1. main = "restart" /\ main' = "idle" /\ agenda' = <<>> /\ queue' = queue
        /\ IF continuous THEN StartScan ELSE UNCHANGED <<scanner, scanning>>
    BY <1>2, <1>7 DEF Restart, At, mergerVars
  <2>2. ~Ending' /\ ~Doing("start")' /\ (EndQueued' <=> EndQueued) /\ RoomInv'
    BY <1>3, <1>4, <2>1, NotOfScan
  <2>3. CASE continuous /\ scanner = "IDLE" /\ CanScan
    <3>1. ~EndQueued
        BY <1>1, <2>1, <2>3 DEF StartInv
    <3>2. scanner' = "RUNNING" /\ scanning' = TRUE
        BY <2>1, <2>3 DEF StartScan
    <3>3. QED
        BY <2>1, <2>2, <3>1, <3>2 DEF ScanParts, EndInv, StartInv
  <2>4. CASE ~(continuous /\ scanner = "IDLE" /\ CanScan)
    <3>1. UNCHANGED <<scanner, scanning>>
        BY <2>1, <2>4 DEF StartScan
    <3>2. QED
        BY <1>1, <1>2, <2>1, <2>2, <3>1 DEF ScanParts, EndInv, StartInv
  <2>5. QED
    BY <2>3, <2>4
<1>8. CASE LoopBegins
  <2>1. main' = "drain" /\ agenda' = <<>> /\ UNCHANGED <<queue, scanner, scanning>>
    BY <1>2, <1>8 DEF LoopBegins, mergerVars, hostVars
  <2>2. ~Ending' /\ ~Doing("start")' /\ (EndQueued' <=> EndQueued) /\ RoomInv'
    BY <1>3, <1>4, <2>1, NotOfScan
  <2>3. QED
    BY <1>1, <1>2, <2>1, <2>2 DEF ScanParts, EndInv, StartInv
<1>9. CASE UserCalls
  <2>1. main' = "idle" /\ UNCHANGED <<queue, scanner, scanning>>
    BY <1>9 DEF UserCalls, At, trackerVars, hostVars
  <2>2. (EndQueued' <=> EndQueued) /\ RoomInv'
    BY <1>3, <2>1
  <2>3. CASE agenda' \in {<<Op("stop")>>, <<Op("stop"), Op("again")>>}
    <3>1. ~Ending' /\ ~Doing("start")'
        BY <1>4, <2>3, NotOfScan
    <3>2. QED
        BY <1>1, <1>2, <2>1, <2>2, <3>1 DEF ScanParts, EndInv, StartInv
  <2>4. CASE MayStart /\ agenda' = <<Op("start")>>
    <3>1. ~EndQueued
        BY <2>4, OrderlyMeans DEF MayStart
    <3>2. ~Ending'
        BY <2>4, FirstCallsAre DEF Ending, FirstCalls
    <3>3. QED
        BY <1>1, <1>2, <2>1, <2>2, <3>1, <3>2 DEF ScanParts, EndInv, StartInv
  <2>5. QED
    BY <1>9, <2>3, <2>4 DEF UserCalls
<1>10. QED
    BY <1>5, <1>6, <1>7, <1>8, <1>9

LEMMA ScanStep ==
    ASSUME Orderly, ScanInv, [Next]_vars PROVE ScanInv'
<1>1. Base' /\ AgendaInv'
    BY BaseStep, AgendaStep DEF ScanInv
<1>2. ScanParts'
  <2>1. CASE UNCHANGED vars
    <3>1. UNCHANGED <<scanner, scanning, agenda, main, continuous, queue>>
        BY <2>1 DEF vars, mergerVars, trackerVars, hostVars
    <3>2. (EndQueued' <=> EndQueued) /\ RoomInv'
        BY <3>1 DEF EndQueued, RoomInv, ScanInv
    <3>3. QED
        BY <3>1, <3>2, ScanLeft DEF ScanInv, ScanParts
  <2>2. QED
    BY <2>1, HostKeepsScan, AgendaKeepsScan, LoopKeepsScan DEF Next, MainStep
<1>3. QED
    BY <1>1, <1>2 DEF ScanInv, ScanParts

LEMMA ScanInit ==
    ASSUME Init PROVE ScanInv
<1>1. Base
    BY BaseInit
<1>2. agenda = <<>> /\ queue = <<>> /\ scanner = "IDLE" /\ scanning = FALSE /\ main = "restart"
    BY DEF Init
<1>3. ~EndQueued /\ ~Ending /\ AgendaInv /\ ~Doing("start")
    BY <1>2 DEF EndQueued, Ending, Has, AgendaInv, Doing
<1>4. RoomInv
    BY <1>2, TrackerAssumption DEF RoomInv
<1>5. QED
    BY <1>1, <1>2, <1>3, <1>4 DEF ScanInv, EndInv, StartInv

\* When a place in the queue is left for the end of a scan, and no scan is started
\* before that end was handled, scan_running() agrees with the host's procedure: what
\* runs was started by the tracker, and the tracker knows or is yet to be told of its
\* end.
THEOREM ScannerIsTrue ==
    ASSUME Orderly PROVE Spec => []ScannerStateIsTrue
<1>1. Init => ScanInv
    BY ScanInit
<1>2. ScanInv /\ [Next]_vars => ScanInv'
    BY ScanStep
<1>3. ScanInv => ScannerStateIsTrue
    BY DEF ScanInv, EndInv, ScannerStateIsTrue, Ending, Has
<1>4. QED
    BY <1>1, <1>2, <1>3, PTL DEF Spec

-----------------------------------------------------------------------------
(* What waits to be given to the listeners: q is the queue, P what the     *)
(* merger holds or keeps, g what was given, n the last advertisement sent. *)
(* Advertisements leave the queue in the order of their numbers, so every  *)
(* one in the queue is younger than those that have left it.               *)

Pending == held \cup KeptIn(agenda)

IdsOf(q, P) ==
    {adv.id : adv \in P} \cup {q[i].id : i \in {j \in 1 .. Len(q) : IsAdvert(q[j])}}

OrderOf(q, P, g, n) ==
    /\ P \subseteq Adverts
    /\ \A i, j \in 1 .. Len(q) : i < j /\ IsAdvert(q[i]) /\ IsAdvert(q[j]) => q[i].id < q[j].id
    /\ \A i \in 1 .. Len(q) : IsAdvert(q[i]) =>
          /\ q[i].id <= n
          /\ \A adv \in P : adv.id < q[i].id
          /\ \A k \in AdvertIds : g[k] # <<>> => k < q[i].id
    /\ \A adv \in P : adv.id <= n /\ g[adv.id] = <<>>
    /\ \A k \in AdvertIds : g[k] # <<>> => k <= n
    /\ \A a, b \in P : a.id = b.id => a = b

Histories == [AdvertIds -> Seq(0 .. MaxAdverts)]

LEMMA IdsAre ==
    ASSUME NEW q, NEW P, NEW x
    PROVE  x \in IdsOf(q, P) <=>
              (\E adv \in P : x = adv.id) \/ (\E j \in 1 .. Len(q) : IsAdvert(q[j]) /\ x = q[j].id)
BY DEF IdsOf

LEMMA AdvertIsReport ==
    ASSUME NEW ev \in Events, IsAdvert(ev)
    PROVE  /\ AdvertOf(ev) \in Adverts /\ AdvertOf(ev).id = ev.id /\ AdvertOf(ev).device = ev.device
           /\ ev.id \in AdvertIds /\ ev.id \in Nat
BY DEF IsAdvert, AdvertOf, Adverts, Events, Reports, ScanComplete, AdvertIds

LEMMA TailKeepsOrder ==
    ASSUME NEW q \in Seq(Events), q # <<>>, NEW P, NEW g, NEW n, OrderOf(q, P, g, n)
    PROVE  OrderOf(Tail(q), P, g, n)
<1>1. \A i \in 1 .. Len(Tail(q)) : i + 1 \in 1 .. Len(q) /\ Tail(q)[i] = q[i + 1]
    BY TailOf
<1>2. ASSUME NEW i \in 1 .. Len(Tail(q)), NEW j \in 1 .. Len(Tail(q)), i < j,
             IsAdvert(Tail(q)[i]), IsAdvert(Tail(q)[j])
      PROVE  Tail(q)[i].id < Tail(q)[j].id
    BY <1>1, <1>2 DEF OrderOf
<1>3. ASSUME NEW i \in 1 .. Len(Tail(q)), IsAdvert(Tail(q)[i])
      PROVE  /\ Tail(q)[i].id <= n
             /\ \A adv \in P : adv.id < Tail(q)[i].id
             /\ \A k \in AdvertIds : g[k] # <<>> => k < Tail(q)[i].id
    BY <1>1, <1>3 DEF OrderOf
<1>4. QED
    BY <1>2, <1>3 DEF OrderOf

\* An event that is no advertisement leaves the queue.
LEMMA OtherLeaves ==
    ASSUME NEW q \in Seq(Events), q # <<>>, NEW P, ~IsAdvert(Head(q))
    PROVE  IdsOf(Tail(q), P) = IdsOf(q, P)
<1>1. /\ \A i \in 1 .. Len(Tail(q)) : i + 1 \in 1 .. Len(q) /\ Tail(q)[i] = q[i + 1]
      /\ Len(Tail(q)) = Len(q) - 1 /\ Len(q) \in Nat /\ Head(q) = q[1]
    BY TailOf
<1>2. ASSUME NEW i \in 1 .. Len(Tail(q)), IsAdvert(Tail(q)[i])
      PROVE  \E j \in 1 .. Len(q) : IsAdvert(q[j]) /\ q[j].id = Tail(q)[i].id
    BY <1>1, <1>2
<1>3. ASSUME NEW j \in 1 .. Len(q), IsAdvert(q[j])
      PROVE  \E i \in 1 .. Len(Tail(q)) : IsAdvert(Tail(q)[i]) /\ Tail(q)[i].id = q[j].id
  <2>1. j - 1 \in 1 .. Len(Tail(q)) /\ Tail(q)[j - 1] = q[(j - 1) + 1] /\ (j - 1) + 1 = j
    BY <1>1, <1>3
  <2>2. QED
    BY <1>3, <2>1
<1>4. ASSUME NEW id PROVE id \in IdsOf(Tail(q), P) => id \in IdsOf(q, P)
    BY <1>2 DEF IdsOf
<1>5. ASSUME NEW id PROVE id \in IdsOf(q, P) => id \in IdsOf(Tail(q), P)
    BY <1>3 DEF IdsOf
<1>6. QED
    BY <1>4, <1>5

\* An advertisement leaves the queue and is held, if only for a moment.
LEMMA AdvertLeaves ==
    ASSUME NEW q \in Seq(Events), q # <<>>, NEW P, NEW g \in Histories, NEW n \in Nat, OrderOf(q, P, g, n),
           NEW adv, adv = AdvertOf(Head(q)), IsAdvert(Head(q))
    PROVE  /\ adv \notin P /\ \A b \in P : b.id < adv.id
           /\ OrderOf(Tail(q), P \cup {adv}, g, n)
           /\ IdsOf(Tail(q), P \cup {adv}) = IdsOf(q, P)
<1>1. /\ \A i \in 1 .. Len(Tail(q)) : i + 1 \in 1 .. Len(q) /\ Tail(q)[i] = q[i + 1]
      /\ Len(Tail(q)) = Len(q) - 1 /\ Len(q) \in Nat \ {0} /\ Head(q) = q[1] /\ Head(q) \in Events
    BY TailOf
<1>2. adv \in Adverts /\ adv.id = q[1].id /\ adv.id \in AdvertIds /\ adv.id \in Nat /\ IsAdvert(q[1])
      /\ 1 \in 1 .. Len(q)
    BY <1>1, AdvertIsReport
<1>3. /\ \A b \in P : b.id < adv.id
      /\ adv.id <= n /\ \A k \in AdvertIds : g[k] # <<>> => k < adv.id
    BY <1>2 DEF OrderOf
<1>4. adv \notin P
    BY <1>2, <1>3
<1>5. g[adv.id] = <<>>
    BY <1>2, <1>3
<1>6. ASSUME NEW i \in 1 .. Len(Tail(q)), IsAdvert(Tail(q)[i]) PROVE adv.id < Tail(q)[i].id
    BY <1>1, <1>2, <1>6 DEF OrderOf
<1>7. OrderOf(Tail(q), P, g, n)
    BY TailKeepsOrder
<1>8. OrderOf(Tail(q), P \cup {adv}, g, n)
  <2>1. P \cup {adv} \subseteq Adverts
    BY <1>2, <1>7 DEF OrderOf
  <2>2. \A b \in P \cup {adv} : b.id <= n /\ g[b.id] = <<>>
    BY <1>3, <1>5, <1>7 DEF OrderOf
  <2>3. \A a, b \in P \cup {adv} : a.id = b.id => a = b
    <3>1. \A b \in P : b.id # adv.id
        BY <1>2, <1>3
    <3>2. QED
        BY <1>7, <3>1 DEF OrderOf
  <2>4. \A i \in 1 .. Len(Tail(q)) : IsAdvert(Tail(q)[i]) => \A b \in P \cup {adv} : b.id < Tail(q)[i].id
    BY <1>6, <1>7 DEF OrderOf
  <2>5. QED
    BY <1>7, <2>1, <2>2, <2>3, <2>4 DEF OrderOf
<1>9. IdsOf(Tail(q), P \cup {adv}) = IdsOf(q, P)
  <2>1. ASSUME NEW i \in 1 .. Len(Tail(q)), IsAdvert(Tail(q)[i])
        PROVE  \E j \in 1 .. Len(q) : IsAdvert(q[j]) /\ q[j].id = Tail(q)[i].id
    BY <1>1, <2>1
  <2>2. ASSUME NEW j \in 1 .. Len(q), IsAdvert(q[j]), j # 1
        PROVE  \E i \in 1 .. Len(Tail(q)) : IsAdvert(Tail(q)[i]) /\ Tail(q)[i].id = q[j].id
    <3>1. j - 1 \in 1 .. Len(Tail(q)) /\ Tail(q)[j - 1] = q[(j - 1) + 1] /\ (j - 1) + 1 = j
        BY <1>1, <2>2
    <3>2. QED
        BY <2>2, <3>1
  <2>3. ASSUME NEW x \in IdsOf(Tail(q), P \cup {adv}) PROVE x \in IdsOf(q, P)
    <3>1. CASE \E b \in P : x = b.id
        BY <3>1, IdsAre
    <3>2. CASE x = adv.id
        BY <1>2, <3>2, IdsAre
    <3>3. CASE \E i \in 1 .. Len(Tail(q)) : IsAdvert(Tail(q)[i]) /\ x = Tail(q)[i].id
        BY <2>1, <3>3, IdsAre
    <3>4. \/ \E b \in P \cup {adv} : x = b.id
          \/ \E i \in 1 .. Len(Tail(q)) : IsAdvert(Tail(q)[i]) /\ x = Tail(q)[i].id
        BY <2>3 DEF IdsOf
    <3>5. QED
        BY <3>1, <3>2, <3>3, <3>4
  <2>4. ASSUME NEW x \in IdsOf(q, P) PROVE x \in IdsOf(Tail(q), P \cup {adv})
    <3>1. CASE \E b \in P : x = b.id
        BY <3>1, IdsAre
    <3>2. CASE x = adv.id
        BY <3>2, IdsAre
    <3>3. CASE \E j \in 1 .. Len(q) : IsAdvert(q[j]) /\ j # 1 /\ x = q[j].id
        BY <2>2, <3>3, IdsAre
    <3>4. QED
        BY <1>2, <2>4, <3>1, <3>2, <3>3, IdsAre
  <2>5. QED
    BY <2>3, <2>4
<1>10. QED
    BY <1>3, <1>4, <1>8, <1>9

GivenTo(g, id, r) == [g EXCEPT ![id] = Append(@, r)]

\* The listeners are given an advertisement.
LeavesInOrder(q, P, h, n, adv) ==
    /\ OrderOf(q, P \ {adv}, h, n)
    /\ IdsOf(q, P \ {adv}) = IdsOf(q, P) \ {adv.id}
    /\ adv.id \in IdsOf(q, P) /\ adv.id \in AdvertIds

LEMMA AdvertGiven ==
    ASSUME NEW q \in Seq(Events), NEW P, NEW g \in Histories, NEW n \in Nat, OrderOf(q, P, g, n),
           NEW adv \in P, NEW r
    PROVE  LeavesInOrder(q, P, GivenTo(g, adv.id, r), n, adv)
<1> DEFINE h == GivenTo(g, adv.id, r)
<1>1. adv.id \in AdvertIds /\ g[adv.id] = <<>> /\ adv.id <= n
    BY DEF OrderOf, Adverts
<1>2. \A k \in AdvertIds : h[k] = IF k = adv.id THEN <<r>> ELSE g[k]
  <2>1. Append(<<>>, r) = <<r>>
    OBVIOUS
  <2>2. QED
    BY <1>1, <2>1 DEF Histories, GivenTo
<1>3. \A b \in P \ {adv} : b.id # adv.id /\ b.id \in AdvertIds
    BY DEF OrderOf, Adverts
<1>4. \A i \in 1 .. Len(q) : IsAdvert(q[i]) => adv.id < q[i].id /\ q[i].id # adv.id
  <2>1. ASSUME NEW i \in 1 .. Len(q), IsAdvert(q[i]) PROVE adv.id < q[i].id /\ q[i].id # adv.id
    <3>1. adv.id < q[i].id
        BY <2>1 DEF OrderOf
    <3>2. adv.id \in Nat /\ q[i].id \in Nat
        BY <1>1, <2>1, AdvertIsReport DEF AdvertIds
    <3>3. QED
        BY <3>1, <3>2
  <2>2. QED
    BY <2>1
<1>5. OrderOf(q, P \ {adv}, h, n)
  <2>1. \A b \in P \ {adv} : b.id <= n /\ h[b.id] = <<>>
    BY <1>2, <1>3 DEF OrderOf
  <2>2. \A k \in AdvertIds : h[k] # <<>> => k = adv.id \/ g[k] # <<>>
    BY <1>2
  <2>3. \A i \in 1 .. Len(q) : IsAdvert(q[i]) => \A k \in AdvertIds : h[k] # <<>> => k < q[i].id
    BY <1>4, <2>2 DEF OrderOf
  <2>4. \A k \in AdvertIds : h[k] # <<>> => k <= n
    BY <1>1, <2>2 DEF OrderOf
  <2>5. QED
    BY <2>1, <2>3, <2>4 DEF OrderOf
<1>6. IdsOf(q, P \ {adv}) = IdsOf(q, P) \ {adv.id}
    BY <1>3, <1>4 DEF IdsOf
<1>7. adv.id \in IdsOf(q, P)
    BY DEF IdsOf
<1>8. QED
    BY <1>1, <1>5, <1>6, <1>7 DEF LeavesInOrder

\* The host's event joins the queue.
LEMMA EventJoins ==
    ASSUME NEW q \in Seq(Events), NEW P, NEW g \in Histories, NEW n \in Nat, NEW m \in Nat, n <= m,
           OrderOf(q, P, g, n), NEW ev \in Events, IsAdvert(ev) => n < ev.id /\ ev.id <= m
    PROVE  /\ OrderOf(q, P, g, m) /\ OrderOf(Append(q, ev), P, g, m)
           /\ IdsOf(Append(q, ev), P) = IdsOf(q, P) \cup (IF IsAdvert(ev) THEN {ev.id} ELSE {})
<1> DEFINE s == Append(q, ev)
<1>1. /\ Len(s) = Len(q) + 1 /\ Len(q) \in Nat /\ s[Len(q) + 1] = ev
      /\ \A i \in 1 .. Len(q) : i \in 1 .. Len(s) /\ s[i] = q[i]
      /\ \A i \in 1 .. Len(s) : i \in 1 .. Len(q) \/ i = Len(q) + 1
    BY AppendOf
<1>2. \A i \in 1 .. Len(q) : IsAdvert(q[i]) => q[i].id \in Nat
    BY AdvertIsReport
<1>3. OrderOf(q, P, g, m) /\ P \subseteq Adverts /\ \A adv \in P : adv.id \in Nat
  <2>1. P \subseteq Adverts /\ \A adv \in P : adv.id \in Nat
    BY DEF OrderOf, Adverts, AdvertIds
  <2>2. \A k \in AdvertIds : k \in Nat
    BY DEF AdvertIds
  <2>3. QED
    BY <1>2, <2>1, <2>2 DEF OrderOf
<1>4. IsAdvert(ev) => ev.id \in Nat
    BY AdvertIsReport
<1> HIDE DEF s
<1>5. ASSUME NEW i \in 1 .. Len(s), NEW j \in 1 .. Len(s), i < j, IsAdvert(s[i]), IsAdvert(s[j])
      PROVE  s[i].id < s[j].id
  <2>1. i \in 1 .. Len(q)
    BY <1>1, <1>5
  <2>2. CASE j \in 1 .. Len(q)
    BY <1>1, <1>5, <2>1, <2>2 DEF OrderOf
  <2>3. CASE j = Len(q) + 1
    <3>1. s[i].id <= n /\ s[i].id \in Nat
        BY <1>1, <1>2, <1>5, <2>1 DEF OrderOf
    <3>2. n < s[j].id /\ s[j].id \in Nat
        BY <1>1, <1>4, <1>5, <2>3
    <3>3. QED
        BY <3>1, <3>2
  <2>4. QED
    BY <1>1, <2>2, <2>3
<1>6. ASSUME NEW i \in 1 .. Len(s), IsAdvert(s[i])
      PROVE  /\ s[i].id <= m
             /\ \A adv \in P : adv.id < s[i].id
             /\ \A k \in AdvertIds : g[k] # <<>> => k < s[i].id
  <2>1. CASE i \in 1 .. Len(q)
    BY <1>1, <1>3, <1>6, <2>1 DEF OrderOf
  <2>2. CASE i = Len(q) + 1
    <3>1. s[i].id <= m /\ n < s[i].id /\ s[i].id \in Nat
        BY <1>1, <1>4, <1>6, <2>2
    <3>2. \A adv \in P : adv.id <= n /\ adv.id \in Nat
        BY <1>3 DEF OrderOf
    <3>3. \A k \in AdvertIds : k \in Nat /\ (g[k] # <<>> => k <= n)
        BY DEF OrderOf, AdvertIds
    <3>4. QED
        BY <3>1, <3>2, <3>3
  <2>3. QED
    BY <1>1, <2>1, <2>2
<1>7. OrderOf(s, P, g, m)
    BY <1>3, <1>5, <1>6 DEF OrderOf
<1>8. IdsOf(s, P) = IdsOf(q, P) \cup (IF IsAdvert(ev) THEN {ev.id} ELSE {})
  <2>1. ASSUME NEW i \in 1 .. Len(s), IsAdvert(s[i])
        PROVE  s[i].id \in IdsOf(q, P) \cup (IF IsAdvert(ev) THEN {ev.id} ELSE {})
    BY <1>1, <2>1 DEF IdsOf
  <2>2. ASSUME NEW i \in 1 .. Len(q), IsAdvert(q[i]) PROVE q[i].id \in IdsOf(s, P)
    BY <1>1, <2>2 DEF IdsOf
  <2>3. IsAdvert(ev) => ev.id \in IdsOf(s, P)
    <3>1. Len(q) + 1 \in 1 .. Len(s) /\ s[Len(q) + 1] = ev
        BY <1>1
    <3>2. QED
        BY <3>1 DEF IdsOf
  <2>4. QED
    BY <2>1, <2>2, <2>3 DEF IdsOf
<1>9. QED
    BY <1>3, <1>7, <1>8 DEF s

\* Steps, by what they do to what waits.
Gives(P, adv, response) ==
    /\ Pending' = P \ {adv}
    /\ given' = [given EXCEPT ![adv.id] = Append(@, response)]

NoneOf(device) == \A adv \in Pending : adv.device # device

TakesResponse(ev) ==
    \/ UNCHANGED <<Pending, given>>
    \/ \E adv \in Pending : adv.device = ev.device /\ Gives(Pending, adv, ev.id)

TakesAdvert(ev) ==
    LET new == AdvertOf(ev)
    IN  \/ Pending' = Pending \cup {new} /\ given' = given /\ NoneOf(ev.device)
        \/ Gives(Pending \cup {new}, new, NoResponse) /\ (ev.type = "STASH_ADV" => NoneOf(ev.device))
        \/ \E old \in Pending : old.device = ev.device /\ Gives(Pending \cup {new}, old, NoResponse)

Apart == held \cap KeptIn(agenda) = {}

WaitInv == Base /\ Apart /\ OrderOf(queue, Pending, given, sent)

LEMMA PopMoves ==
    ASSUME WaitInv, Pop, NEW ev, ev = Head(queue)
    PROVE  /\ Apart'
           /\ \/ ~IsAdvert(ev) /\ ev.type # "SCAN_RSP" /\ UNCHANGED <<Pending, given>>
              \/ ev.type = "SCAN_RSP" /\ TakesResponse(ev)
              \/ IsAdvert(ev) /\ TakesAdvert(ev)
<1>1. TypeOK /\ OrderOf(queue, Pending, given, sent) /\ queue \in Seq(Events) /\ queue # <<>>
      /\ given \in Histories /\ sent \in Nat
    BY PopIs, TypesAre DEF WaitInv, Base, Histories
<1>2. Pending = held
    BY <1>1, PopIs DEF Pending, KeptIn
<1>3. ASSUME agenda' \in Seq(Ops), ~Has(agenda', "keep") PROVE Apart' /\ Pending' = held'
    BY <1>3, NothingKept DEF Apart, Pending
<1>4. ASSUME agenda' \in {<<>>, <<Op("listeners")>>, EndOfScan} PROVE agenda' \in Seq(Ops) /\ ~Has(agenda', "keep")
    BY <1>4, CallsAre DEF Calls
<1>5. CASE ev.type = "SCAN_RSP"
  <2>1. Apart' /\ Pending' = held'
    BY <1>1, <1>3, <1>4, <1>5, PopIs, PopsResponse
  <2>2. TakesResponse(ev)
    BY <1>1, <1>2, <1>5, <2>1, PopsResponse DEF TakesResponse, Releases, Gives
  <2>3. QED
    BY <1>5, <2>1, <2>2
<1>6. ASSUME IsAdvert(ev)
      PROVE  /\ AdvertOf(ev) \in Adverts /\ AdvertOf(ev) \notin held
             /\ AdvertOf(ev).id = ev.id /\ AdvertOf(ev).device = ev.device
  <2>1. AdvertOf(ev) \notin Pending
    BY <1>1, <1>6, AdvertLeaves
  <2>2. QED
    BY <1>1, <1>2, <1>6, <2>1, PopIs
<1>7. ASSUME IsAdvert(ev), GivesAtOnce(ev.id)
      PROVE  Apart' /\ Gives(Pending \cup {AdvertOf(ev)}, AdvertOf(ev), NoResponse)
  <2>1. Apart' /\ Pending' = held'
    BY <1>3, <1>4, <1>7 DEF GivesAtOnce
  <2>2. QED
    BY <1>2, <1>6, <1>7, <2>1 DEF GivesAtOnce, Gives
<1>8. CASE ev.type = "STASH_ADV"
  <2>1. IsAdvert(ev)
    BY <1>8 DEF IsAdvert
  <2>2. ASSUME NEW old \in held, old.device = ev.device, Releases(old, NoResponse),
               agenda' = <<Op("listeners")>> \o <<Keep(AdvertOf(ev))>>
        PROVE  Apart' /\ TakesAdvert(ev)
    <3>1. KeptIn(agenda') = {AdvertOf(ev)}
        BY <1>6, <2>1, <2>2, KeepIsKept
    <3>2. Apart' /\ Pending' = (held \ {old}) \cup {AdvertOf(ev)}
        BY <1>6, <2>1, <2>2, <3>1 DEF Apart, Pending, Releases
    <3>3. Gives(Pending \cup {AdvertOf(ev)}, old, NoResponse)
        BY <1>2, <1>6, <2>1, <2>2, <3>2 DEF Gives, Releases
    <3>4. QED
        BY <1>2, <2>2, <3>2, <3>3 DEF TakesAdvert
  <2>3. ASSUME \A adv \in held : adv.device # ev.device, held' = held \cup {AdvertOf(ev)}, UNCHANGED <<given, agenda>>
        PROVE  Apart' /\ TakesAdvert(ev)
    <3>1. Apart' /\ Pending' = held'
        BY <1>1, <1>3, <1>4, <2>3, PopIs
    <3>2. QED
        BY <1>2, <2>3, <3>1 DEF TakesAdvert, NoneOf
  <2>4. ASSUME \A adv \in held : adv.device # ev.device, GivesAtOnce(ev.id)
        PROVE  Apart' /\ TakesAdvert(ev)
    BY <1>2, <1>7, <2>1, <2>4 DEF TakesAdvert, NoneOf
  <2>5. Apart' /\ TakesAdvert(ev)
    BY <1>1, <1>8, <2>2, <2>3, <2>4, PopsStash
  <2>6. QED
    BY <2>1, <2>5
<1>9. CASE ev.type = "DIRECT"
    BY <1>1, <1>7, <1>9, PopsDirect DEF IsAdvert, TakesAdvert
<1>10. CASE ev.type \notin {"SCAN_RSP", "STASH_ADV", "DIRECT"}
  <2>1. agenda' = EndOfScan /\ UNCHANGED <<held, given>>
    BY <1>1, <1>10, PopIs
  <2>2. Apart' /\ Pending' = held'
    BY <1>3, <1>4, <2>1
  <2>3. QED
    BY <1>2, <1>10, <2>1, <2>2 DEF IsAdvert
<1>11. QED
    BY <1>5, <1>8, <1>9, <1>10

\* The merger is left to itself, and the discovery procedure may end.
Rests ==
    /\ UNCHANGED <<Pending, given, sent>>
    /\ queue' \in {queue, Append(queue, ScanComplete)}
    /\ awaited' \in {awaited, NothingAwaited}

LEMMA Moves ==
    ASSUME WaitInv, [Next]_vars
    PROVE  /\ Apart'
           /\ \/ \E d \in Devices : (Advertise(d) \/ Respond(d)) /\ UNCHANGED <<Pending, given>>
              \/ Pop
              \/ \E adv \in Pending : Gives(Pending, adv, NoResponse) /\ UNCHANGED <<queue, sent, awaited>>
              \/ Rests
<1>1. TypeOK /\ Base /\ Apart /\ agenda \in Seq(Ops)
    BY TypesAre DEF WaitInv, Base
<1>2. ASSUME held' = held, KeptIn(agenda') = KeptIn(agenda) PROVE Apart' /\ Pending' = Pending
    BY <1>1, <1>2 DEF Apart, Pending
<1>3. ASSUME NEW d \in Devices, Advertise(d) \/ Respond(d), UNCHANGED mergerVars
      PROVE  Apart' /\ UNCHANGED <<Pending, given>>
    BY <1>2, <1>3 DEF mergerVars
<1>4. CASE Pop
    BY <1>4, PopMoves
<1>5. CASE Mild /\ UNCHANGED agenda
    BY <1>2, <1>5 DEF Mild, Rests
<1>6. CASE Mild /\ agenda = <<>> /\ agenda' \in FirstCalls
  <2>1. KeptIn(agenda) = {} /\ KeptIn(agenda') = {}
    BY <1>6, FirstCallsAre, NothingKept DEF KeptIn
  <2>2. QED
    BY <1>2, <1>6, <2>1 DEF Mild, Rests
<1>7. CASE KeepAdv /\ OutsideMerger
  <2>1. /\ agenda # <<>> /\ Head(agenda).what = "keep" /\ agenda' = Tail(agenda) /\ given' = given
        /\ held' = held \cup {Head(agenda).adv} /\ UNCHANGED <<queue, sent, awaited>>
    BY <1>7 DEF KeepAdv, Doing, OutsideMerger, hostVars
  <2>2. Len(Tail(agenda)) = 0
    <3>1. KeepIsLast
        BY <1>1 DEF Base, SlotInv
    <3>2. Head(agenda) = agenda[1] /\ Len(agenda) \in Nat \ {0} /\ Len(Tail(agenda)) = Len(agenda) - 1
          /\ Tail(agenda) \in Seq(Ops)
        BY <1>1, <2>1, TailOf
    <3>3. 1 \in 1 .. Len(agenda) /\ agenda[1].what = "keep"
        BY <2>1, <3>2
    <3>4. Len(agenda) = 1
        BY <3>1, <3>3 DEF KeepIsLast
    <3>5. QED
        BY <3>2, <3>4
  <2>3. KeptIn(Tail(agenda)) = {} /\ KeptIn(agenda) = {Head(agenda).adv}
    <3>1. KeptIn(Tail(agenda)) = {}
        BY <2>2 DEF KeptIn
    <3>2. QED
        BY <1>1, <2>1, <3>1, KeptTail
  <2>4. Apart' /\ Pending' = Pending
    BY <2>1, <2>3 DEF Apart, Pending
  <2>5. QED
    BY <2>1, <2>4 DEF Rests
<1>8. ASSUME NEW adv \in held, DeliverHeld(adv), OutsideMerger, agenda # <<>>, Head(agenda).what \in {"flush", "sweep"}
      PROVE  /\ Apart' /\ Gives(Pending, adv, NoResponse) /\ adv \in Pending
             /\ UNCHANGED <<queue, sent, awaited>>
  <2>1. GoesOn(<<Op("listeners")>>, agenda)
    BY <1>8 DEF DeliverHeld, Deliver, GoesOn, Calls
  <2>2. KeptIn(agenda') = KeptIn(agenda)
    BY <1>1, <1>8, <2>1, GoingOn
  <2>3. held' = held \ {adv} /\ given' = [given EXCEPT ![adv.id] = Append(@, NoResponse)]
    BY <1>8 DEF DeliverHeld, Deliver
  <2>4. Pending' = Pending \ {adv} /\ Apart'
    BY <1>1, <2>2, <2>3 DEF Apart, Pending
  <2>5. QED
    BY <1>8, <2>3, <2>4 DEF Gives, OutsideMerger, hostVars, Pending
<1>9. ASSUME Mild, agenda # <<>>, Head(agenda).what # "keep", NEW calls \in Calls, GoesOn(calls, Tail(agenda))
      PROVE  Apart' /\ Rests
    BY <1>1, <1>2, <1>9, GoingOn DEF Mild, Rests
<1>10. CASE Agenda
    BY <1>1, <1>7, <1>8, <1>9, <1>10, AgendaKinds
<1>11. QED
    BY <1>1, <1>3, <1>4, <1>5, <1>6, <1>10, Kinds

LEMMA WaitingIs ==
    /\ Waiting = IdsOf(queue, Pending)
    /\ Waiting' = IdsOf(queue', Pending')
BY DEF Waiting, IdsOf, Pending, KeptIn, IsAdvert

\* What a step of the tracker is to those who wait for advertisements.
TakesIn ==
    \E i \in AdvertIds :
       /\ i \notin Waiting /\ given[i] = <<>> /\ i = sent + 1
       /\ Waiting' = Waiting \cup {i} /\ given' = given

GivesOne ==
    \E i \in Waiting \cap AdvertIds, r \in 0 .. MaxAdverts :
       /\ Waiting' = Waiting \ {i}
       /\ given[i] = <<>> /\ given' = [given EXCEPT ![i] = Append(@, r)]

LEMMA PopKeepsOrder ==
    ASSUME WaitInv, Pop
    PROVE  /\ OrderOf(queue', Pending', given', sent')
           /\ GivesOne \/ UNCHANGED <<Waiting, given>>
<1> DEFINE q == queue P == Pending ev == Head(queue) new == AdvertOf(Head(queue))
<1>1. /\ TypeOK /\ q \in Seq(Events) /\ q # <<>> /\ queue' = Tail(q) /\ sent' = sent
      /\ given \in Histories /\ sent \in Nat /\ OrderOf(q, P, given, sent) /\ Tail(q) \in Seq(Events)
      /\ ev \in Events
    BY PopIs, TypesAre, TailOf DEF WaitInv, Base, Histories
<1>2. NoResponse \in 0 .. MaxAdverts
    BY TypesAre, <1>1 DEF NoResponse
<1>3. ASSUME NEW T, OrderOf(Tail(q), T, given, sent), IdsOf(Tail(q), T) = Waiting,
             NEW adv \in T, NEW r \in 0 .. MaxAdverts, Gives(T, adv, r)
      PROVE  OrderOf(queue', Pending', given', sent') /\ GivesOne
  <2>1. Pending' = T \ {adv} /\ given' = [given EXCEPT ![adv.id] = Append(@, r)]
    BY <1>3 DEF Gives
  <2>2. /\ OrderOf(Tail(q), T \ {adv}, given', sent)
        /\ IdsOf(Tail(q), T \ {adv}) = IdsOf(Tail(q), T) \ {adv.id}
        /\ adv.id \in IdsOf(Tail(q), T) /\ given[adv.id] = <<>> /\ adv.id \in AdvertIds
    <3>1. given' = GivenTo(given, adv.id, r)
        BY <2>1 DEF GivenTo
    <3>2. Tail(q) \in Seq(Events) /\ given \in Histories /\ sent \in Nat /\ OrderOf(Tail(q), T, given, sent)
          /\ adv \in T
        BY <1>1, <1>3
    <3>3. given[adv.id] = <<>>
        BY <3>2 DEF OrderOf
    <3>4. LeavesInOrder(Tail(q), T, GivenTo(given, adv.id, r), sent, adv)
        BY <3>2, AdvertGiven
    <3>5. QED
        BY <3>1, <3>3, <3>4 DEF LeavesInOrder
  <2>3. Waiting' = Waiting \ {adv.id}
    BY <1>1, <1>3, <2>1, <2>2, WaitingIs
  <2>4. QED
    BY <1>1, <1>3, <2>1, <2>2, <2>3 DEF GivesOne
<1>4. CASE ~IsAdvert(ev)
  <2>1. OrderOf(Tail(q), P, given, sent) /\ IdsOf(Tail(q), P) = Waiting
    BY <1>1, <1>4, TailKeepsOrder, OtherLeaves, WaitingIs
  <2>2. ASSUME UNCHANGED <<Pending, given>>
        PROVE  OrderOf(queue', Pending', given', sent') /\ UNCHANGED <<Waiting, given>>
    BY <1>1, <2>1, <2>2, WaitingIs
  <2>3. ev.type = "SCAN_RSP" => ev.id \in 0 .. MaxAdverts
    BY <1>1 DEF Events, Reports, ScanComplete, AdvertIds
  <2>4. QED
    BY <1>3, <1>4, <2>1, <2>2, <2>3, PopMoves DEF TakesResponse
<1>5. CASE IsAdvert(ev)
  <2>1. OrderOf(Tail(q), P \cup {new}, given, sent) /\ IdsOf(Tail(q), P \cup {new}) = Waiting
    BY <1>1, <1>5, AdvertLeaves, WaitingIs
  <2>2. TakesAdvert(ev)
    BY <1>5, PopMoves DEF IsAdvert
  <2>3. CASE Pending' = P \cup {new} /\ given' = given
    BY <1>1, <2>1, <2>3, WaitingIs
  <2>4. CASE Gives(P \cup {new}, new, NoResponse)
    BY <1>2, <1>3, <2>1, <2>4
  <2>5. ASSUME NEW old \in P, Gives(P \cup {new}, old, NoResponse)
        PROVE  OrderOf(queue', Pending', given', sent') /\ GivesOne
    BY <1>2, <1>3, <2>1, <2>5
  <2>6. QED
    BY <2>2, <2>3, <2>4, <2>5 DEF TakesAdvert
<1>6. QED
    BY <1>4, <1>5

\* A report joins the queue or is dropped.
LEMMA ReportJoins ==
    ASSUME WaitInv, NEW ev \in Events, Push(ev), sent' \in Nat, sent <= sent',
           IsAdvert(ev) => sent < ev.id /\ ev.id <= sent', UNCHANGED <<Pending, given>>
    PROVE  /\ OrderOf(queue', Pending', given', sent')
           /\ \/ UNCHANGED Waiting
              \/ IsAdvert(ev) /\ Waiting' = Waiting \cup {ev.id}
<1>1. /\ TypeOK /\ queue \in Seq(Events) /\ given \in Histories /\ sent \in Nat
      /\ OrderOf(queue, Pending, given, sent)
    BY TypesAre DEF WaitInv, Base, Histories
<1>2. /\ OrderOf(queue, Pending, given, sent') /\ OrderOf(Append(queue, ev), Pending, given, sent')
      /\ IdsOf(Append(queue, ev), Pending) = IdsOf(queue, Pending) \cup (IF IsAdvert(ev) THEN {ev.id} ELSE {})
    BY <1>1, EventJoins
<1>3. queue' \in {queue, Append(queue, ev)}
    BY <1>1, Pushes
<1>4. QED
    BY <1>2, <1>3, WaitingIs

LEMMA WaitStep ==
    ASSUME WaitInv, [Next]_vars
    PROVE  /\ WaitInv'
           /\ TakesIn \/ GivesOne \/ UNCHANGED <<Waiting, given>>
<1> DEFINE Kept == OrderOf(queue', Pending', given', sent')
           Shown == TakesIn \/ GivesOne \/ UNCHANGED <<Waiting, given>>
<1>1. /\ TypeOK /\ queue \in Seq(Events) /\ given \in Histories /\ sent \in Nat
      /\ OrderOf(queue, Pending, given, sent) /\ NoResponse \in 0 .. MaxAdverts
    BY TypesAre DEF WaitInv, Base, Histories, NoResponse
<1>2. Base' /\ Apart'
    BY BaseStep, Moves DEF WaitInv
<1>3. ASSUME NEW d \in Devices, Advertise(d), UNCHANGED <<Pending, given>> PROVE Kept /\ Shown
  <2>1. sent' = sent + 1 /\ sent + 1 \in AdvertIds
    BY <1>1, <1>3, TypesAre DEF Advertise, AdvertIds
  <2>2. PICK type \in {"STASH_ADV", "DIRECT"} : Push([type |-> type, id |-> sent + 1, device |-> d])
    BY <1>3 DEF Advertise
  <2>3. PICK ev \in Events : Push(ev) /\ IsAdvert(ev) /\ ev.id = sent + 1
    BY <2>1, <2>2 DEF Events, Reports, IsAdvert
  <2>4. Kept /\ (UNCHANGED Waiting \/ Waiting' = Waiting \cup {sent + 1})
    BY <1>1, <1>3, <2>1, <2>3, ReportJoins
  <2>5. sent + 1 \notin Waiting /\ given[sent + 1] = <<>>
    <3>1. \A adv \in Pending : adv.id \in Nat /\ adv.id <= sent
        BY <1>1 DEF OrderOf, Adverts, AdvertIds
    <3>2. \A i \in 1 .. Len(queue) : IsAdvert(queue[i]) => queue[i].id \in Nat /\ queue[i].id <= sent
        BY <1>1, AdvertIsReport DEF OrderOf
    <3>3. \A i \in IdsOf(queue, Pending) : i \in Nat /\ i <= sent
        BY <3>1, <3>2 DEF IdsOf
    <3>4. given[sent + 1] = <<>>
        <4>1. ~(sent + 1 <= sent)
            BY <1>1
        <4>2. QED
            BY <1>1, <2>1, <4>1 DEF OrderOf
    <3>5. QED
        BY <1>1, <3>3, <3>4, WaitingIs
  <2>6. QED
    BY <1>3, <2>1, <2>4, <2>5 DEF TakesIn
<1>4. ASSUME NEW d \in Devices, Respond(d), UNCHANGED <<Pending, given>> PROVE Kept /\ Shown
  <2>1. [type |-> "SCAN_RSP", id |-> awaited[d], device |-> d] \in Events
    BY <1>1, <1>4, TypesAre DEF Respond, Events, Reports, AdvertIds
  <2>2. PICK ev \in Events : Push(ev) /\ ~IsAdvert(ev) /\ sent' = sent
    BY <1>4, <2>1 DEF Respond, IsAdvert
  <2>3. Kept /\ UNCHANGED Waiting
    BY <1>1, <1>4, <2>2, ReportJoins
  <2>4. QED
    BY <1>4, <2>3
<1>5. ASSUME NEW adv \in Pending, Gives(Pending, adv, NoResponse), UNCHANGED <<queue, sent, awaited>>
      PROVE  Kept /\ Shown
  <2>1. Pending' = Pending \ {adv} /\ given' = [given EXCEPT ![adv.id] = Append(@, NoResponse)]
    BY <1>5 DEF Gives
  <2>2. /\ OrderOf(queue, Pending \ {adv}, given', sent)
        /\ IdsOf(queue, Pending \ {adv}) = IdsOf(queue, Pending) \ {adv.id}
        /\ adv.id \in IdsOf(queue, Pending) /\ given[adv.id] = <<>> /\ adv.id \in AdvertIds
    <3>1. given' = GivenTo(given, adv.id, NoResponse)
        BY <2>1 DEF GivenTo
    <3>2. queue \in Seq(Events) /\ given \in Histories /\ sent \in Nat /\ OrderOf(queue, Pending, given, sent)
          /\ adv \in Pending
        BY <1>1, <1>5
    <3>3. given[adv.id] = <<>>
        BY <3>2 DEF OrderOf
    <3>4. LeavesInOrder(queue, Pending, GivenTo(given, adv.id, NoResponse), sent, adv)
        BY <3>2, AdvertGiven
    <3>5. QED
        BY <3>1, <3>3, <3>4 DEF LeavesInOrder
  <2>3. QED
    BY <1>1, <1>5, <2>1, <2>2, WaitingIs DEF GivesOne
<1>6. ASSUME Rests PROVE Kept /\ Shown
  <2>1. ScanComplete \in Events /\ ~IsAdvert(ScanComplete)
    BY DEF Events, ScanComplete, IsAdvert
  <2>2. sent <= sent
    BY <1>1
  <2>3. OrderOf(Append(queue, ScanComplete), Pending, given, sent)
        /\ IdsOf(Append(queue, ScanComplete), Pending) = IdsOf(queue, Pending)
    BY <1>1, <2>1, <2>2, EventJoins
  <2>4. QED
    BY <1>1, <1>6, <2>3, WaitingIs DEF Rests
<1>7. CASE Pop
    BY <1>2, <1>7, PopKeepsOrder DEF WaitInv
<1>8. Kept /\ Shown
    BY <1>3, <1>4, <1>5, <1>6, Moves, PopKeepsOrder
<1>9. QED
    BY <1>2, <1>8 DEF WaitInv

LEMMA WaitInit ==
    ASSUME Init
    PROVE  WaitInv /\ Waiting = {} /\ \A i \in AdvertIds : given[i] = <<>>
<1>1. Base
    BY BaseInit
<1>2. held = {} /\ agenda = <<>> /\ queue = <<>> /\ sent = 0 /\ given = [i \in AdvertIds |-> <<>>]
    BY DEF Init, MergerInit
<1>3. Pending = {} /\ Apart
    BY <1>2 DEF Pending, KeptIn, Apart
<1>4. OrderOf(queue, Pending, given, sent)
    BY <1>2, <1>3 DEF OrderOf
<1>5. Waiting = {}
    BY <1>2, <1>3, WaitingIs DEF IdsOf
<1>6. QED
    BY <1>1, <1>2, <1>3, <1>4, <1>5 DEF WaitInv

Times == [i \in AdvertIds |-> Len(given[i])]

LEMMA DeliveryStep ==
    ASSUME WaitInv, [Next]_vars
    PROVE  [Delivery!Next]_<<Waiting, Times>>
<1>1. given \in Histories
    BY TypesAre DEF WaitInv, Base, Histories
<1>2. CASE TakesIn
  <2>1. PICK i \in AdvertIds : /\ i \notin Waiting /\ given[i] = <<>>
                               /\ Waiting' = Waiting \cup {i} /\ given' = given
    BY <1>2 DEF TakesIn
  <2>2. Times[i] = 0 /\ Times' = Times
    BY <2>1 DEF Times
  <2>3. Delivery!TakeIn(i)
    BY <2>1, <2>2 DEF Delivery!TakeIn, Times
  <2>4. QED
    BY <2>3 DEF Delivery!Next
<1>3. CASE GivesOne
  <2>1. PICK i \in Waiting \cap AdvertIds, r \in 0 .. MaxAdverts :
           /\ Waiting' = Waiting \ {i}
           /\ given[i] = <<>> /\ given' = [given EXCEPT ![i] = Append(@, r)]
    BY <1>3 DEF GivesOne
  <2>2. \A k \in AdvertIds : Len(given'[k]) = IF k = i THEN Len(given[k]) + 1 ELSE Len(given[k])
    <3>1. Len(Append(<<>>, r)) = 1 /\ Len(<<>>) = 0
        OBVIOUS
    <3>2. QED
        BY <1>1, <2>1, <3>1 DEF Histories
  <2>3. Times' = [Times EXCEPT ![i] = @ + 1]
    BY <2>2 DEF Times
  <2>4. Delivery!Give(i)
    BY <2>1, <2>3 DEF Delivery!Give, Times
  <2>5. QED
    BY <2>1, <2>4 DEF Delivery!Next
<1>4. CASE UNCHANGED <<Waiting, given>>
    BY <1>4 DEF Times
<1>5. QED
    BY <1>2, <1>3, <1>4, WaitStep

\* Whatever listeners call while they are given an advertisement, and in every
\* circumstance: an advertisement that the queue took waits in the queue, in the
\* merger's table or for the listeners' return until it is given, and is given once.
\* The tracker implements what is promised of deliveries.
THEOREM TrackerKeepsDelivery == Spec => KeepsDelivery
<1>1. Init => Delivery!Init
  <2>1. Init => Waiting = {} /\ Times = [a \in AdvertIds |-> 0]
    BY WaitInit DEF Times
  <2>2. QED
    BY <2>1 DEF Delivery!Init, Times
<1>2. Init => WaitInv
    BY WaitInit
<1>3. WaitInv /\ [Next]_vars => WaitInv'
    BY WaitStep
<1>4. WaitInv /\ [Next]_vars => [Delivery!Next]_<<Waiting, Times>>
    BY DeliveryStep
<1>5. QED
    BY <1>1, <1>2, <1>3, <1>4, PTL DEF Spec, KeepsDelivery, Delivery!Spec, Times

-----------------------------------------------------------------------------
(* What a scan response is merged with.  A response for advertisement r of *)
(* device d, at place p of the queue, follows r there, and no younger      *)
(* advertisement of d is before it.  While one that the host still awaits  *)
(* is not sent, its place is behind the queue.                             *)

Answerable(q, P, g, n, r, d, p) ==
    /\ r \in AdvertIds /\ r <= n
    /\ \A i \in 1 .. Len(q) : IsAdvert(q[i]) /\ q[i].device = d /\ i < p => q[i].id <= r
    /\ \A i \in 1 .. Len(q) : IsAdvert(q[i]) /\ q[i].id = r =>
          i < p /\ q[i].device = d /\ q[i].type = "STASH_ADV"
    /\ \A adv \in P : adv.id = r => adv.device = d
    /\ \A adv \in P : adv.device = d => adv.id <= r
    /\ g[r] # <<>> => \A adv \in P : adv.device = d => r <= adv.id

\* The responses that are in the queue, and those that the host may yet report.
Answer(q, aw, r, d, p) ==
    \/ p \in 1 .. Len(q) /\ q[p].type = "SCAN_RSP" /\ r = q[p].id /\ d = q[p].device
    \/ p = Len(q) + 1 /\ d \in Devices /\ r = aw[d] /\ r # 0

AnswersInv ==
    \A r, d, p : Answer(queue, awaited, r, d, p) => Answerable(queue, Pending, given, sent, r, d, p)

\* The merger holds or keeps at most one advertisement of a device.
OneEach == \A a, b \in Pending : a.device = b.device => a = b

LEMMA TailAnswerable ==
    ASSUME NEW q \in Seq(Events), q # <<>>, NEW P, NEW g, NEW n, NEW r, NEW d, NEW p \in Nat, 1 < p,
           Answerable(q, P, g, n, r, d, p)
    PROVE  Answerable(Tail(q), P, g, n, r, d, p - 1)
<1>1. \A i \in 1 .. Len(Tail(q)) : i + 1 \in 1 .. Len(q) /\ Tail(q)[i] = q[i + 1] /\ (i + 1 < p <=> i < p - 1)
    BY TailOf
<1>2. ASSUME NEW i \in 1 .. Len(Tail(q)), IsAdvert(Tail(q)[i]), Tail(q)[i].device = d, i < p - 1
      PROVE  Tail(q)[i].id <= r
    BY <1>1, <1>2 DEF Answerable
<1>3. ASSUME NEW i \in 1 .. Len(Tail(q)), IsAdvert(Tail(q)[i]), Tail(q)[i].id = r
      PROVE  i < p - 1 /\ Tail(q)[i].device = d /\ Tail(q)[i].type = "STASH_ADV"
    BY <1>1, <1>3 DEF Answerable
<1>4. QED
    BY <1>2, <1>3 DEF Answerable

LEMMA AdvertLeavesAnswerable ==
    ASSUME NEW q \in Seq(Events), q # <<>>, NEW P, NEW g \in Histories, NEW n \in Nat, OrderOf(q, P, g, n),
           NEW new, new = AdvertOf(Head(q)), IsAdvert(Head(q)),
           NEW r, NEW d, NEW p \in Nat, 1 < p, Answerable(q, P, g, n, r, d, p)
    PROVE  Answerable(Tail(q), P \cup {new}, g, n, r, d, p - 1)
<1>1. Len(q) \in Nat \ {0} /\ Head(q) = q[1] /\ Head(q) \in Events /\ 1 \in 1 .. Len(q)
    BY TailOf
<1>2. new.id = q[1].id /\ new.device = q[1].device /\ new.id \in Nat /\ IsAdvert(q[1])
    BY <1>1, AdvertIsReport DEF AdvertIds
<1>3. Answerable(Tail(q), P, g, n, r, d, p - 1) /\ r \in AdvertIds /\ r \in Nat
    BY TailAnswerable DEF Answerable, AdvertIds
<1>4. new.id = r => new.device = d
    BY <1>1, <1>2 DEF Answerable
<1>5. new.device = d => new.id <= r
    BY <1>1, <1>2 DEF Answerable
<1>6. g[r] # <<>> => r <= new.id
    BY <1>1, <1>2, <1>3 DEF OrderOf
<1>7. QED
    BY <1>3, <1>4, <1>5, <1>6 DEF Answerable

LEMMA GivenAnswerable ==
    ASSUME NEW q, NEW P \in SUBSET Adverts, NEW g \in Histories, NEW n, NEW adv \in P, NEW x,
           NEW h, h = GivenTo(g, adv.id, x),
           NEW r, NEW d, NEW p, Answerable(q, P, g, n, r, d, p),
           adv.id = r => \A b \in P \ {adv} : b.device = d => r <= b.id
    PROVE  Answerable(q, P \ {adv}, h, n, r, d, p)
<1>1. h[r] # <<>> => r = adv.id \/ g[r] # <<>>
    BY DEF GivenTo, Histories, Answerable
<1>2. QED
    BY <1>1 DEF Answerable

LEMMA JoinedAnswerable ==
    ASSUME NEW q \in Seq(Events), NEW P, NEW g, NEW n \in Nat, NEW m \in Nat, n <= m,
           NEW ev \in Events, IsAdvert(ev) => n < ev.id,
           NEW r, NEW d, NEW p \in Nat, NEW s \in Nat, p <= s, p <= Len(q) + 1,
           s > Len(q) + 1 /\ IsAdvert(ev) => ev.device # d,
           Answerable(q, P, g, n, r, d, p), p = s \/ p = Len(q) + 1
    PROVE  Answerable(q, P, g, m, r, d, p) /\ Answerable(Append(q, ev), P, g, m, r, d, s)
<1> DEFINE t == Append(q, ev)
<1>1. /\ Len(t) = Len(q) + 1 /\ Len(q) \in Nat /\ t[Len(q) + 1] = ev
      /\ \A i \in 1 .. Len(q) : i \in 1 .. Len(t) /\ t[i] = q[i]
      /\ \A i \in 1 .. Len(t) : i \in 1 .. Len(q) \/ i = Len(q) + 1
    BY AppendOf
<1>2. r \in AdvertIds /\ r \in Nat /\ r <= n /\ r <= m
    BY DEF Answerable, AdvertIds
<1>3. IsAdvert(ev) => ev.id \in Nat /\ ev.id # r
    BY <1>2, AdvertIsReport
<1>4. Answerable(q, P, g, m, r, d, p)
    BY <1>2 DEF Answerable
<1> HIDE DEF t
<1>5. ASSUME NEW i \in 1 .. Len(t), IsAdvert(t[i]), t[i].device = d, i < s
      PROVE  t[i].id <= r
  <2>1. CASE i \in 1 .. Len(q)
    <3>1. i < p
        BY <1>1, <1>5, <2>1
    <3>2. QED
        BY <1>1, <1>5, <2>1, <3>1 DEF Answerable
  <2>2. CASE i = Len(q) + 1
    BY <1>1, <1>5, <2>2
  <2>3. QED
    BY <1>1, <2>1, <2>2
<1>6. ASSUME NEW i \in 1 .. Len(t), IsAdvert(t[i]), t[i].id = r
      PROVE  i < s /\ t[i].device = d /\ t[i].type = "STASH_ADV"
  <2>1. i \in 1 .. Len(q)
    BY <1>1, <1>3, <1>6
  <2>2. i < p /\ t[i].device = d /\ t[i].type = "STASH_ADV"
    BY <1>1, <1>6, <2>1 DEF Answerable
  <2>3. QED
    BY <2>1, <2>2
<1>7. Answerable(t, P, g, m, r, d, s)
    BY <1>4, <1>5, <1>6 DEF Answerable
<1>8. QED
    BY <1>4, <1>7 DEF t

\* The host awaits a response to an advertisement it has just reported.
LEMMA NewAnswerable ==
    ASSUME NEW q \in Seq(Events), NEW P, NEW g \in Histories, NEW n \in Nat, OrderOf(q, P, g, n),
           n + 1 \in AdvertIds, NEW d, NEW ev \in Events,
           ev.type = "STASH_ADV", ev.id = n + 1, ev.device = d
    PROVE  /\ Answerable(q, P, g, n + 1, n + 1, d, Len(q) + 1)
           /\ Answerable(Append(q, ev), P, g, n + 1, n + 1, d, Len(q) + 2)
<1> DEFINE t == Append(q, ev)
<1>1. /\ Len(t) = Len(q) + 1 /\ Len(q) \in Nat /\ t[Len(q) + 1] = ev
      /\ \A i \in 1 .. Len(q) : i \in 1 .. Len(t) /\ t[i] = q[i]
      /\ \A i \in 1 .. Len(t) : i \in 1 .. Len(q) \/ i = Len(q) + 1
    BY AppendOf
<1>2. \A i \in 1 .. Len(q) : IsAdvert(q[i]) => q[i].id \in Nat /\ q[i].id <= n
    BY AdvertIsReport DEF OrderOf
<1>3. \A adv \in P : adv.id \in Nat /\ adv.id <= n
    BY DEF OrderOf, Adverts, AdvertIds
<1>4. g[n + 1] = <<>>
    BY DEF OrderOf
<1> HIDE DEF t
<1>5. Answerable(q, P, g, n + 1, n + 1, d, Len(q) + 1)
    BY <1>1, <1>2, <1>3, <1>4 DEF Answerable
<1>6. \A i \in 1 .. Len(t) : IsAdvert(t[i]) => t[i].id \in Nat /\ t[i].id <= n + 1
    BY <1>1, <1>2
<1>7. ASSUME NEW i \in 1 .. Len(t), IsAdvert(t[i]), t[i].id = n + 1
      PROVE  i < Len(q) + 2 /\ t[i].device = d /\ t[i].type = "STASH_ADV"
  <2>1. i = Len(q) + 1
    BY <1>1, <1>2, <1>7
  <2>2. QED
    BY <1>1, <2>1
<1>8. Answerable(t, P, g, n + 1, n + 1, d, Len(q) + 2)
    BY <1>3, <1>4, <1>6, <1>7 DEF Answerable
<1>9. QED
    BY <1>5, <1>8 DEF t

\* An event joins the queue, or does not: what the host knew before it still holds.
LEMMA JoinKeepsAnswers ==
    ASSUME WaitInv, AnswersInv, NEW ev \in Events, queue' \in {queue, Append(queue, ev)},
           UNCHANGED <<Pending, given>>, sent' \in Nat, sent <= sent', IsAdvert(ev) => sent < ev.id,
           NEW r, NEW d, NEW p, Answer(queue', awaited', r, d, p),
           p = Len(queue') + 1 => awaited'[d] = awaited[d] /\ (IsAdvert(ev) => ev.device # d),
           p \in 1 .. Len(queue') /\ p \notin 1 .. Len(queue) /\ ev.type = "SCAN_RSP" =>
              ev.device \in Devices /\ ev.id = awaited[ev.device] /\ ev.id # 0
    PROVE  Answerable(queue', Pending', given', sent', r, d, p)
<1>1. queue \in Seq(Events) /\ sent \in Nat
    BY TypesAre DEF WaitInv, Base
<1>2. /\ Len(Append(queue, ev)) = Len(queue) + 1 /\ Len(queue) \in Nat /\ Append(queue, ev)[Len(queue) + 1] = ev
      /\ \A i \in 1 .. Len(queue) : Append(queue, ev)[i] = queue[i]
      /\ \A i \in 1 .. Len(Append(queue, ev)) : i \in 1 .. Len(queue) \/ i = Len(queue) + 1
    BY <1>1, AppendOf
<1>3. ASSUME NEW k \in Nat, k <= p, p \in Nat, k <= Len(queue) + 1, k = p \/ k = Len(queue) + 1,
             Answer(queue, awaited, r, d, k), p > Len(queue) + 1 /\ IsAdvert(ev) => ev.device # d,
             queue' = queue => k = p
      PROVE  Answerable(queue', Pending', given', sent', r, d, p)
  <2>1. Answerable(queue, Pending, given, sent, r, d, k)
    BY <1>3 DEF AnswersInv
  <2>2. /\ Answerable(queue, Pending, given, sent', r, d, k)
        /\ Answerable(Append(queue, ev), Pending, given, sent', r, d, p)
    BY <1>1, <1>3, <2>1, JoinedAnswerable
  <2>3. QED
    BY <1>3, <2>2
<1>4. CASE queue' = queue
  <2>1. p \in Nat /\ p <= Len(queue) + 1 /\ Answer(queue, awaited, r, d, p)
    BY <1>2, <1>4 DEF Answer
  <2>2. QED
    BY <1>2, <1>3, <1>4, <2>1
<1>5. CASE queue' = Append(queue, ev) /\ queue' # queue
  <2>1. CASE p \in 1 .. Len(queue)
    <3>1. Answer(queue, awaited, r, d, p)
        BY <1>2, <1>5, <2>1 DEF Answer
    <3>2. QED
        BY <1>2, <1>3, <1>5, <2>1, <3>1
  <2>2. CASE p = Len(queue) + 1
    <3>1. ev.type = "SCAN_RSP" /\ r = ev.id /\ d = ev.device
        BY <1>2, <1>5, <2>2 DEF Answer
    <3>2. Answer(queue, awaited, r, d, p)
        BY <1>2, <1>5, <2>2, <3>1 DEF Answer
    <3>3. QED
        BY <1>2, <1>3, <1>5, <2>2, <3>2
  <2>3. CASE p = Len(queue) + 2
    <3>1. p = Len(queue') + 1
        BY <1>2, <1>5, <2>3
    <3>2. Answer(queue, awaited, r, d, Len(queue) + 1)
        BY <1>2, <1>5, <2>3, <3>1 DEF Answer
    <3>3. Len(queue) + 1 \in Nat /\ Len(queue) + 1 <= p /\ p \in Nat
        BY <1>2, <2>3
    <3>4. QED
        BY <1>3, <1>5, <3>1, <3>2, <3>3
  <2>4. QED
    BY <1>2, <1>5, <2>1, <2>2, <2>3 DEF Answer
<1>6. QED
    BY <1>4, <1>5

LEMMA AdvertiseKeepsAnswers ==
    ASSUME WaitInv, AnswersInv, NEW d \in Devices, Advertise(d), UNCHANGED <<Pending, given>>
    PROVE  AnswersInv'
<1>1. /\ queue \in Seq(Events) /\ sent \in Nat /\ given \in Histories /\ TypeOK
      /\ OrderOf(queue, Pending, given, sent) /\ awaited \in [Devices -> 0 .. MaxAdverts]
    BY TypesAre DEF WaitInv, Base, Histories
<1>2. sent' = sent + 1 /\ sent + 1 \in AdvertIds
    BY <1>1, TypesAre DEF Advertise, AdvertIds
<1>3. PICK type \in {"STASH_ADV", "DIRECT"} :
         /\ Push([type |-> type, id |-> sent + 1, device |-> d])
         /\ awaited' = [awaited EXCEPT ![d] = IF type = "DIRECT" THEN 0 ELSE sent + 1]
    BY DEF Advertise
<1>4. PICK ev \in Events : /\ Push(ev) /\ ev.type = type /\ ev.id = sent + 1 /\ ev.device = d
    BY <1>2, <1>3 DEF Events, Reports
<1>5. queue' \in {queue, Append(queue, ev)} /\ IsAdvert(ev) /\ ev.type # "SCAN_RSP"
    BY <1>1, <1>3, <1>4, Pushes DEF IsAdvert
<1>6. sent < ev.id /\ sent <= sent' /\ sent' \in Nat
    BY <1>1, <1>2, <1>4
<1>7. ASSUME NEW r, NEW c, NEW p, Answer(queue', awaited', r, c, p)
      PROVE  Answerable(queue', Pending', given', sent', r, c, p)
  <2>1. CASE p = Len(queue') + 1 /\ c = d
    <3>1. r = sent + 1 /\ type = "STASH_ADV"
        BY <1>1, <1>3, <1>7, <2>1 DEF Answer
    <3>2. /\ Answerable(queue, Pending, given, sent + 1, sent + 1, d, Len(queue) + 1)
          /\ Answerable(Append(queue, ev), Pending, given, sent + 1, sent + 1, d, Len(queue) + 2)
        BY <1>1, <1>2, <1>4, <3>1, NewAnswerable
    <3>3. Len(Append(queue, ev)) + 1 = Len(queue) + 2
        BY <1>1, AppendOf
    <3>4. QED
        BY <1>2, <1>5, <2>1, <3>1, <3>2, <3>3
  <2>2. CASE ~(p = Len(queue') + 1 /\ c = d)
    <3>1. p = Len(queue') + 1 => awaited'[c] = awaited[c] /\ ev.device # c
        BY <1>1, <1>3, <1>4, <1>7, <2>2 DEF Answer
    <3>2. QED
        BY <1>5, <1>6, <1>7, <3>1, JoinKeepsAnswers
  <2>3. QED
    BY <2>1, <2>2
<1>8. QED
    BY <1>7 DEF AnswersInv

LEMMA RespondKeepsAnswers ==
    ASSUME WaitInv, AnswersInv, NEW d \in Devices, Respond(d), UNCHANGED <<Pending, given>>
    PROVE  AnswersInv'
<1>1. queue \in Seq(Events) /\ sent \in Nat /\ TypeOK /\ awaited \in [Devices -> 0 .. MaxAdverts]
    BY TypesAre DEF WaitInv, Base
<1>2. [type |-> "SCAN_RSP", id |-> awaited[d], device |-> d] \in Events /\ awaited[d] # 0
    BY <1>1, TypesAre DEF Respond, Events, Reports, AdvertIds
<1>3. PICK ev \in Events : Push(ev) /\ ev.type = "SCAN_RSP" /\ ev.id = awaited[d] /\ ev.device = d
    BY <1>2 DEF Respond
<1>4. queue' \in {queue, Append(queue, ev)} /\ ~IsAdvert(ev)
    BY <1>1, <1>3, Pushes DEF IsAdvert
<1>5. sent' = sent /\ sent <= sent /\ awaited' = [awaited EXCEPT ![d] = 0]
    BY <1>1 DEF Respond
<1>6. ASSUME NEW r, NEW c, NEW p, Answer(queue', awaited', r, c, p)
      PROVE  Answerable(queue', Pending', given', sent', r, c, p)
  <2>1. p = Len(queue') + 1 => awaited'[c] = awaited[c]
    <3>1. Len(queue') \in Nat
        BY <1>1, <1>4, AppendOf
    <3>2. p = Len(queue') + 1 => c \in Devices /\ awaited'[c] # 0
        BY <1>6, <3>1 DEF Answer
    <3>3. QED
        BY <1>1, <1>5, <3>2
  <2>2. QED
    BY <1>1, <1>2, <1>3, <1>4, <1>5, <1>6, <2>1, JoinKeepsAnswers
<1>7. QED
    BY <1>6 DEF AnswersInv

LEMMA RestKeepsAnswers ==
    ASSUME WaitInv, AnswersInv, Rests
    PROVE  AnswersInv'
<1>1. queue \in Seq(Events) /\ sent \in Nat /\ TypeOK /\ awaited \in [Devices -> 0 .. MaxAdverts]
    BY TypesAre DEF WaitInv, Base
<1>2. ScanComplete \in Events /\ ~IsAdvert(ScanComplete) /\ ScanComplete.type # "SCAN_RSP"
    BY DEF Events, ScanComplete, IsAdvert
<1>3. /\ queue' \in {queue, Append(queue, ScanComplete)} /\ UNCHANGED <<Pending, given, sent>> /\ sent <= sent
      /\ awaited' \in {awaited, NothingAwaited}
    BY <1>1 DEF Rests
<1>4. ASSUME NEW r, NEW c, NEW p, Answer(queue', awaited', r, c, p)
      PROVE  Answerable(queue', Pending', given', sent', r, c, p)
  <2>1. Len(queue') \in Nat
    BY <1>1, <1>2, <1>3, AppendOf
  <2>2. p = Len(queue') + 1 => c \in Devices /\ awaited'[c] # 0
    BY <1>4, <2>1 DEF Answer
  <2>3. p = Len(queue') + 1 => awaited'[c] = awaited[c]
    BY <1>3, <2>2 DEF NothingAwaited
  <2>4. QED
    BY <1>1, <1>2, <1>3, <1>4, <2>3, JoinKeepsAnswers
<1>5. QED
    BY <1>4 DEF AnswersInv

LEMMA GiveKeepsAnswers ==
    ASSUME WaitInv, OneEach, AnswersInv, NEW adv \in Pending, Gives(Pending, adv, NoResponse),
           UNCHANGED <<queue, sent, awaited>>
    PROVE  AnswersInv' /\ OneEach'
<1>1. given \in Histories /\ Pending \in SUBSET Adverts
    BY TypesAre DEF WaitInv, Base, Histories, OrderOf
<1>2. Pending' = Pending \ {adv} /\ given' = GivenTo(given, adv.id, NoResponse)
    BY DEF Gives, GivenTo
<1>3. ASSUME NEW r, NEW d, NEW p, Answer(queue, awaited, r, d, p)
      PROVE  Answerable(queue, Pending \ {adv}, given', sent, r, d, p)
  <2>1. Answerable(queue, Pending, given, sent, r, d, p)
    BY <1>3 DEF AnswersInv
  <2>2. adv.id = r => \A b \in Pending \ {adv} : b.device # d
    BY <2>1 DEF Answerable, OneEach
  <2>3. QED
    BY <1>1, <1>2, <2>1, <2>2, GivenAnswerable
<1>4. AnswersInv'
    BY <1>2, <1>3 DEF AnswersInv
<1>5. OneEach'
    BY <1>2 DEF OneEach
<1>6. QED
    BY <1>4, <1>5

\* The place of an answer when one event has left the queue.
LEMMA AnswerMovesUp ==
    ASSUME NEW q \in Seq(Events), q # <<>>, NEW aw, NEW r, NEW d, NEW p, Answer(Tail(q), aw, r, d, p)
    PROVE  p \in Nat /\ p + 1 \in Nat /\ 1 < p + 1 /\ (p + 1) - 1 = p /\ Answer(q, aw, r, d, p + 1)
<1>1. /\ \A i \in 1 .. Len(Tail(q)) : i + 1 \in 1 .. Len(q) /\ Tail(q)[i] = q[i + 1]
      /\ Len(Tail(q)) = Len(q) - 1 /\ Len(q) \in Nat \ {0}
    BY TailOf
<1>2. p \in Nat /\ 1 <= p
    BY <1>1 DEF Answer
<1>3. ASSUME p \in 1 .. Len(Tail(q)), Tail(q)[p].type = "SCAN_RSP", r = Tail(q)[p].id, d = Tail(q)[p].device
      PROVE  Answer(q, aw, r, d, p + 1)
  <2>1. p + 1 \in 1 .. Len(q) /\ q[p + 1] = Tail(q)[p]
    BY <1>1, <1>3
  <2>2. QED
    BY <1>3, <2>1 DEF Answer
<1>4. ASSUME p = Len(Tail(q)) + 1, d \in Devices, r = aw[d], r # 0
      PROVE  Answer(q, aw, r, d, p + 1)
  <2>1. p + 1 = Len(q) + 1
    BY <1>1, <1>4
  <2>2. QED
    BY <1>4, <2>1 DEF Answer
<1>5. Answer(q, aw, r, d, p + 1)
    BY <1>3, <1>4 DEF Answer
<1>6. 1 < p + 1 /\ (p + 1) - 1 = p
    BY <1>2
<1>7. QED
    BY <1>2, <1>5, <1>6

LEMMA PopKeepsAnswers ==
    ASSUME WaitInv, OneEach, AnswersInv, Pop
    PROVE  AnswersInv' /\ OneEach'
<1> DEFINE ev == Head(queue) new == AdvertOf(Head(queue))
<1>1. /\ TypeOK /\ queue \in Seq(Events) /\ queue # <<>> /\ queue' = Tail(queue) /\ sent' = sent
      /\ awaited' = awaited /\ given \in Histories /\ sent \in Nat
      /\ OrderOf(queue, Pending, given, sent) /\ Pending \in SUBSET Adverts /\ ev \in Events
      /\ 1 \in 1 .. Len(queue) /\ queue[1] = ev
  <2>1. TypeOK /\ OrderOf(queue, Pending, given, sent)
    BY DEF WaitInv, Base
  <2>2. queue \in Seq(Events) /\ given \in Histories /\ sent \in Nat
    BY <2>1, TypesAre DEF Histories
  <2>3. Pending \in SUBSET Adverts
    BY <2>1 DEF OrderOf
  <2>4. queue # <<>> /\ queue' = Tail(queue) /\ sent' = sent /\ awaited' = awaited
    BY <2>1, PopIs
  <2>5. ev \in Events /\ 1 \in 1 .. Len(queue) /\ queue[1] = ev
    BY <2>2, <2>4, TailOf
  <2>6. QED
    BY <2>1, <2>2, <2>3, <2>4, <2>5
<1>2. ASSUME NEW r, NEW d, NEW p, Answer(queue', awaited', r, d, p)
      PROVE  /\ p + 1 \in Nat /\ 1 < p + 1 /\ (p + 1) - 1 = p
             /\ Answerable(queue, Pending, given, sent, r, d, p + 1)
    BY <1>1, <1>2, AnswerMovesUp DEF AnswersInv
<1>3. ASSUME NEW T \in SUBSET Adverts, NEW adv \in T, NEW x, Gives(T, adv, x),
             \A r, d, p : Answer(queue', awaited', r, d, p) =>
                /\ Answerable(Tail(queue), T, given, sent, r, d, p)
                /\ adv.id = r => \A b \in T \ {adv} : b.device = d => r <= b.id
      PROVE  AnswersInv'
  <2>1. Pending' = T \ {adv} /\ given' = GivenTo(given, adv.id, x)
    BY <1>3 DEF Gives, GivenTo
  <2>2. ASSUME NEW r, NEW d, NEW p, Answer(queue', awaited', r, d, p)
        PROVE  Answerable(Tail(queue), T \ {adv}, given', sent, r, d, p)
    <3>1. /\ Answerable(Tail(queue), T, given, sent, r, d, p)
          /\ adv.id = r => \A b \in T \ {adv} : b.device = d => r <= b.id
        BY <1>3, <2>2
    <3>2. adv \in T /\ T \in SUBSET Adverts
        BY <1>3
    <3>3. QED
        BY <1>1, <2>1, <3>1, <3>2, GivenAnswerable
  <2>3. QED
    BY <1>1, <2>1, <2>2 DEF AnswersInv
<1>4. CASE ~IsAdvert(ev)
  <2>1. ASSUME NEW r, NEW d, NEW p, Answer(queue', awaited', r, d, p)
        PROVE  Answerable(Tail(queue), Pending, given, sent, r, d, p)
    <3>1. Answerable(Tail(queue), Pending, given, sent, r, d, (p + 1) - 1)
        BY <1>1, <1>2, <2>1, TailAnswerable
    <3>2. QED
        BY <1>2, <2>1, <3>1
  <2>2. ASSUME UNCHANGED <<Pending, given>> PROVE AnswersInv' /\ OneEach'
    BY <1>1, <2>1, <2>2 DEF AnswersInv, OneEach
  <2>3. ASSUME NEW adv \in Pending, NEW x, Gives(Pending, adv, x) PROVE AnswersInv' /\ OneEach'
    <3>1. ASSUME NEW r, NEW d, NEW p, Answer(queue', awaited', r, d, p), adv.id = r
          PROVE  \A b \in Pending \ {adv} : b.device # d
        BY <2>1, <2>3, <3>1 DEF Answerable, OneEach
    <3>2. AnswersInv'
        BY <1>1, <1>3, <2>1, <2>3, <3>1
    <3>3. QED
        BY <2>3, <3>2 DEF Gives, OneEach
  <2>4. QED
    BY <1>4, <2>2, <2>3, PopMoves DEF TakesResponse
<1>5. CASE IsAdvert(ev)
  <2> DEFINE T == Pending \cup {new}
  <2>1. new \notin Pending /\ (\A b \in Pending : b.id < new.id) /\ new \in Adverts
        /\ new.id = ev.id /\ new.device = ev.device /\ new.id \in Nat
    <3>1. new \notin Pending /\ \A b \in Pending : b.id < new.id
        BY <1>1, <1>5, AdvertLeaves
    <3>2. QED
        BY <1>1, <1>5, <3>1, AdvertIsReport
  <2>2. ASSUME NEW r, NEW d, NEW p, Answer(queue', awaited', r, d, p)
        PROVE  Answerable(Tail(queue), T, given, sent, r, d, p)
    <3>1. Answerable(Tail(queue), T, given, sent, r, d, (p + 1) - 1)
        BY <1>1, <1>2, <1>5, <2>2, AdvertLeavesAnswerable
    <3>2. QED
        BY <1>2, <2>2, <3>1
  <2>3. T \in SUBSET Adverts
    BY <1>1, <2>1
  <2>4. CASE Pending' = T /\ given' = given /\ NoneOf(ev.device)
    <3>1. AnswersInv'
        BY <1>1, <2>2, <2>4 DEF AnswersInv
    <3>2. OneEach'
        BY <2>1, <2>4 DEF OneEach, NoneOf
    <3>3. QED
        BY <3>1, <3>2
  <2>5. CASE Gives(T, new, NoResponse) /\ (ev.type = "STASH_ADV" => NoneOf(ev.device))
    <3>1. ASSUME NEW r, NEW d, NEW p, Answer(queue', awaited', r, d, p), new.id = r
          PROVE  \A b \in T \ {new} : b.device # d
        <4>1. Answerable(queue, Pending, given, sent, r, d, p + 1)
            BY <1>2, <3>1
        <4>2. ev.type = "STASH_ADV" /\ ev.device = d
            BY <1>1, <1>5, <2>1, <3>1, <4>1 DEF Answerable
        <4>3. QED
            BY <2>5, <4>2 DEF NoneOf
    <3>2. AnswersInv'
        BY <1>3, <2>2, <2>3, <2>5, <3>1
    <3>3. Pending' = Pending
        BY <2>1, <2>5 DEF Gives
    <3>4. QED
        BY <3>2, <3>3 DEF OneEach
  <2>6. ASSUME NEW old \in Pending, old.device = ev.device, Gives(T, old, NoResponse)
        PROVE  AnswersInv' /\ OneEach'
    <3>1. ASSUME NEW r, NEW d, NEW p, Answer(queue', awaited', r, d, p), old.id = r
          PROVE  \A b \in T \ {old} : b.device = d => r <= b.id
        <4>1. old.device = d
            BY <2>2, <2>6, <3>1 DEF Answerable
        <4>2. \A b \in Pending \ {old} : b.device # d
            BY <2>6, <4>1 DEF OneEach
        <4>3. r <= new.id
            <5>1. old.id < new.id /\ old.id \in Nat
                BY <1>1, <2>1, <2>6 DEF Adverts, AdvertIds
            <5>2. QED
                BY <2>1, <3>1, <5>1
        <4>4. QED
            BY <4>2, <4>3
    <3>2. AnswersInv'
        <4>1. old \in T
            BY <2>6
        <4>2. QED
            BY <1>3, <2>2, <2>3, <2>6, <3>1, <4>1
    <3>3. Pending' = (Pending \ {old}) \cup {new}
        BY <2>1, <2>6 DEF Gives
    <3>4. OneEach'
        BY <2>1, <2>6, <3>3 DEF OneEach
    <3>5. QED
        BY <3>2, <3>4
  <2>7. TakesAdvert(ev)
    BY <1>5, PopMoves DEF IsAdvert
  <2>8. QED
    BY <2>4, <2>5, <2>6, <2>7 DEF TakesAdvert
<1>6. QED
    BY <1>4, <1>5

LEMMA AnswersStep ==
    ASSUME WaitInv, OneEach, AnswersInv, [Next]_vars
    PROVE  AnswersInv' /\ OneEach'
<1>1. ASSUME UNCHANGED Pending PROVE OneEach'
    BY <1>1 DEF OneEach
<1>2. QED
    BY <1>1, Moves, AdvertiseKeepsAnswers, RespondKeepsAnswers, RestKeepsAnswers, GiveKeepsAnswers,
       PopKeepsAnswers DEF Rests

LEMMA AnswersInit ==
    ASSUME Init
    PROVE  AnswersInv /\ OneEach
<1>1. held = {} /\ agenda = <<>> /\ queue = <<>> /\ awaited = NothingAwaited
    BY DEF Init, MergerInit
<1>2. Pending = {}
    BY <1>1 DEF Pending, KeptIn
<1>3. \A r, d, p : ~Answer(queue, awaited, r, d, p)
    BY <1>1 DEF Answer, NothingAwaited
<1>4. QED
    BY <1>2, <1>3 DEF AnswersInv, OneEach

\* The host reported r, and it is neither waiting nor was it ever given.
LostOf(g, W, n, r) == r \in AdvertIds /\ r <= n /\ g[r] = <<>> /\ r \notin W

MergeInv ==
    \A i \in AdvertIds : \A k \in 1 .. Len(given[i]) :
        given[i][k] \in {NoResponse, i} \/ LostOf(given, Waiting, sent, given[i][k])

\* What was lost is not reported again.
LEMMA LostStays ==
    ASSUME WaitInv, [Next]_vars, NEW r, LostOf(given, Waiting, sent, r)
    PROVE  LostOf(given', Waiting', sent', r)
<1>1. TypeOK /\ TypeOK' /\ given \in Histories
    BY WaitStep, TypesAre DEF WaitInv, Base, Histories
<1>2. sent \in Nat /\ sent' \in Nat /\ MaxAdverts \in Nat
    BY <1>1, TypesAre, MergerAssumption DEF TypeOK
<1>3. sent <= sent'
  <2>1. CASE Pop
    BY <1>1, <1>2, <2>1, PopIs
  <2>2. ASSUME NEW d \in Devices, Advertise(d) \/ Respond(d) PROVE sent <= sent'
    BY <1>2, <2>2 DEF Advertise, Respond
  <2>3. QED
    BY <1>2, <2>1, <2>2, Moves DEF Rests
<1>4. r \in Nat /\ r # sent + 1 /\ r <= sent'
    BY <1>2, <1>3 DEF LostOf, AdvertIds
<1>5. given'[r] = <<>> /\ r \notin Waiting'
    BY <1>1, <1>4, WaitStep DEF LostOf, TakesIn, GivesOne, Histories
<1>6. QED
    BY <1>4, <1>5 DEF LostOf

\* A response at the head of the queue, and an advertisement of its device that it is not for.
LEMMA NotItsAdvert ==
    ASSUME WaitInv, OneEach, AnswersInv, queue # <<>>, NEW ev, ev = Head(queue), ev.type = "SCAN_RSP",
           NEW adv \in Pending, adv.device = ev.device, adv.id # ev.id
    PROVE  LostOf(given, Waiting, sent, ev.id)
<1>1. /\ queue \in Seq(Events) /\ sent \in Nat /\ OrderOf(queue, Pending, given, sent)
    BY TypesAre DEF WaitInv, Base
<1>2. 1 \in 1 .. Len(queue) /\ queue[1] = ev
    BY <1>1, TailOf
<1>3. Answer(queue, awaited, ev.id, ev.device, 1)
    BY <1>2 DEF Answer
<1>4. Answerable(queue, Pending, given, sent, ev.id, ev.device, 1)
    BY <1>3 DEF AnswersInv
<1>5. ev.id \in AdvertIds /\ ev.id <= sent /\ ev.id \in Nat
    BY <1>4 DEF Answerable, AdvertIds
<1>6. adv.id \in Nat /\ adv.id <= ev.id
    BY <1>1, <1>4 DEF Answerable, OrderOf, Adverts, AdvertIds
<1>7. given[ev.id] = <<>>
    BY <1>4, <1>5, <1>6 DEF Answerable
<1>8. \A b \in Pending : b.id # ev.id
    BY <1>4 DEF Answerable, OneEach
<1>9. \A i \in 1 .. Len(queue) : IsAdvert(queue[i]) => queue[i].id # ev.id
    BY <1>4 DEF Answerable
<1>10. ev.id \notin Waiting
    BY <1>8, <1>9, WaitingIs DEF IdsOf
<1>11. QED
    BY <1>5, <1>7, <1>10 DEF LostOf

\* What listeners are given is merged with nothing, with its own response, or with
\* the response to an advertisement that was lost.
GivesOwn ==
    \E i \in AdvertIds, x \in 0 .. MaxAdverts :
        /\ given[i] = <<>> /\ given' = GivenTo(given, i, x)
        /\ x \in {NoResponse, i} \/ LostOf(given, Waiting, sent, x)

LEMMA OwnIsGiven ==
    ASSUME WaitInv, OneEach, AnswersInv, [Next]_vars
    PROVE  GivesOwn \/ UNCHANGED given
<1>1. /\ TypeOK /\ given \in Histories /\ queue \in Seq(Events) /\ NoResponse \in 0 .. MaxAdverts
      /\ OrderOf(queue, Pending, given, sent)
    BY TypesAre DEF WaitInv, Base, Histories, NoResponse
<1>2. ASSUME NEW adv, adv.id \in AdvertIds, given[adv.id] = <<>>, NEW P, Gives(P, adv, NoResponse)
      PROVE  GivesOwn
    BY <1>1, <1>2 DEF Gives, GivenTo, GivesOwn
<1>3. ASSUME NEW adv \in Pending PROVE adv.id \in AdvertIds /\ given[adv.id] = <<>>
    BY <1>1, <1>3 DEF OrderOf, Adverts
<1>4. CASE Pop
  <2> DEFINE ev == Head(queue)
  <2>1. queue # <<>> /\ ev \in Events
    BY <1>1, <1>4, PopIs
  <2>2. CASE ev.type = "SCAN_RSP" /\ TakesResponse(ev)
    <3>1. ASSUME NEW adv \in Pending, adv.device = ev.device, Gives(Pending, adv, ev.id)
          PROVE  GivesOwn
        <4>1. ev.id \in 0 .. MaxAdverts
            BY <2>1, <2>2 DEF Events, Reports, ScanComplete, AdvertIds
        <4>2. ev.id = adv.id \/ LostOf(given, Waiting, sent, ev.id)
            BY <2>1, <2>2, <3>1, NotItsAdvert
        <4>3. given' = GivenTo(given, adv.id, ev.id)
            BY <3>1 DEF Gives, GivenTo
        <4>4. QED
            BY <1>3, <4>1, <4>2, <4>3 DEF GivesOwn
    <3>2. QED
        BY <2>2, <3>1 DEF TakesResponse
  <2>3. CASE IsAdvert(ev) /\ TakesAdvert(ev)
    <3>1. AdvertOf(ev).id \in AdvertIds /\ given[AdvertOf(ev).id] = <<>>
        <4>1. 1 \in 1 .. Len(queue) /\ queue[1] = ev
            BY <1>1, <2>1, TailOf
        <4>2. AdvertOf(ev).id = ev.id /\ ev.id \in AdvertIds /\ ev.id \in Nat
            BY <2>1, <2>3, AdvertIsReport
        <4>3. given[ev.id] = <<>>
            BY <1>1, <2>3, <4>1, <4>2 DEF OrderOf
        <4>4. QED
            BY <4>2, <4>3
    <3>2. ASSUME Gives(Pending \cup {AdvertOf(ev)}, AdvertOf(ev), NoResponse) PROVE GivesOwn
        BY <1>2, <3>1, <3>2
    <3>3. ASSUME NEW old \in Pending, Gives(Pending \cup {AdvertOf(ev)}, old, NoResponse) PROVE GivesOwn
        BY <1>2, <1>3, <3>3
    <3>4. QED
        BY <2>3, <3>2, <3>3 DEF TakesAdvert
  <2>4. QED
    BY <1>4, <2>2, <2>3, PopMoves
<1>5. ASSUME NEW adv \in Pending, Gives(Pending, adv, NoResponse) PROVE GivesOwn
    BY <1>2, <1>3, <1>5
<1>6. QED
    BY <1>4, <1>5, Moves DEF Rests

LEMMA MergeStep ==
    ASSUME WaitInv, OneEach, AnswersInv, MergeInv, [Next]_vars
    PROVE  MergeInv'
<1>1. given \in Histories
    BY TypesAre DEF WaitInv, Base, Histories
<1>2. ASSUME NEW i \in AdvertIds, NEW k \in 1 .. Len(given[i]), NEW x, x = given[i][k]
      PROVE  x \in {NoResponse, i} \/ LostOf(given', Waiting', sent', x)
    BY <1>2, LostStays DEF MergeInv
<1>3. CASE UNCHANGED given
    BY <1>2, <1>3 DEF MergeInv
<1>4. CASE GivesOwn
  <2>1. PICK i \in AdvertIds, x \in 0 .. MaxAdverts :
           /\ given[i] = <<>> /\ given' = GivenTo(given, i, x)
           /\ x \in {NoResponse, i} \/ LostOf(given, Waiting, sent, x)
    BY <1>4 DEF GivesOwn
  <2>2. \A j \in AdvertIds : given'[j] = IF j = i THEN Append(<<>>, x) ELSE given[j]
    BY <1>1, <2>1 DEF GivenTo, Histories
  <2>3. Len(Append(<<>>, x)) = 1 /\ Append(<<>>, x)[1] = x
    OBVIOUS
  <2>4. x \in {NoResponse, i} \/ LostOf(given', Waiting', sent', x)
    BY <2>1, LostStays
  <2>5. ASSUME NEW j \in AdvertIds, NEW k \in 1 .. Len(given'[j])
        PROVE  given'[j][k] \in {NoResponse, j} \/ LostOf(given', Waiting', sent', given'[j][k])
    <3>1. CASE j = i
        BY <2>2, <2>3, <2>4, <2>5, <3>1
    <3>2. CASE j # i
        BY <1>2, <2>2, <2>5, <3>2
    <3>3. QED
        BY <3>1, <3>2
  <2>6. QED
    BY <2>5 DEF MergeInv
<1>5. QED
    BY <1>3, <1>4, OwnIsGiven

\* In every circumstance, and whatever the listeners call: an advertisement is given
\* with no response, with its own, or with the response to one of the same device
\* that the full queue dropped.
THEOREM MergedWithOwn == Spec => []MergedIsOwn
<1> DEFINE Inv == WaitInv /\ OneEach /\ AnswersInv /\ MergeInv
<1>1. Init => Inv
  <2>1. ASSUME Init PROVE MergeInv
    <3>1. \A i \in AdvertIds : Len(given[i]) = 0
        BY <2>1, WaitInit
    <3>2. QED
        BY <3>1 DEF MergeInv
  <2>2. QED
    BY <2>1, WaitInit, AnswersInit
<1>2. Inv /\ [Next]_vars => Inv'
    BY WaitStep, AnswersStep, MergeStep
<1>3. Inv => MergedIsOwn
    BY DEF MergeInv, MergedIsOwn, LostOf
<1>4. QED
    BY <1>1, <1>2, <1>3, PTL DEF Spec
=============================================================================
