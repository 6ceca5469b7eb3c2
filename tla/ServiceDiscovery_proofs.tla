------------------------ MODULE ServiceDiscovery_proofs ------------------------
(***************************************************************************)
(* Proofs about ServiceDiscovery, for any device, any queue and any user.  *)
(*                                                                         *)
(* The events of a discovery reach the engine in phases: all services,     *)
(* the characteristics of one service, the descriptors of one              *)
(* characteristic.  The host begins a phase when the engine asks for it,   *)
(* so what is queued and what the host is at are of one phase, and the     *)
(* cursors of that phase say which entry of the table grows.               *)
(*                                                                         *)
(* What a user reads and what the device has are sequences in the order of *)
(* handles, so they are equal when they have the same elements.  That they *)
(* do follows from the lists in the table: each is, in order, the handles  *)
(* that the device has there.  In each phase one list grows, and it, the   *)
(* events that wait and what the host has left make up those handles.      *)
(***************************************************************************)
EXTENDS ServiceDiscovery, SequenceTheorems, WellFoundedInduction, TLAPS

Kinds == {"services", "characteristics", "descriptors"}

Events ==
    {e \in [type : Kinds \cup {"disconnect"}, handle : Nat, handle2 : Int] :
        e.type = "characteristics" => e.handle2 \in Nat}

Svcs == [start : Nat \ {0}, end : Int, first : Nat, count : Nat]
Chrs == [value : Nat, end : Int, first : Nat, count : Nat]
Tables == [services : Seq(Svcs), characteristics : Seq(Chrs), descriptors : Seq(Nat)]

Procs == [kind : Kinds, next : Nat \ {0}, last : Int]

TypeInv ==
    /\ db \in Seq(Roles)
    /\ linked \in BOOLEAN /\ released \in BOOLEAN
    /\ proc # NoProc => proc \in Procs
    /\ queue \in Seq(Events)
    /\ table \in Tables
    /\ svcIndex \in Nat /\ chrIndex \in Nat

-----------------------------------------------------------------------------
(* The events of one phase, and what ends it.                              *)

\* A connection's end is the last event.  A procedure's end is the last event of its
\* phase, and the host is at nothing then.
Ordered(q, l, p) ==
    /\ \A i \in 1 .. Len(q) : q[i].type = "disconnect" => i = Len(q) /\ ~l
    /\ \A i \in 1 .. Len(q) : q[i].type # "disconnect" /\ q[i].handle = NoAttribute =>
          p = NoProc /\ \A j \in 1 .. Len(q) : i < j => q[j].type = "disconnect"
    /\ \A i, j \in 1 .. Len(q) :
          q[i].type # "disconnect" /\ q[j].type # "disconnect" => q[i].type = q[j].type
    /\ p # NoProc => l /\ \A i \in 1 .. Len(q) : q[i].type = p.kind

\* The phase is not over.
Busy(q, p, k) == (p # NoProc /\ p.kind = k) \/ \E i \in 1 .. Len(q) : q[i].type = k

\* What is under way or queued is of one phase.
LEMMA OnePhase ==
    ASSUME NEW q, NEW l, NEW p, Ordered(q, l, p), NEW k \in Kinds, NEW m \in Kinds,
           Busy(q, p, k), Busy(q, p, m)
    PROVE  k = m
BY DEF Ordered, Busy, Kinds

\* What the host pushes while it is at p, and is at p2 afterwards.
LEMMA Joins ==
    ASSUME NEW q \in Seq(Events), NEW f \in Seq(Events), NEW p, NEW p2, NEW l2, Ordered(q, TRUE, p),
           \A i \in 1 .. Len(f) : f[i].type = "disconnect" => i = Len(f) /\ ~l2,
           \A i \in 1 .. Len(f) : f[i].type # "disconnect" =>
              /\ p # NoProc /\ f[i].type = p.kind
              /\ f[i].handle = NoAttribute =>
                    p2 = NoProc /\ \A j \in 1 .. Len(f) : i < j => f[j].type = "disconnect",
           p2 # NoProc => /\ l2 /\ p # NoProc /\ p2.kind = p.kind
                          /\ \A i \in 1 .. Len(f) : f[i].type # "disconnect"
    PROVE  Ordered(q \o f, l2, p2) /\ \A k \in Kinds : Busy(q \o f, p2, k) => Busy(q, p, k)
<1> DEFINE s == q \o f
           n == Len(q)
<1>1. /\ n \in Nat /\ Len(f) \in Nat /\ Len(s) = n + Len(f)
      /\ \A i \in 1 .. Len(s) : IF i <= n THEN i \in 1 .. n /\ s[i] = q[i]
                                ELSE i - n \in 1 .. Len(f) /\ s[i] = f[i - n] /\ (i = Len(s) <=> i - n = Len(f))
    BY ConcatProperties, LenProperties
<1> HIDE DEF s, n
<1>2. \A i \in 1 .. n : q[i].type # "disconnect"
    BY DEF Ordered, n
<1>3. \A i, j \in 1 .. n : q[i].type = q[j].type
    BY <1>2 DEF Ordered, n
<1>4. \A i \in 1 .. n : p # NoProc => q[i].type = p.kind
    BY DEF Ordered, n
<1>5. ASSUME NEW i \in 1 .. Len(s), s[i].type = "disconnect" PROVE i = Len(s) /\ ~l2
    BY <1>1, <1>2, <1>5
<1>6. ASSUME NEW i \in 1 .. Len(s), s[i].type # "disconnect", s[i].handle = NoAttribute
      PROVE  p2 = NoProc /\ \A j \in 1 .. Len(s) : i < j => s[j].type = "disconnect"
  <2>1. CASE i <= n
    <3>1. p = NoProc /\ \A j \in 1 .. n : ~(i < j)
        BY <1>1, <1>2, <1>6, <2>1 DEF Ordered, n
    <3>2. p2 = NoProc /\ \A j \in 1 .. Len(f) : f[j].type = "disconnect"
        BY <3>1
    <3>3. ASSUME NEW j \in 1 .. Len(s), i < j PROVE s[j].type = "disconnect"
        <4>1. j <= n => j \in 1 .. n
            BY <1>1
        <4>2. ~(j <= n)
            BY <3>1, <3>3, <4>1
        <4>3. j - n \in 1 .. Len(f) /\ s[j] = f[j - n]
            BY <1>1, <4>2
        <4>4. QED
            BY <3>2, <4>3
    <3>4. QED
        BY <3>2, <3>3
  <2>2. CASE ~(i <= n)
    <3>1. i - n \in 1 .. Len(f) /\ f[i - n].type # "disconnect" /\ f[i - n].handle = NoAttribute
        BY <1>1, <1>6, <2>2
    <3>2. p2 = NoProc /\ \A j \in 1 .. Len(f) : i - n < j => f[j].type = "disconnect"
        BY <3>1
    <3>3. ASSUME NEW j \in 1 .. Len(s), i < j PROVE s[j].type = "disconnect"
        <4>1. ~(j <= n) /\ i - n < j - n
            BY <1>1, <2>2, <3>3
        <4>2. j - n \in 1 .. Len(f) /\ s[j] = f[j - n]
            BY <1>1, <4>1
        <4>3. QED
            BY <3>2, <4>1, <4>2
    <3>4. QED
        BY <3>2, <3>3
  <2>3. QED
    BY <2>1, <2>2
<1>7. ASSUME NEW i \in 1 .. Len(s), NEW j \in 1 .. Len(s), s[i].type # "disconnect", s[j].type # "disconnect"
      PROVE  s[i].type = s[j].type
  <2>1. ASSUME NEW m \in 1 .. Len(s), s[m].type # "disconnect", ~(m <= n) PROVE p # NoProc /\ s[m].type = p.kind
    BY <1>1, <2>1
  <2>2. ASSUME NEW m \in 1 .. Len(s), m <= n PROVE m \in 1 .. n /\ s[m] = q[m]
    BY <1>1, <2>2
  <2>3. QED
    BY <1>3, <1>4, <1>7, <2>1, <2>2
<1>8. ASSUME p2 # NoProc PROVE l2 /\ \A i \in 1 .. Len(s) : s[i].type = p2.kind
    BY <1>1, <1>4, <1>8
<1>9. Ordered(s, l2, p2)
    BY <1>5, <1>6, <1>7, <1>8 DEF Ordered
<1>10. ASSUME NEW k \in Kinds, Busy(s, p2, k) PROVE Busy(q, p, k)
  <2>1. ASSUME NEW i \in 1 .. Len(s), s[i].type = k PROVE Busy(q, p, k)
    <3>1. k # "disconnect"
        BY DEF Kinds
    <3>2. QED
        BY <1>1, <2>1, <3>1 DEF Busy, n
  <2>2. QED
    BY <1>10, <2>1 DEF Busy
<1>11. QED
    BY <1>9, <1>10 DEF s

\* What is left of a queue when its first event is taken.
LEMMA TailOf ==
    ASSUME NEW q \in Seq(Events), q # <<>>
    PROVE  /\ Tail(q) \in Seq(Events) /\ Len(q) \in Nat \ {0} /\ Len(Tail(q)) = Len(q) - 1
           /\ Head(q) = q[1] /\ 1 \in 1 .. Len(q) /\ Head(q) \in Events
           /\ \A i \in 1 .. Len(Tail(q)) : i + 1 \in 1 .. Len(q) /\ Tail(q)[i] = q[i + 1]
<1>1. Len(q) \in Nat \ {0} /\ Head(q) = q[1]
    BY EmptySeq
<1>2. QED
    BY <1>1, HeadTailProperties

\* An event leaves the queue.
LEMMA Leaves ==
    ASSUME NEW q \in Seq(Events), q # <<>>, NEW l, NEW p, Ordered(q, l, p)
    PROVE  Ordered(Tail(q), l, p) /\ \A k \in Kinds : Busy(Tail(q), p, k) => Busy(q, p, k)
<1>1. /\ Len(q) \in Nat \ {0} /\ Len(Tail(q)) = Len(q) - 1
      /\ \A i \in 1 .. Len(Tail(q)) : i + 1 \in 1 .. Len(q) /\ Tail(q)[i] = q[i + 1]
    BY TailOf
<1>2. Ordered(Tail(q), l, p)
  <2>1. ASSUME NEW i \in 1 .. Len(Tail(q)), Tail(q)[i].type = "disconnect"
        PROVE  i = Len(Tail(q)) /\ ~l
    <3>1. i + 1 \in 1 .. Len(q) /\ q[i + 1].type = "disconnect"
        BY <1>1, <2>1
    <3>2. i + 1 = Len(q) /\ ~l
        BY <3>1 DEF Ordered
    <3>3. i \in 1 .. Len(Tail(q)) /\ Len(q) \in Nat /\ Len(Tail(q)) = Len(q) - 1
        BY <1>1, <2>1
    <3>4. i = Len(Tail(q))
        BY <3>2, <3>3
    <3>5. QED
        BY <3>2, <3>4
  <2>2. ASSUME NEW i \in 1 .. Len(Tail(q)), Tail(q)[i].type # "disconnect", Tail(q)[i].handle = NoAttribute
        PROVE  p = NoProc /\ \A j \in 1 .. Len(Tail(q)) : i < j => Tail(q)[j].type = "disconnect"
    <3>1. p = NoProc /\ \A j \in 1 .. Len(q) : i + 1 < j => q[j].type = "disconnect"
        BY <1>1, <2>2 DEF Ordered
    <3>2. \A j \in 1 .. Len(Tail(q)) : i < j => i + 1 < j + 1
        BY <1>1
    <3>3. QED
        BY <1>1, <3>1, <3>2
  <2>3. ASSUME NEW i \in 1 .. Len(Tail(q)), NEW j \in 1 .. Len(Tail(q)),
               Tail(q)[i].type # "disconnect", Tail(q)[j].type # "disconnect"
        PROVE  Tail(q)[i].type = Tail(q)[j].type
    <3>1. /\ i + 1 \in 1 .. Len(q) /\ Tail(q)[i] = q[i + 1]
          /\ j + 1 \in 1 .. Len(q) /\ Tail(q)[j] = q[j + 1]
        BY <1>1
    <3>2. QED
        BY <2>3, <3>1 DEF Ordered
  <2>4. p # NoProc => l /\ \A i \in 1 .. Len(Tail(q)) : Tail(q)[i].type = p.kind
    BY <1>1 DEF Ordered
  <2>5. QED
    BY <2>1, <2>2, <2>3, <2>4 DEF Ordered
<1>3. QED
    BY <1>1, <1>2 DEF Busy

\* The end of a procedure leaves the queue: its phase is over, and p2 the next.
LEMMA PhaseEnds ==
    ASSUME NEW q \in Seq(Events), q # <<>>, NEW l \in BOOLEAN, NEW p, Ordered(q, l, p),
           Head(q).type # "disconnect", Head(q).handle = NoAttribute,
           NEW p2, p2 # NoProc => l
    PROVE  /\ p = NoProc /\ Ordered(Tail(q), l, p2)
           /\ \A k \in Kinds : Busy(Tail(q), p2, k) => p2 # NoProc /\ p2.kind = k
<1>1. /\ Len(q) \in Nat \ {0} /\ Len(Tail(q)) = Len(q) - 1 /\ Head(q) = q[1] /\ 1 \in 1 .. Len(q)
      /\ \A i \in 1 .. Len(Tail(q)) : i + 1 \in 1 .. Len(q) /\ Tail(q)[i] = q[i + 1]
    BY TailOf
<1>2. p = NoProc /\ \A j \in 1 .. Len(q) : 1 < j => q[j].type = "disconnect"
    BY <1>1 DEF Ordered
<1>3. ASSUME NEW i \in 1 .. Len(Tail(q))
      PROVE  Tail(q)[i].type = "disconnect" /\ i = Len(Tail(q)) /\ ~l
  <2>1. i + 1 \in 1 .. Len(q) /\ Tail(q)[i] = q[i + 1] /\ 1 < i + 1
    BY <1>1
  <2>2. q[i + 1].type = "disconnect"
    BY <1>2, <2>1
  <2>3. i + 1 = Len(q) /\ ~l
    BY <2>1, <2>2 DEF Ordered
  <2>4. i \in 1 .. Len(Tail(q)) /\ Len(q) \in Nat /\ Len(Tail(q)) = Len(q) - 1
    BY <1>1, <1>3
  <2>5. i = Len(Tail(q))
    BY <2>3, <2>4
  <2>6. QED
    BY <2>1, <2>2, <2>3, <2>5
<1>4. Ordered(Tail(q), l, p2)
    BY <1>3 DEF Ordered
<1>5. QED
    BY <1>2, <1>3, <1>4 DEF Busy, Kinds

\* The end of the connection leaves the queue, which is empty then.
LEMMA ConnectionEnds ==
    ASSUME NEW q \in Seq(Events), q # <<>>, NEW l \in BOOLEAN, NEW p, Ordered(q, l, p),
           Head(q).type = "disconnect"
    PROVE  \A k \in Kinds : ~Busy(Tail(q), p, k)
<1>1. /\ Len(q) \in Nat \ {0} /\ Len(Tail(q)) = Len(q) - 1 /\ Head(q) = q[1] /\ 1 \in 1 .. Len(q)
    BY TailOf
<1>2. q[1].type = "disconnect"
    BY <1>1
<1>3. 1 = Len(q) /\ p = NoProc
    BY <1>1, <1>2 DEF Ordered
<1>4. \A i \in 1 .. Len(Tail(q)) : FALSE
    BY <1>1, <1>3
<1>5. QED
    BY <1>3, <1>4 DEF Busy

-----------------------------------------------------------------------------
(* Least elements, and what fits the queue.                                *)

\* A nonempty set of naturals has a least element, by well-founded induction.
LEMMA LeastExists ==
    ASSUME NEW S \in SUBSET Nat, S # {}
    PROVE  \E i \in S : \A j \in S : i <= j
<1>1. IsWellFoundedOn(OpToRel(<, Nat), Nat)
    BY NatLessThanWellFounded
<1>2. PICK x \in S : \A y \in S : <<y, x>> \notin OpToRel(<, Nat)
    BY <1>1, WFMin
<1>3. ASSUME NEW j \in S PROVE x <= j
  <2>1. x \in Nat /\ j \in Nat /\ <<j, x>> \in Nat \X Nat /\ <<j, x>>[1] = j /\ <<j, x>>[2] = x
    BY <1>3
  <2>2. ~(j < x)
    BY <1>2, <2>1, Zenon DEF OpToRel
  <2>3. QED
    BY <2>1, <2>2
<1>4. QED
    BY <1>3

\* So CHOOSE and Min find it.
LEMMA LeastNat ==
    ASSUME NEW S \in SUBSET Nat, S # {}
    PROVE  /\ (CHOOSE i \in S : \A j \in S : i <= j) \in S
           /\ \A k \in S : (CHOOSE i \in S : \A j \in S : i <= j) <= k
           /\ Min(S) \in S /\ \A k \in S : Min(S) <= k
<1>1. \E i \in S : \A j \in S : i <= j
    BY LeastExists
<1>2. QED
    BY <1>1 DEF Min

\* Min of two numbers.
LEMMA MinOfTwo ==
    ASSUME NEW a \in Int, NEW b \in Int
    PROVE  Min({a, b}) \in Int /\ Min({a, b}) <= a
<1>1. \E x \in {a, b} : \A y \in {a, b} : x <= y
  <2>1. CASE a <= b
    BY <2>1
  <2>2. CASE b <= a
    BY <2>2
  <2>3. QED
    BY <2>1, <2>2
<1>2. Min({a, b}) \in {a, b} /\ \A y \in {a, b} : Min({a, b}) <= y
    BY <1>1 DEF Min
<1>3. QED
    BY <1>2

\* Max of two numbers.
LEMMA MaxOfTwo ==
    ASSUME NEW a \in Nat, NEW b \in Nat
    PROVE  Max({a, b}) \in Nat
<1>1. \E x \in {a, b} : \A y \in {a, b} : x >= y
  <2>1. CASE a >= b
    BY <2>1
  <2>2. CASE b >= a
    BY <2>2
  <2>3. QED
    BY <2>1, <2>2
<1>2. QED
    BY <1>1 DEF Max

\* A service ends at a handle.
LEMMA ServiceEnds ==
    ASSUME NEW d \in Seq(Roles), NEW h \in Nat
    PROVE  ServiceEnd(d, h) \in Int
<1> DEFINE next == {i \in h + 1 .. Len(d) : d[i] = "svc"}
<1>1. Len(d) \in Nat /\ next \in SUBSET Nat
    BY LenProperties
<1>2. CASE next = {}
    BY <1>1, <1>2 DEF ServiceEnd
<1>3. CASE next # {}
  <2> DEFINE least == CHOOSE i \in next : \A j \in next : i <= j
  <2>1. least \in next
    BY <1>1, <1>3, LeastNat
  <2>2. least \in Nat
    BY <1>1, <2>1
  <2>3. ServiceEnd(d, h) = least - 1
    BY <1>3 DEF ServiceEnd
  <2>4. QED
    BY <2>2, <2>3
<1>4. QED
    BY <1>2, <1>3

\* What fits into the queue is a prefix of what is pushed.
LEMMA Fits ==
    ASSUME TypeInv, NEW es \in Seq(Events), NEW f, f = Fitting(es)
    PROVE  /\ f \in Seq(Events) /\ Len(f) \in Nat /\ Len(f) <= Len(es) /\ Len(es) \in Nat
           /\ \A i \in 1 .. Len(f) : i \in 1 .. Len(es) /\ f[i] = es[i]
<1> DEFINE room == QueueCapacity - Len(queue)
           m == Min({Len(es), room})
<1>1. Len(es) \in Nat /\ room \in Int /\ \A i \in 1 .. Len(es) : es[i] \in Events
    BY LenProperties, ElementOfSeq, QueueCapacityAssumption DEF TypeInv
<1>2. f = SubSeq(es, 1, m)
    BY DEF Fitting
<1> HIDE DEF room
<1>3. m \in Int /\ m <= Len(es)
  <2>1. Len(es) \in Int /\ room \in Int
    BY <1>1
  <2>2. QED
    BY <2>1, MinOfTwo, Zenon
<1> HIDE DEF m
<1>4. \A i \in 1 .. m : i \in 1 .. Len(es) /\ es[i] \in Events
    BY <1>1, <1>3
<1>5. /\ f \in Seq(Events) /\ Len(f) = IF 1 <= m THEN m - 1 + 1 ELSE 0
      /\ \A i \in 1 .. m - 1 + 1 : f[i] = es[1 + i - 1]
    BY <1>2, <1>3, <1>4, SubSeqProperties
<1>6. /\ Len(f) \in Nat /\ Len(f) <= Len(es)
      /\ \A i \in 1 .. Len(f) : i \in 1 .. m
    BY <1>1, <1>3, <1>5
<1>7. \A i \in 1 .. m : i \in 1 .. m - 1 + 1 /\ 1 + i - 1 = i
    BY <1>3
<1>8. \A i \in 1 .. Len(f) : i \in 1 .. Len(es) /\ f[i] = es[i]
    BY <1>4, <1>5, <1>6, <1>7
<1>9. QED
    BY <1>1, <1>5, <1>6, <1>8

\* An attribute that the host finds is reported by an event of the procedure's phase.
LEMMA FoundIs ==
    ASSUME TypeInv, proc # NoProc, NEW h \in Left(proc), NEW e, e = Found(proc.kind, h)
    PROVE  e \in Events /\ e.type = proc.kind /\ e.handle # NoAttribute /\ h + 1 \in Nat \ {0}
<1>1. h \in Nat \ {0}
    BY DEF TypeInv, Procs, Left
<1>2. ServiceEnd(db, h) \in Int
    BY <1>1, ServiceEnds DEF TypeInv
<1>3. QED
    BY <1>1, <1>2 DEF Found, TypeInv, Procs, Kinds, Events, NoAttribute

\* The attribute that the host finds next is the first of those left.
LEMMA FirstLeft ==
    ASSUME TypeInv, proc # NoProc, Left(proc) # {}
    PROVE  /\ (CHOOSE i \in Left(proc) : \A j \in Left(proc) : i <= j) \in Left(proc)
           /\ \A k \in Left(proc) : (CHOOSE i \in Left(proc) : \A j \in Left(proc) : i <= j) <= k
<1>1. Left(proc) \in SUBSET Nat
    BY DEF TypeInv, Procs, Left
<1>2. QED
    BY <1>1, LeastNat

-----------------------------------------------------------------------------
(* The host's steps.                                                       *)

QueueInv == Ordered(queue, linked, proc)

\* A step of the host leaves the phase, the table and the first event as they are.
LEMMA HostStep ==
    ASSUME TypeInv, QueueInv, Host
    PROVE  /\ TypeInv' /\ QueueInv'
           /\ \A k \in Kinds : Busy(queue', proc', k) => Busy(queue, proc, k)
           /\ UNCHANGED <<table, svcIndex, chrIndex, released, undefined>>
           /\ queue # <<>> => queue' # <<>> /\ Head(queue') = Head(queue)
<1>1. UNCHANGED <<db, table, svcIndex, chrIndex, released, undefined, outcome>>
    BY DEF Host, Report, ProcDone, CutShort, LinkGone, engineVars
<1> DEFINE Pushes(es, p, l) ==
               /\ es \in Seq(Events) /\ queue' = queue \o Fitting(es) /\ proc' = p /\ linked' = l
               /\ proc # NoProc \/ linked
               /\ p # NoProc => p \in Procs
               /\ \A i \in 1 .. Len(es) : es[i].type = "disconnect" => i = Len(es) /\ ~l
               /\ \A i \in 1 .. Len(es) : es[i].type # "disconnect" =>
                     /\ proc # NoProc /\ es[i].type = proc.kind
                     /\ es[i].handle = NoAttribute =>
                           p = NoProc /\ \A j \in 1 .. Len(es) : i < j => es[j].type = "disconnect"
               /\ p # NoProc => /\ l /\ proc # NoProc /\ p.kind = proc.kind
                                /\ \A i \in 1 .. Len(es) : es[i].type # "disconnect"
<1>2. ASSUME NEW es, NEW p, NEW l \in BOOLEAN, Pushes(es, p, l)
      PROVE  /\ TypeInv' /\ QueueInv'
             /\ \A k \in Kinds : Busy(queue', proc', k) => Busy(queue, proc, k)
             /\ queue # <<>> => queue' # <<>> /\ Head(queue') = Head(queue)
  <2> DEFINE f == Fitting(es)
  <2>1. /\ f \in Seq(Events) /\ Len(f) \in Nat /\ Len(f) <= Len(es) /\ Len(es) \in Nat
        /\ \A i \in 1 .. Len(f) : i \in 1 .. Len(es) /\ f[i] = es[i]
    BY <1>2, Fits
  <2> HIDE DEF f
  <2>2. linked = TRUE
    BY <1>2 DEF QueueInv, Ordered, TypeInv
  <2>3. queue \in Seq(Events) /\ Ordered(queue, TRUE, proc)
    BY <2>2 DEF QueueInv, TypeInv
  <2>4. \A i \in 1 .. Len(f) : f[i].type = "disconnect" => i = Len(f) /\ ~l
    BY <1>2, <2>1
  <2>5. ASSUME NEW i \in 1 .. Len(f), f[i].type # "disconnect"
        PROVE  /\ proc # NoProc /\ f[i].type = proc.kind
               /\ f[i].handle = NoAttribute =>
                     p = NoProc /\ \A j \in 1 .. Len(f) : i < j => f[j].type = "disconnect"
    BY <1>2, <2>1, <2>5
  <2>6. p # NoProc => /\ l /\ proc # NoProc /\ p.kind = proc.kind
                      /\ \A i \in 1 .. Len(f) : f[i].type # "disconnect"
    BY <1>2, <2>1
  <2>7. Ordered(queue \o f, l, p) /\ \A k \in Kinds : Busy(queue \o f, p, k) => Busy(queue, proc, k)
    BY <2>1, <2>3, <2>4, <2>5, <2>6, Joins
  <2>8. queue' = queue \o f /\ proc' = p /\ linked' = l /\ (p # NoProc => p \in Procs)
    BY <1>2 DEF f
  <2>9. queue' \in Seq(Events) /\ (queue # <<>> => queue' # <<>> /\ Head(queue') = Head(queue))
    <3>1. queue' \in Seq(Events)
        BY <2>1, <2>3, <2>8, ConcatProperties
    <3>2. ASSUME queue # <<>> PROVE queue' # <<>> /\ Head(queue') = Head(queue)
        <4>1. Len(queue) \in Nat \ {0} /\ Len(queue') = Len(queue) + Len(f) /\ queue'[1] = queue[1]
            BY <2>1, <2>3, <2>8, <3>2, ConcatProperties, EmptySeq
        <4>2. queue' # <<>>
            BY <2>1, <4>1, EmptySeq
        <4>3. QED
            BY <2>3, <3>1, <3>2, <4>1, <4>2, TailOf
    <3>3. QED
        BY <3>1, <3>2
  <2>10. TypeInv'
    BY <1>1, <2>8, <2>9 DEF TypeInv
  <2>11. QED
    BY <2>7, <2>8, <2>9, <2>10 DEF QueueInv
<1> HIDE DEF Pushes
<1>3. ASSUME proc # NoProc
      PROVE  /\ proc \in Procs /\ linked = TRUE /\ linked \in BOOLEAN /\ proc.kind # "disconnect"
             /\ Done(proc.kind) \in Events /\ Done(proc.kind).type = proc.kind
             /\ Done(proc.kind).handle = NoAttribute
  <2>1. proc \in Procs /\ linked = TRUE
    BY <1>3 DEF TypeInv, QueueInv, Ordered
  <2>2. QED
    BY <2>1 DEF Procs, Kinds, Done, NoAttribute, Events
<1>4. Disconnect \in Events /\ Disconnect.type = "disconnect"
    BY DEF Disconnect, Events, NoAttribute
<1>5. ASSUME Report PROVE \E es, p : Pushes(es, p, linked)
  <2> DEFINE h == CHOOSE i \in Left(proc) : \A j \in Left(proc) : i <= j
             e == Found(proc.kind, h)
             p == [proc EXCEPT !.next = h + 1]
  <2>1. proc # NoProc /\ h \in Left(proc)
    BY <1>5, FirstLeft DEF Report
  <2>2. e \in Events /\ e.type = proc.kind /\ e.handle # NoAttribute /\ h + 1 \in Nat \ {0}
    BY <2>1, FoundIs
  <2>3. queue' = queue \o Fitting(<<e>>) /\ proc' = p /\ linked' = linked
    BY <1>5 DEF Report, Push
  <2> HIDE DEF h, e
  <2>4. p \in Procs /\ p.kind = proc.kind
    BY <1>3, <2>1, <2>2 DEF Procs
  <2> HIDE DEF p
  <2>5. <<e>> \in Seq(Events) /\ Len(<<e>>) = 1 /\ <<e>>[1] = e
    BY <2>2
  <2>6. \A i \in 1 .. Len(<<e>>) : <<e>>[i] = e
    BY <2>5
  <2>7. Pushes(<<e>>, p, linked)
    BY <1>3, <2>1, <2>2, <2>3, <2>4, <2>5, <2>6 DEF Pushes
  <2>8. QED
    BY <2>7
<1>6. ASSUME ProcDone \/ CutShort PROVE \E es, p : Pushes(es, p, linked)
  <2> DEFINE e == Done(proc.kind)
  <2>1. /\ queue' = queue \o Fitting(<<e>>) /\ proc' = NoProc /\ linked' = linked /\ proc # NoProc
    BY <1>6 DEF ProcDone, CutShort, Push
  <2>2. e \in Events /\ e.type = proc.kind /\ e.type # "disconnect"
    BY <1>3, <2>1
  <2> HIDE DEF e
  <2>3. <<e>> \in Seq(Events) /\ Len(<<e>>) = 1 /\ <<e>>[1] = e
    BY <2>2
  <2>4. \A i \in 1 .. Len(<<e>>) : i = 1 /\ <<e>>[i] = e
    BY <2>3
  <2>5. Pushes(<<e>>, NoProc, linked)
    BY <2>1, <2>2, <2>3, <2>4 DEF Pushes
  <2>6. QED
    BY <2>5
<1>7. ASSUME LinkGone PROVE \E es, p : Pushes(es, p, FALSE)
  <2>1. linked = TRUE /\ linked' = FALSE /\ proc' = NoProc
    BY <1>7 DEF LinkGone, TypeInv
  <2>2. CASE proc = NoProc
    <3>1. queue' = queue \o Fitting(<<Disconnect>>)
        BY <1>7, <2>2 DEF LinkGone
    <3>2. <<Disconnect>> \in Seq(Events) /\ Len(<<Disconnect>>) = 1 /\ <<Disconnect>>[1] = Disconnect
        BY <1>4
    <3>3. \A i \in 1 .. Len(<<Disconnect>>) : i = 1 /\ <<Disconnect>>[i] = Disconnect
        BY <3>2
    <3>4. Pushes(<<Disconnect>>, NoProc, FALSE)
        BY <1>4, <2>1, <3>1, <3>2, <3>3 DEF Pushes
    <3>5. QED
        BY <3>4
  <2>3. CASE proc # NoProc
    <3> DEFINE e == Done(proc.kind)
               es == <<e, Disconnect>>
    <3>1. queue' = queue \o Fitting(es)
        BY <1>7, <2>3 DEF LinkGone
    <3>2. e \in Events /\ e.type = proc.kind /\ e.type # "disconnect"
        BY <1>3, <2>3
    <3> HIDE DEF e
    <3>3. es \in Seq(Events) /\ Len(es) = 2 /\ es[1] = e /\ es[2] = Disconnect
        BY <1>4, <3>2
    <3> HIDE DEF es
    <3>4. \A i \in 1 .. Len(es) : (i = 1 /\ es[i] = e) \/ (i = 2 /\ i = Len(es) /\ es[i] = Disconnect)
        BY <3>3
    <3>5. \A j \in 1 .. Len(es) : 1 < j => es[j].type = "disconnect"
        BY <1>4, <3>4
    <3>6. Pushes(es, NoProc, FALSE)
        BY <1>4, <2>1, <2>3, <3>1, <3>2, <3>3, <3>4, <3>5 DEF Pushes
    <3>7. QED
        BY <3>6
  <2>4. QED
    BY <2>2, <2>3
<1>8. linked \in BOOLEAN
    BY DEF TypeInv
<1>9. QED
    BY <1>1, <1>2, <1>5, <1>6, <1>7, <1>8 DEF Host
-----------------------------------------------------------------------------
(* The table.                                                              *)

\* No index range reaches outside.
Fit(t) ==
    /\ \A i \in 1 .. Len(t.services) :
          t.services[i].count = 0
          \/ t.services[i].first + t.services[i].count <= Len(t.characteristics)
    /\ \A i \in 1 .. Len(t.characteristics) :
          t.characteristics[i].count = 0
          \/ t.characteristics[i].first + t.characteristics[i].count <= Len(t.descriptors)

Bare(entries, n) == \A i \in 1 .. Len(entries) : i > n => entries[i].count = 0

\* While the services come.
ServicesGrow(t) == Bare(t.services, 0) /\ Bare(t.characteristics, 0)

\* While the characteristics of the service at cursor s come: the range that grows
\* ends where they are added.
CharacteristicsGrow(t, s) ==
    /\ Bare(t.services, s + 1) /\ Bare(t.characteristics, 0)
    /\ s < Len(t.services) => t.services[s + 1].first + t.services[s + 1].count = Len(t.characteristics)

\* While the descriptors of the characteristic at cursor c come.
DescriptorsGrow(t, c) ==
    /\ Bare(t.characteristics, c + 1)
    /\ c < Len(t.characteristics) =>
          t.characteristics[c + 1].first + t.characteristics[c + 1].count = Len(t.descriptors)

\* What a table is made of.
LEMMA TableParts ==
    ASSUME NEW t \in Tables
    PROVE  /\ t.services \in Seq(Svcs) /\ t.characteristics \in Seq(Chrs) /\ t.descriptors \in Seq(Nat)
           /\ Len(t.services) \in Nat /\ Len(t.characteristics) \in Nat /\ Len(t.descriptors) \in Nat
           /\ \A i \in 1 .. Len(t.services) : t.services[i] \in Svcs
           /\ \A i \in 1 .. Len(t.characteristics) : t.characteristics[i] \in Chrs
<1>1. t.services \in Seq(Svcs) /\ t.characteristics \in Seq(Chrs) /\ t.descriptors \in Seq(Nat)
    BY DEF Tables
<1>2. QED
    BY <1>1, LenProperties, ElementOfSeq

\* The empty table fits, and is ready for every phase.
LEMMA Nothing ==
    /\ EmptyTable \in Tables /\ Fit(EmptyTable) /\ ServicesGrow(EmptyTable)
    /\ Len(EmptyTable.services) = 0 /\ Len(EmptyTable.characteristics) = 0
    /\ \A n \in Nat : CharacteristicsGrow(EmptyTable, n) /\ DescriptorsGrow(EmptyTable, n)
<1>1. EmptyTable \in Tables /\ Len(EmptyTable.services) = 0 /\ Len(EmptyTable.characteristics) = 0
    BY DEF EmptyTable, Tables
<1>2. QED
    BY <1>1 DEF Fit, ServicesGrow, CharacteristicsGrow, DescriptorsGrow, Bare

\* A service is appended.
LEMMA AddsService ==
    ASSUME NEW t \in Tables, Fit(t), ServicesGrow(t), NEW e \in Events, e.handle # NoAttribute,
           NEW u, u = AddService(t, e)
    PROVE  u \in Tables /\ Fit(u) /\ ServicesGrow(u)
<1> DEFINE s == [start |-> e.handle, end |-> e.handle2, first |-> 0, count |-> 0]
           ss == Append(t.services, s)
<1>1. s \in Svcs /\ s.count = 0
    BY DEF Svcs, Events, NoAttribute
<1> HIDE DEF s
<1>2. t.services \in Seq(Svcs) /\ Len(t.services) \in Nat
    BY TableParts
<1>3. /\ ss \in Seq(Svcs) /\ Len(ss) = Len(t.services) + 1
      /\ \A i \in 1 .. Len(t.services) : ss[i] = t.services[i]
      /\ ss[Len(t.services) + 1] = s
    BY <1>1, <1>2, AppendProperties
<1>4. u = [t EXCEPT !.services = ss]
    BY DEF AddService, s
<1> HIDE DEF ss
<1>5. /\ u \in Tables /\ u.services = ss
      /\ u.characteristics = t.characteristics /\ u.descriptors = t.descriptors
    BY <1>3, <1>4 DEF Tables
<1>6. \A i \in 1 .. Len(ss) : ss[i].count = 0
  <2>1. ASSUME NEW i \in 1 .. Len(ss) PROVE ss[i].count = 0
    <3>1. CASE i = Len(t.services) + 1
        BY <1>1, <1>3, <3>1
    <3>2. CASE i # Len(t.services) + 1
        <4>1. i \in 1 .. Len(t.services) /\ i > 0
            BY <1>2, <1>3, <2>1, <3>2
        <4>2. QED
            BY <1>3, <4>1 DEF ServicesGrow, Bare
    <3>3. QED
        BY <3>1, <3>2
  <2>2. QED
    BY <2>1
<1>7. QED
    BY <1>5, <1>6 DEF Fit, ServicesGrow, Bare

\* The last characteristic's end changes nothing else.
LEMMA EndsLast ==
    ASSUME NEW t \in Tables, t.characteristics # <<>>, NEW h \in Int, NEW u, u = EndLast(t, h)
    PROVE  /\ u \in Tables /\ u.services = t.services /\ u.descriptors = t.descriptors
           /\ Len(u.characteristics) = Len(t.characteristics)
           /\ \A i \in 1 .. Len(t.characteristics) :
                 /\ u.characteristics[i].first = t.characteristics[i].first
                 /\ u.characteristics[i].count = t.characteristics[i].count
<1> DEFINE cs == t.characteristics
           n == Len(cs)
           r == [cs[n] EXCEPT !.end = h]
           us == [cs EXCEPT ![n] = r]
<1>1. cs \in Seq(Chrs) /\ n \in Nat /\ n \in 1 .. n /\ cs[n] \in Chrs
  <2>1. cs \in Seq(Chrs) /\ n \in Nat /\ \A i \in 1 .. n : cs[i] \in Chrs
    BY TableParts
  <2>2. n # 0
    BY <2>1, EmptySeq
  <2>3. n \in 1 .. n
    BY <2>1, <2>2
  <2>4. QED
    BY <2>1, <2>3
<1>2. r \in Chrs /\ r.first = cs[n].first /\ r.count = cs[n].count
    BY <1>1 DEF Chrs
<1>3. u = [t EXCEPT !.characteristics = us]
    BY DEF EndLast
<1> HIDE DEF r
<1>4. us \in Seq(Chrs) /\ Len(us) = n /\ \A j \in 1 .. n : us[j] = IF j = n THEN r ELSE cs[j]
    BY <1>1, <1>2, ExceptSeq
<1> HIDE DEF us
<1>5. u \in Tables /\ u.services = t.services /\ u.descriptors = t.descriptors /\ u.characteristics = us
    BY <1>3, <1>4 DEF Tables
<1>6. QED
    BY <1>2, <1>4, <1>5

\* The end of the last characteristic is set.
LEMMA EndsKeep ==
    ASSUME NEW t \in Tables, Fit(t), t.characteristics # <<>>, NEW h \in Int, NEW u, u = EndLast(t, h),
           NEW s \in Nat, CharacteristicsGrow(t, s)
    PROVE  Fit(u) /\ CharacteristicsGrow(u, s)
<1>1. /\ u.services = t.services /\ u.descriptors = t.descriptors
      /\ Len(u.characteristics) = Len(t.characteristics)
      /\ \A i \in 1 .. Len(t.characteristics) :
            /\ u.characteristics[i].first = t.characteristics[i].first
            /\ u.characteristics[i].count = t.characteristics[i].count
    BY EndsLast
<1>2. Fit(u)
    BY <1>1 DEF Fit
<1>3. CharacteristicsGrow(u, s)
    BY <1>1 DEF CharacteristicsGrow, Bare
<1>4. QED
    BY <1>2, <1>3

\* A service with characteristics has the last one.
LEMMA CountedExist ==
    ASSUME NEW t \in Tables, Fit(t), NEW i \in 1 .. Len(t.services), t.services[i].count > 0
    PROVE  t.characteristics # <<>>
<1>1. t.services[i] \in Svcs /\ Len(t.characteristics) \in Nat
    BY TableParts
<1>2. t.services[i].first \in Nat /\ t.services[i].count \in Nat
    BY <1>1 DEF Svcs
<1>3. t.services[i].first + t.services[i].count <= Len(t.characteristics)
    BY <1>2 DEF Fit
<1>4. Len(t.characteristics) # 0
    BY <1>1, <1>2, <1>3
<1>5. QED
    BY <1>4

\* The last characteristic of a service ends with it.
LEMMA EndsService ==
    ASSUME NEW t \in Tables, Fit(t), NEW s \in Nat, s < Len(t.services), CharacteristicsGrow(t, s),
           NEW u, u = EndService(t, s + 1)
    PROVE  u \in Tables /\ Fit(u) /\ CharacteristicsGrow(u, s) /\ Len(u.services) = Len(t.services)
<1>1. s + 1 \in 1 .. Len(t.services) /\ Len(t.services) \in Nat
    BY TableParts
<1>2. t.services[s + 1].end \in Int
    BY <1>1, TableParts DEF Svcs
<1>3. CASE t.services[s + 1].count > 0
  <2>1. t.characteristics # <<>>
    BY <1>1, <1>3, CountedExist
  <2>2. u = EndLast(t, t.services[s + 1].end)
    BY <1>3 DEF EndService
  <2>3. u \in Tables /\ u.services = t.services
    BY <1>2, <2>1, <2>2, EndsLast
  <2>4. Fit(u) /\ CharacteristicsGrow(u, s)
    BY <1>2, <2>1, <2>2, EndsKeep
  <2>5. QED
    BY <2>3, <2>4
<1>4. CASE ~(t.services[s + 1].count > 0)
  <2>1. u = t
    BY <1>4 DEF EndService
  <2>2. QED
    BY <2>1
<1>5. QED
    BY <1>3, <1>4

\* A range that ends where the table ends still does with one more entry.
LEMMA OneMore ==
    ASSUME NEW r, NEW s, s.first \in Nat, s.count \in Nat, NEW n \in Nat, s.first + s.count = n,
           r.first = s.first, r.count = s.count + 1
    PROVE  r.first + r.count = n + 1 /\ n + 1 \in Nat
OBVIOUS

\* One more characteristic at the end, and one more counted by the service.
Counted(t, i, c) == [t EXCEPT !.characteristics = Append(@, c), !.services[i].count = @ + 1]

\* An entry for a characteristic is appended and counted at its service.
LEMMA CountsCharacteristic ==
    ASSUME NEW t \in Tables, Fit(t), NEW s \in Nat, s < Len(t.services), CharacteristicsGrow(t, s),
           NEW c \in Chrs, c.count = 0,
           NEW u, u = Counted(t, s + 1, c)
    PROVE  u \in Tables /\ Fit(u) /\ CharacteristicsGrow(u, s) /\ Len(u.services) = Len(t.services)
<1> DEFINE ss == t.services
           cs == t.characteristics
           r == [ss[s + 1] EXCEPT !.count = @ + 1]
           us == [ss EXCEPT ![s + 1] = r]
           uc == Append(cs, c)
<1>1. /\ ss \in Seq(Svcs) /\ cs \in Seq(Chrs) /\ Len(ss) \in Nat /\ Len(cs) \in Nat
      /\ \A i \in 1 .. Len(ss) : ss[i] \in Svcs
    BY TableParts
<1>2. s + 1 \in 1 .. Len(ss) /\ ss[s + 1] \in Svcs
    BY <1>1
<1>3. /\ r \in Svcs /\ r.first = ss[s + 1].first /\ r.count = ss[s + 1].count + 1
      /\ ss[s + 1].first + ss[s + 1].count = Len(cs)
      /\ ss[s + 1].first \in Nat /\ ss[s + 1].count \in Nat
  <2>1. /\ r \in Svcs /\ r.first = ss[s + 1].first /\ r.count = ss[s + 1].count + 1
        /\ ss[s + 1].first \in Nat /\ ss[s + 1].count \in Nat
    BY <1>2 DEF Svcs
  <2>2. ss[s + 1].first + ss[s + 1].count = Len(cs)
    BY DEF CharacteristicsGrow
  <2>3. QED
    BY <2>1, <2>2
<1>4. u = [t EXCEPT !.characteristics = uc, !.services = us]
    BY DEF Counted
<1> HIDE DEF r, ss, cs
<1>5. us \in Seq(Svcs) /\ Len(us) = Len(ss) /\ \A j \in 1 .. Len(ss) : us[j] = IF j = s + 1 THEN r ELSE ss[j]
    BY <1>1, <1>2, <1>3, ExceptSeq
<1>6. /\ uc \in Seq(Chrs) /\ Len(uc) = Len(cs) + 1
      /\ \A i \in 1 .. Len(cs) : uc[i] = cs[i]
      /\ uc[Len(cs) + 1] = c
    BY <1>1, AppendProperties
<1> HIDE DEF us, uc
<1>7. u \in Tables /\ u.services = us /\ u.characteristics = uc /\ u.descriptors = t.descriptors
    BY <1>4, <1>5, <1>6 DEF Tables, ss, cs
<1>8. \A i \in 1 .. Len(uc) : uc[i].count = 0
  <2>1. ASSUME NEW i \in 1 .. Len(uc) PROVE uc[i].count = 0
    <3>1. CASE i = Len(cs) + 1
        BY <1>6, <3>1
    <3>2. CASE i # Len(cs) + 1
        <4>1. i \in 1 .. Len(cs) /\ i > 0
            BY <1>1, <1>6, <2>1, <3>2
        <4>2. QED
            BY <1>6, <4>1 DEF CharacteristicsGrow, Bare, cs
    <3>3. QED
        BY <3>1, <3>2
  <2>2. QED
    BY <2>1
<1>9. us[s + 1].first + us[s + 1].count = Len(uc) /\ Len(uc) \in Nat
  <2>1. us[s + 1] = r
    BY <1>2, <1>5
  <2>2. r.first + r.count = Len(cs) + 1 /\ Len(cs) + 1 \in Nat
    BY <1>1, <1>3, OneMore
  <2>3. QED
    BY <1>6, <2>1, <2>2
<1>10. ASSUME NEW i \in 1 .. Len(us), us[i].count # 0 PROVE us[i].first + us[i].count <= Len(uc)
  <2>1. CASE i = s + 1
    BY <1>9, <2>1
  <2>2. CASE i # s + 1
    <3>1. i \in 1 .. Len(ss) /\ us[i] = ss[i]
        BY <1>5, <2>2
    <3>2. ss[i].first + ss[i].count <= Len(cs) /\ ss[i].first \in Nat /\ ss[i].count \in Nat
        BY <1>1, <1>10, <3>1 DEF Fit, Svcs, ss, cs
    <3>3. QED
        BY <1>1, <1>6, <3>1, <3>2
  <2>3. QED
    BY <2>1, <2>2
<1>11. ASSUME NEW i \in 1 .. Len(us), i > s + 1 PROVE us[i].count = 0
  <2>1. i \in 1 .. Len(ss) /\ i # s + 1
    BY <1>5, <1>11
  <2>2. QED
    BY <1>5, <1>11, <2>1 DEF CharacteristicsGrow, Bare, ss
<1>12. Fit(u)
    BY <1>7, <1>8, <1>10 DEF Fit
<1>13. CharacteristicsGrow(u, s)
    BY <1>7, <1>8, <1>9, <1>11 DEF CharacteristicsGrow, Bare
<1>14. QED
    BY <1>5, <1>7, <1>12, <1>13 DEF ss

\* A characteristic is added to the service at the cursor.
LEMMA AddsCharacteristic ==
    ASSUME NEW t \in Tables, Fit(t), NEW s \in Nat, s < Len(t.services), CharacteristicsGrow(t, s),
           NEW e \in Events, e.type = "characteristics", NEW u, u = AddCharacteristic(t, s + 1, e)
    PROVE  u \in Tables /\ Fit(u) /\ CharacteristicsGrow(u, s) /\ Len(u.services) = Len(t.services)
<1> DEFINE v == IF t.services[s + 1].count > 0 THEN EndLast(t, e.handle - 1) ELSE t
           c == [value |-> e.handle2, end |-> 0, first |-> 0, count |-> 0]
<1>1. e.handle \in Nat /\ e.handle2 \in Nat
    BY DEF Events
<1>2. c \in Chrs /\ c.count = 0
    BY <1>1 DEF Chrs
<1>3. v \in Tables /\ Fit(v) /\ CharacteristicsGrow(v, s) /\ v.services = t.services
  <2>1. CASE t.services[s + 1].count > 0
    <3>1. s + 1 \in 1 .. Len(t.services) /\ e.handle - 1 \in Int
        BY <1>1, TableParts
    <3>2. t.characteristics # <<>>
        BY <2>1, <3>1, CountedExist
    <3>3. v = EndLast(t, e.handle - 1)
        BY <2>1
    <3> HIDE DEF v
    <3>4. v \in Tables /\ v.services = t.services
        BY <3>1, <3>2, <3>3, EndsLast
    <3>5. Fit(v) /\ CharacteristicsGrow(v, s)
        BY <3>1, <3>2, <3>3, EndsKeep
    <3>6. QED
        BY <3>4, <3>5
  <2>2. CASE ~(t.services[s + 1].count > 0)
    BY <2>2
  <2>3. QED
    BY <2>1, <2>2
<1>4. u = Counted(v, s + 1, c)
    BY DEF AddCharacteristic, Counted
<1> HIDE DEF v, c
<1>5. s < Len(v.services)
    BY <1>3
<1>6. u \in Tables /\ Fit(u) /\ CharacteristicsGrow(u, s) /\ Len(u.services) = Len(v.services)
    BY <1>2, <1>3, <1>4, <1>5, CountsCharacteristic
<1>7. QED
    BY <1>3, <1>6

\* A descriptor is added to the characteristic at the cursor.
LEMMA AddsDescriptor ==
    ASSUME NEW t \in Tables, Fit(t), NEW c \in Nat, c < Len(t.characteristics), DescriptorsGrow(t, c),
           NEW e \in Events, NEW u, u = AddDescriptor(t, c + 1, e)
    PROVE  u \in Tables /\ Fit(u) /\ DescriptorsGrow(u, c) /\ Len(u.characteristics) = Len(t.characteristics)
<1> DEFINE cs == t.characteristics
           ds == t.descriptors
           r == [cs[c + 1] EXCEPT !.count = @ + 1]
           us == [cs EXCEPT ![c + 1] = r]
           ud == Append(ds, e.handle)
<1>1. /\ cs \in Seq(Chrs) /\ ds \in Seq(Nat) /\ Len(cs) \in Nat /\ Len(ds) \in Nat
      /\ \A i \in 1 .. Len(cs) : cs[i] \in Chrs
    BY TableParts
<1>2. c + 1 \in 1 .. Len(cs) /\ cs[c + 1] \in Chrs /\ e.handle \in Nat
    BY <1>1 DEF Events
<1>3. /\ r \in Chrs /\ r.first = cs[c + 1].first /\ r.count = cs[c + 1].count + 1
      /\ cs[c + 1].first + cs[c + 1].count = Len(ds)
      /\ cs[c + 1].first \in Nat /\ cs[c + 1].count \in Nat
  <2>1. /\ r \in Chrs /\ r.first = cs[c + 1].first /\ r.count = cs[c + 1].count + 1
        /\ cs[c + 1].first \in Nat /\ cs[c + 1].count \in Nat
    BY <1>2 DEF Chrs
  <2>2. cs[c + 1].first + cs[c + 1].count = Len(ds)
    BY DEF DescriptorsGrow
  <2>3. QED
    BY <2>1, <2>2
<1>4. u = [t EXCEPT !.descriptors = ud, !.characteristics = us]
    BY DEF AddDescriptor
<1> HIDE DEF r, cs, ds
<1>5. us \in Seq(Chrs) /\ Len(us) = Len(cs) /\ \A j \in 1 .. Len(cs) : us[j] = IF j = c + 1 THEN r ELSE cs[j]
    BY <1>1, <1>2, <1>3, ExceptSeq
<1>6. ud \in Seq(Nat) /\ Len(ud) = Len(ds) + 1
    BY <1>1, <1>2, AppendProperties
<1> HIDE DEF us, ud
<1>7. u \in Tables /\ u.services = t.services /\ u.characteristics = us /\ u.descriptors = ud
    BY <1>4, <1>5, <1>6 DEF Tables, cs, ds
<1>8. us[c + 1].first + us[c + 1].count = Len(ud) /\ Len(ud) \in Nat
  <2>1. us[c + 1] = r
    BY <1>2, <1>5
  <2>2. r.first + r.count = Len(ds) + 1 /\ Len(ds) + 1 \in Nat
    BY <1>1, <1>3, OneMore
  <2>3. QED
    BY <1>6, <2>1, <2>2
<1>9. ASSUME NEW i \in 1 .. Len(us), us[i].count # 0 PROVE us[i].first + us[i].count <= Len(ud)
  <2>1. CASE i = c + 1
    BY <1>8, <2>1
  <2>2. CASE i # c + 1
    <3>1. i \in 1 .. Len(cs) /\ us[i] = cs[i]
        BY <1>5, <2>2
    <3>2. cs[i].first + cs[i].count <= Len(ds) /\ cs[i].first \in Nat /\ cs[i].count \in Nat
        BY <1>1, <1>9, <3>1 DEF Fit, Chrs, cs, ds
    <3>3. QED
        BY <1>1, <1>6, <3>1, <3>2
  <2>3. QED
    BY <2>1, <2>2
<1>10. ASSUME NEW i \in 1 .. Len(us), i > c + 1 PROVE us[i].count = 0
  <2>1. i \in 1 .. Len(cs) /\ i # c + 1
    BY <1>5, <1>10
  <2>2. QED
    BY <1>5, <1>10, <2>1 DEF DescriptorsGrow, Bare, cs
<1>11. Fit(u)
    BY <1>5, <1>7, <1>9 DEF Fit, cs
<1>12. DescriptorsGrow(u, c)
    BY <1>7, <1>8, <1>10 DEF DescriptorsGrow, Bare
<1>13. QED
    BY <1>5, <1>7, <1>11, <1>12 DEF cs

\* A service whose characteristics the host is asked for, and none is counted yet.
LEMMA BeginsService ==
    ASSUME NEW t \in Tables, Fit(t), NEW s \in Nat, s < Len(t.services),
           Bare(t.services, s), Bare(t.characteristics, 0),
           NEW u, u = [t EXCEPT !.services[s + 1].first = Len(t.characteristics)]
    PROVE  u \in Tables /\ Fit(u) /\ CharacteristicsGrow(u, s) /\ Len(u.services) = Len(t.services)
<1> DEFINE ss == t.services
           n == Len(t.characteristics)
           r == [ss[s + 1] EXCEPT !.first = n]
           us == [ss EXCEPT ![s + 1] = r]
<1>1. /\ ss \in Seq(Svcs) /\ Len(ss) \in Nat /\ n \in Nat
      /\ \A i \in 1 .. Len(ss) : ss[i] \in Svcs
    BY TableParts
<1>2. s + 1 \in 1 .. Len(ss) /\ ss[s + 1] \in Svcs /\ s + 1 > s
    BY <1>1
<1>3. r \in Svcs /\ r.first = n /\ r.count = 0
    BY <1>1, <1>2 DEF Svcs, Bare
<1>4. u = [t EXCEPT !.services = us]
    OBVIOUS
<1> HIDE DEF r
<1>5. us \in Seq(Svcs) /\ Len(us) = Len(ss) /\ \A j \in 1 .. Len(ss) : us[j] = IF j = s + 1 THEN r ELSE ss[j]
    BY <1>1, <1>2, <1>3, ExceptSeq
<1> HIDE DEF us
<1>6. /\ u \in Tables /\ u.services = us /\ u.characteristics = t.characteristics
      /\ u.descriptors = t.descriptors
    BY <1>4, <1>5 DEF Tables
<1>7. us[s + 1].first + us[s + 1].count = n
    BY <1>1, <1>2, <1>3, <1>5
<1>8. ASSUME NEW i \in 1 .. Len(us) PROVE us[i].count = 0 \/ us[i].first + us[i].count <= n
    BY <1>3, <1>5 DEF Fit
<1>9. ASSUME NEW i \in 1 .. Len(us), i > s + 1 PROVE us[i].count = 0
  <2>1. i \in 1 .. Len(ss) /\ i # s + 1 /\ i > s
    BY <1>5, <1>9
  <2>2. QED
    BY <1>5, <1>9, <2>1 DEF Bare
<1>10. Fit(u)
    BY <1>6, <1>8 DEF Fit
<1>11. CharacteristicsGrow(u, s)
    BY <1>6, <1>7, <1>9 DEF CharacteristicsGrow, Bare
<1>12. QED
    BY <1>5, <1>6, <1>10, <1>11

\* A characteristic whose descriptors the host is asked for, and none is counted yet.
Opened(t, i) == [t EXCEPT !.characteristics[i].first = Len(t.descriptors)]

\* The range of the next characteristic begins where the table ends.
LEMMA BeginsCharacteristic ==
    ASSUME NEW t \in Tables, Fit(t), NEW i \in 1 .. Len(t.characteristics), Bare(t.characteristics, i - 1),
           NEW u, u = Opened(t, i)
    PROVE  u \in Tables /\ Fit(u) /\ DescriptorsGrow(u, i - 1) /\ Len(u.characteristics) = Len(t.characteristics)
<1> DEFINE cs == t.characteristics
           n == Len(t.descriptors)
           r == [cs[i] EXCEPT !.first = n]
           us == [cs EXCEPT ![i] = r]
<1>1. /\ cs \in Seq(Chrs) /\ Len(cs) \in Nat /\ n \in Nat /\ i \in Nat
      /\ \A j \in 1 .. Len(cs) : cs[j] \in Chrs
    BY TableParts
<1>2. i \in 1 .. Len(cs) /\ cs[i] \in Chrs /\ i > i - 1 /\ i - 1 + 1 = i
    BY <1>1
<1>3. r \in Chrs /\ r.first = n /\ r.count = 0
    BY <1>1, <1>2 DEF Chrs, Bare
<1>4. u = [t EXCEPT !.characteristics = us]
    BY DEF Opened
<1> HIDE DEF r
<1>5. us \in Seq(Chrs) /\ Len(us) = Len(cs) /\ \A j \in 1 .. Len(cs) : us[j] = IF j = i THEN r ELSE cs[j]
    BY <1>1, <1>2, <1>3, ExceptSeq
<1> HIDE DEF us
<1>6. /\ u \in Tables /\ u.services = t.services /\ u.characteristics = us
      /\ u.descriptors = t.descriptors
    BY <1>4, <1>5 DEF Tables
<1>7. us[i - 1 + 1].first + us[i - 1 + 1].count = n
    BY <1>1, <1>2, <1>3, <1>5
<1>8. ASSUME NEW j \in 1 .. Len(us) PROVE us[j].count = 0 \/ us[j].first + us[j].count <= n
    BY <1>3, <1>5 DEF Fit
<1>9. ASSUME NEW j \in 1 .. Len(us), j > i - 1 + 1 PROVE us[j].count = 0
  <2>1. j \in 1 .. Len(cs) /\ j # i /\ j > i - 1
    BY <1>1, <1>5, <1>9
  <2>2. QED
    BY <1>5, <1>9, <2>1 DEF Bare
<1>10. Fit(u)
    BY <1>5, <1>6, <1>8 DEF Fit
<1>11. DescriptorsGrow(u, i - 1)
    BY <1>6, <1>7, <1>9 DEF DescriptorsGrow, Bare
<1>12. QED
    BY <1>5, <1>6, <1>10, <1>11

-----------------------------------------------------------------------------
(* A phase begins.                                                         *)

\* What holds of a table t in phase k, with the cursors at s and c, and r: it was
\* released.
Grows(k, t, s, c, r) ==
    /\ k = "services" => ServicesGrow(t)
    /\ k = "characteristics" => CharacteristicsGrow(t, s) /\ (~r => s < Len(t.services))
    /\ k = "descriptors" => DescriptorsGrow(t, c) /\ (~r => c < Len(t.characteristics))

\* The engine asked for the next phase, or is done.
Begun ==
    /\ table' \in Tables /\ Fit(table') /\ released' \in BOOLEAN
    /\ proc' # NoProc => /\ linked /\ proc' \in Procs
                         /\ Grows(proc'.kind, table', svcIndex', chrIndex', released')

\* The end of a discovery keeps the table or releases it.
LEMMA Finishes ==
    ASSUME TypeInv, NEW t \in Tables, Fit(t), NEW result, FinishDiscovery(t, result)
    PROVE  /\ table' \in Tables /\ Fit(table') /\ released' \in BOOLEAN /\ (released => released')
           /\ table' = t \/ (table' = EmptyTable /\ released')
<1>1. table' = t \/ (table' = EmptyTable /\ released')
    BY DEF FinishDiscovery, Released
<1>2. released' \in BOOLEAN /\ (released => released')
    BY DEF FinishDiscovery, TypeInv
<1>3. QED
    BY <1>1, <1>2, Nothing

\* A procedure that is started is alone, and its phase begins with nothing found.
LEMMA Explores ==
    ASSUME TypeInv, proc = NoProc, NEW t \in Tables, Fit(t), NEW k \in Kinds,
           NEW first \in Nat \ {0}, NEW last \in Int, Explore(t, k, first, last),
           Grows(k, t, svcIndex', chrIndex', FALSE)
    PROVE  Begun
<1>1. CASE UNCHANGED proc /\ FinishDiscovery(t, "failed")
    BY <1>1, Finishes DEF Begun
<1>2. CASE /\ linked /\ proc' = [kind |-> k, next |-> first, last |-> last]
           /\ table' = t /\ UNCHANGED released
  <2>1. proc' \in Procs /\ proc'.kind = k
    BY <1>2 DEF Procs
  <2>2. released' \in BOOLEAN
    BY <1>2 DEF TypeInv
  <2>3. Grows(k, t, svcIndex', chrIndex', released')
    BY DEF Grows
  <2>4. QED
    BY <1>2, <2>1, <2>2, <2>3 DEF Begun
<1>3. QED
    BY <1>1, <1>2 DEF Explore

\* The next characteristic with room for descriptors is explored, or all are done.
LEMMA DescriptorsStart ==
    ASSUME TypeInv, proc = NoProc, NEW t \in Tables, Fit(t), NEW c \in Nat, Bare(t.characteristics, c),
           StartNextDescriptors(t, c)
    PROVE  Begun /\ chrIndex' \in Nat
<1> DEFINE chrs == t.characteristics
           open == {i \in c + 1 .. Len(chrs) : chrs[i].end > chrs[i].value}
           i == Min(open)
<1>1. Len(chrs) \in Nat /\ \A j \in 1 .. Len(chrs) : chrs[j] \in Chrs
    BY TableParts
<1>2. CASE open = {}
  <2>1. chrIndex' = Max({c, Len(chrs)}) /\ UNCHANGED proc /\ FinishDiscovery(t, "complete")
    BY <1>2 DEF StartNextDescriptors
  <2>2. chrIndex' \in Nat
    BY <1>1, <2>1, MaxOfTwo
  <2>3. QED
    BY <2>1, <2>2, Finishes DEF Begun
<1>3. CASE open # {}
  <2>1. open \in SUBSET Nat
    BY <1>1
  <2>2. i \in open
    BY <1>3, <2>1, LeastNat
  <2>3. /\ chrIndex' = i - 1
        /\ Explore(Opened(t, i), "descriptors", chrs[i].value + 1, chrs[i].end)
    BY <1>3 DEF StartNextDescriptors, Opened
  <2>4. i \in c + 1 .. Len(chrs)
    BY <2>2
  <2> HIDE DEF i
  <2>5. i \in 1 .. Len(chrs) /\ i - 1 \in Nat /\ i - 1 >= c /\ i - 1 < Len(chrs)
    BY <1>1, <2>4
  <2>6. chrs[i].value + 1 \in Nat \ {0} /\ chrs[i].end \in Int
    BY <1>1, <2>5 DEF Chrs
  <2>7. Bare(chrs, i - 1)
    BY <1>1, <2>5 DEF Bare
  <2> DEFINE u == Opened(t, i)
  <2>8. u \in Tables /\ Fit(u) /\ DescriptorsGrow(u, i - 1) /\ Len(u.characteristics) = Len(t.characteristics)
    BY <2>5, <2>7, BeginsCharacteristic
  <2>9. Explore(u, "descriptors", chrs[i].value + 1, chrs[i].end)
    BY <2>3
  <2> HIDE DEF u
  <2>10. Grows("descriptors", u, svcIndex', chrIndex', FALSE)
    BY <2>3, <2>5, <2>8 DEF Grows
  <2>11. Begun
    BY <2>6, <2>8, <2>9, <2>10, Explores DEF Kinds
  <2>12. QED
    BY <2>3, <2>5, <2>11
<1>4. QED
    BY <1>2, <1>3

\* The next service is explored, or the descriptors' turn has come.
LEMMA CharacteristicsStart ==
    ASSUME TypeInv, proc = NoProc, NEW t \in Tables, Fit(t), NEW s \in Nat,
           Bare(t.services, s), Bare(t.characteristics, 0), StartNextCharacteristics(t, s)
    PROVE  Begun /\ svcIndex' \in Nat /\ chrIndex' \in Nat
<1>1. svcIndex' = s /\ svcIndex' \in Nat
    BY DEF StartNextCharacteristics
<1>2. CASE s >= Len(t.services) /\ StartNextDescriptors(t, 0)
    BY <1>1, <1>2, DescriptorsStart
<1>3. CASE ~(s >= Len(t.services) /\ StartNextDescriptors(t, 0))
  <2> DEFINE u == [t EXCEPT !.services[s + 1].first = Len(t.characteristics)]
             first == t.services[s + 1].start
             last == t.services[s + 1].end
  <2>1. s < Len(t.services) /\ Explore(u, "characteristics", first, last) /\ UNCHANGED chrIndex
    BY <1>3 DEF StartNextCharacteristics
  <2>2. s + 1 \in 1 .. Len(t.services) /\ t.services[s + 1] \in Svcs
    BY <2>1, TableParts
  <2>3. first \in Nat \ {0} /\ last \in Int
    BY <2>2 DEF Svcs
  <2>4. u \in Tables /\ Fit(u) /\ CharacteristicsGrow(u, s) /\ Len(u.services) = Len(t.services)
    BY <2>1, BeginsService
  <2> HIDE DEF u, first, last
  <2>5. Grows("characteristics", u, svcIndex', chrIndex', FALSE)
    BY <1>1, <2>1, <2>4 DEF Grows
  <2>6. Begun
    BY <2>1, <2>3, <2>4, <2>5, Explores DEF Kinds
  <2>7. QED
    BY <1>1, <2>1, <2>6 DEF TypeInv
<1>4. QED
    BY <1>2, <1>3

-----------------------------------------------------------------------------
(* The invariant.                                                          *)

TableInv ==
    /\ Fit(table)
    /\ \A k \in Kinds : Busy(queue, proc, k) => Grows(k, table, svcIndex, chrIndex, released)

\* Once an event missed its entry, it is the next one for good.
StuckInv == undefined => released /\ queue # <<>> /\ ~AtEntry(Head(queue))

DiscoveryInv == TypeInv /\ QueueInv /\ TableInv /\ StuckInv

\* The invariant holds at first.
LEMMA InitDiscovery ==
    ASSUME Init
    PROVE  DiscoveryInv
<1>1. TypeInv
  <2>1. db = <<>> /\ queue = <<>> /\ proc = NoProc /\ table = EmptyTable /\ svcIndex = 0 /\ chrIndex = 0
        /\ linked = FALSE /\ released = FALSE
    BY DEF Init
  <2>2. db \in Seq(Roles) /\ queue \in Seq(Events)
    BY <2>1
  <2>3. QED
    BY <2>1, <2>2, Nothing DEF TypeInv
<1>2. queue = <<>> /\ proc = NoProc /\ Len(queue) = 0
    BY DEF Init
<1>3. QueueInv
    BY <1>2 DEF QueueInv, Ordered
<1>4. TableInv
    BY <1>2, Nothing DEF TableInv, Busy, Init
<1>5. QED
    BY <1>1, <1>3, <1>4 DEF DiscoveryInv, StuckInv, Init

\* What is stuck has released its table: an event whose table is kept is at its entry.
LEMMA EntryKept ==
    ASSUME DiscoveryInv, queue # <<>>, ~AtEntry(Head(queue))
    PROVE  released
<1> DEFINE e == Head(queue)
<1>1. e \in Events /\ e = queue[1] /\ 1 \in 1 .. Len(queue)
    BY TailOf DEF DiscoveryInv, TypeInv
<1>2. e.type \in {"characteristics", "descriptors"}
    BY DEF AtEntry
<1>3. e.type \in Kinds /\ Busy(queue, proc, e.type)
    BY <1>1, <1>2 DEF Busy, Kinds
<1>4. Grows(e.type, table, svcIndex, chrIndex, released)
    BY <1>3 DEF DiscoveryInv, TableInv
<1>5. QED
    BY <1>2, <1>4 DEF AtEntry, Grows

\* An event of a phase that stays in it.
LEMMA Stays ==
    ASSUME DiscoveryInv, queue # <<>>, AtEntry(Head(queue)), queue' = Tail(queue), UNCHANGED <<linked, db, undefined>>,
           NEW t \in Tables, Fit(t), Stores(t), Head(queue).type \in Kinds,
           Grows(Head(queue).type, t, svcIndex, chrIndex, released)
    PROVE  DiscoveryInv'
<1> DEFINE m == Head(queue).type
<1>1. Tail(queue) \in Seq(Events) /\ Head(queue) = queue[1] /\ 1 \in 1 .. Len(queue)
    BY TailOf DEF DiscoveryInv, TypeInv
<1>2. table' = t /\ UNCHANGED <<proc, svcIndex, chrIndex, released>>
    BY DEF Stores
<1>3. TypeInv'
    BY <1>1, <1>2 DEF DiscoveryInv, TypeInv
<1>4. Ordered(Tail(queue), linked, proc) /\ \A k \in Kinds : Busy(Tail(queue), proc, k) => Busy(queue, proc, k)
    BY Leaves DEF DiscoveryInv, TypeInv, QueueInv
<1>5. QueueInv'
    BY <1>2, <1>4 DEF QueueInv
<1>6. Busy(queue, proc, m)
    BY <1>1 DEF Busy
<1>7. ASSUME NEW k \in Kinds, Busy(queue', proc', k) PROVE k = m
  <2>1. Busy(queue, proc, k)
    BY <1>2, <1>4, <1>7
  <2>2. Ordered(queue, linked, proc)
    BY DEF DiscoveryInv, QueueInv
  <2>3. QED
    BY <1>6, <2>1, <2>2, OnePhase
<1>8. TableInv'
    BY <1>2, <1>7 DEF TableInv
<1>9. StuckInv'
    BY DEF DiscoveryInv, StuckInv
<1>10. QED
    BY <1>3, <1>5, <1>8, <1>9 DEF DiscoveryInv

\* An event that ends a phase.
LEMMA Passes ==
    ASSUME DiscoveryInv, queue # <<>>, AtEntry(Head(queue)), queue' = Tail(queue), UNCHANGED <<linked, db, undefined>>,
           Head(queue).type # "disconnect", Head(queue).handle = NoAttribute,
           Begun, svcIndex' \in Nat, chrIndex' \in Nat
    PROVE  DiscoveryInv'
<1>1. Tail(queue) \in Seq(Events) /\ linked \in BOOLEAN /\ linked' = linked
    BY TailOf DEF DiscoveryInv, TypeInv
<1>2. TypeInv'
    BY <1>1 DEF DiscoveryInv, TypeInv, Begun
<1>3. /\ Ordered(Tail(queue), linked, proc')
      /\ \A k \in Kinds : Busy(Tail(queue), proc', k) => proc' # NoProc /\ proc'.kind = k
  <2>1. queue \in Seq(Events) /\ Ordered(queue, linked, proc) /\ (proc' # NoProc => linked)
    BY DEF DiscoveryInv, TypeInv, QueueInv, Begun
  <2>2. QED
    BY <1>1, <2>1, PhaseEnds
<1>4. QueueInv'
    BY <1>1, <1>3 DEF QueueInv
<1>5. TableInv'
    BY <1>3 DEF TableInv, Begun
<1>6. StuckInv'
    BY DEF DiscoveryInv, StuckInv
<1>7. QED
    BY <1>2, <1>4, <1>5, <1>6 DEF DiscoveryInv

\* It survives the handling of an event,
LEMMA HandleStep ==
    ASSUME DiscoveryInv, HandleEvent
    PROVE  DiscoveryInv'
<1> DEFINE e == Head(queue)
<1>1. queue # <<>> /\ AtEntry(e) /\ queue' = Tail(queue) /\ UNCHANGED <<linked, undefined>>
    BY DEF HandleEvent
<1>2. /\ queue \in Seq(Events) /\ e \in Events /\ e = queue[1] /\ 1 \in 1 .. Len(queue)
      /\ table \in Tables /\ Fit(table) /\ svcIndex \in Nat /\ chrIndex \in Nat /\ TypeInv
    BY <1>1, TailOf DEF DiscoveryInv, TypeInv, TableInv
<1>3. ASSUME e.type \in Kinds PROVE Grows(e.type, table, svcIndex, chrIndex, released)
  <2>1. Busy(queue, proc, e.type)
    BY <1>2 DEF Busy
  <2>2. QED
    BY <1>3, <2>1 DEF DiscoveryInv, TableInv
<1>4. ASSUME e.type # "disconnect", e.handle = NoAttribute PROVE proc = NoProc
    BY <1>2, <1>4 DEF DiscoveryInv, QueueInv, Ordered
<1>5. CASE e.type = "disconnect" /\ Disconnected
  <2>1. /\ table' \in {table, EmptyTable} /\ released' \in BOOLEAN /\ db' = <<>>
        /\ UNCHANGED <<proc, svcIndex, chrIndex>>
    BY <1>2, <1>5 DEF Disconnected, Released, TypeInv
  <2>2. Tail(queue) \in Seq(Events)
    BY <1>1, <1>2, TailOf
  <2>3. table' \in Tables /\ Fit(table')
    BY <1>2, <2>1, Nothing
  <2>4. TypeInv'
    BY <1>1, <1>2, <2>1, <2>2, <2>3 DEF TypeInv
  <2>5. Ordered(queue, linked, proc) /\ linked \in BOOLEAN
    BY <1>2 DEF DiscoveryInv, QueueInv, TypeInv
  <2>6. Ordered(Tail(queue), linked, proc)
    BY <1>1, <1>2, <2>5, Leaves
  <2>7. \A k \in Kinds : ~Busy(Tail(queue), proc, k)
    BY <1>1, <1>2, <1>5, <2>5, ConnectionEnds
  <2>8. QueueInv' /\ TableInv'
    BY <1>1, <2>1, <2>3, <2>6, <2>7 DEF QueueInv, TableInv
  <2>9. StuckInv'
    BY <1>1 DEF DiscoveryInv, StuckInv
  <2>10. QED
    BY <2>4, <2>8, <2>9 DEF DiscoveryInv
<1>6. CASE e.type # "disconnect" /\ UNCHANGED db
  <2>1. CASE e.type = "services" /\ e.handle # NoAttribute /\ Stores(AddService(table, e))
    <3> DEFINE t == AddService(table, e)
    <3>1. ServicesGrow(table)
        BY <1>3, <2>1 DEF Grows, Kinds
    <3>2. t \in Tables /\ Fit(t) /\ ServicesGrow(t)
        BY <1>2, <2>1, <3>1, AddsService
    <3> HIDE DEF t
    <3>3. Grows("services", t, svcIndex, chrIndex, released)
        BY <3>2 DEF Grows
    <3>4. Stores(t)
        BY <2>1 DEF t
    <3>5. QED
        BY <1>1, <1>6, <2>1, <3>2, <3>3, <3>4, Stays DEF Kinds
  <2>2. CASE e.type = "services" /\ e.handle = NoAttribute /\ StartNextCharacteristics(table, 0)
    <3>1. ServicesGrow(table) /\ proc = NoProc
        BY <1>3, <1>4, <2>2 DEF Grows, Kinds
    <3>2. Begun /\ svcIndex' \in Nat /\ chrIndex' \in Nat
        BY <1>2, <2>2, <3>1, CharacteristicsStart DEF ServicesGrow
    <3>3. QED
        BY <1>1, <1>6, <2>2, <3>2, Passes
  <2>3. CASE e.type = "characteristics" /\ e.handle # NoAttribute
             /\ Stores(AddCharacteristic(table, svcIndex + 1, e))
    <3> DEFINE t == AddCharacteristic(table, svcIndex + 1, e)
    <3>1. CharacteristicsGrow(table, svcIndex) /\ svcIndex < Len(table.services)
        BY <1>1, <1>3, <2>3 DEF Grows, Kinds, AtEntry
    <3>2. t \in Tables /\ Fit(t) /\ CharacteristicsGrow(t, svcIndex) /\ Len(t.services) = Len(table.services)
        BY <1>2, <2>3, <3>1, AddsCharacteristic
    <3> HIDE DEF t
    <3>3. Grows("characteristics", t, svcIndex, chrIndex, released)
        BY <3>1, <3>2 DEF Grows
    <3>4. Stores(t)
        BY <2>3 DEF t
    <3>5. QED
        BY <1>1, <1>6, <2>3, <3>2, <3>3, <3>4, Stays DEF Kinds
  <2>4. CASE e.type = "characteristics" /\ e.handle = NoAttribute
             /\ StartNextCharacteristics(EndService(table, svcIndex + 1), svcIndex + 1)
    <3> DEFINE t == EndService(table, svcIndex + 1)
    <3>1. CharacteristicsGrow(table, svcIndex) /\ svcIndex < Len(table.services) /\ proc = NoProc
        BY <1>1, <1>3, <1>4, <2>4 DEF Grows, Kinds, AtEntry
    <3>2. t \in Tables /\ Fit(t) /\ CharacteristicsGrow(t, svcIndex)
        BY <1>2, <3>1, EndsService
    <3>3. StartNextCharacteristics(t, svcIndex + 1) /\ svcIndex + 1 \in Nat
        BY <1>2, <2>4
    <3> HIDE DEF t
    <3>4. Begun /\ svcIndex' \in Nat /\ chrIndex' \in Nat
        BY <1>2, <3>1, <3>2, <3>3, CharacteristicsStart DEF CharacteristicsGrow
    <3>5. QED
        BY <1>1, <1>6, <2>4, <3>4, Passes
  <2>5. CASE e.type = "descriptors" /\ e.handle # NoAttribute
             /\ Stores(AddDescriptor(table, chrIndex + 1, e))
    <3> DEFINE t == AddDescriptor(table, chrIndex + 1, e)
    <3>1. DescriptorsGrow(table, chrIndex) /\ chrIndex < Len(table.characteristics)
        BY <1>1, <1>3, <2>5 DEF Grows, Kinds, AtEntry
    <3>2. /\ t \in Tables /\ Fit(t) /\ DescriptorsGrow(t, chrIndex)
          /\ Len(t.characteristics) = Len(table.characteristics)
        BY <1>2, <3>1, AddsDescriptor
    <3> HIDE DEF t
    <3>3. Grows("descriptors", t, svcIndex, chrIndex, released)
        BY <3>1, <3>2 DEF Grows
    <3>4. Stores(t)
        BY <2>5 DEF t
    <3>5. QED
        BY <1>1, <1>6, <2>5, <3>2, <3>3, <3>4, Stays DEF Kinds
  <2>6. CASE e.type = "descriptors" /\ e.handle = NoAttribute
             /\ StartNextDescriptors(table, chrIndex + 1) /\ UNCHANGED svcIndex
    <3>1. DescriptorsGrow(table, chrIndex) /\ proc = NoProc /\ chrIndex + 1 \in Nat
        BY <1>2, <1>3, <1>4, <2>6 DEF Grows, Kinds
    <3>2. Begun /\ svcIndex' \in Nat /\ chrIndex' \in Nat
        BY <1>2, <2>6, <3>1, DescriptorsStart DEF DescriptorsGrow
    <3>3. QED
        BY <1>1, <1>6, <2>6, <3>2, Passes
  <2>7. \/ e.type = "services" /\ e.handle # NoAttribute /\ Stores(AddService(table, e))
        \/ e.type = "services" /\ e.handle = NoAttribute /\ StartNextCharacteristics(table, 0)
        \/ e.type = "characteristics" /\ e.handle # NoAttribute
              /\ Stores(AddCharacteristic(table, svcIndex + 1, e))
        \/ e.type = "characteristics" /\ e.handle = NoAttribute
              /\ StartNextCharacteristics(EndService(table, svcIndex + 1), svcIndex + 1)
        \/ e.type = "descriptors" /\ e.handle # NoAttribute
              /\ Stores(AddDescriptor(table, chrIndex + 1, e))
        \/ e.type = "descriptors" /\ e.handle = NoAttribute
              /\ StartNextDescriptors(table, chrIndex + 1) /\ UNCHANGED svcIndex
    BY <1>6 DEF HandleEvent
  <2>8. QED
    BY <2>1, <2>2, <2>3, <2>4, <2>5, <2>6, <2>7
<1>7. QED
    BY <1>5, <1>6 DEF HandleEvent

\* The table is released, or stays, while the events wait.
LEMMA TableGoes ==
    ASSUME DiscoveryInv, UNCHANGED <<hostVars, svcIndex, chrIndex, undefined>>,
           released' \in BOOLEAN, released => released',
           table' = table \/ (table' = EmptyTable /\ released')
    PROVE  DiscoveryInv'
<1>1. UNCHANGED <<db, linked, proc, queue>>
    BY DEF hostVars
<1>2. table \in Tables /\ Fit(table) /\ svcIndex \in Nat /\ chrIndex \in Nat
    BY DEF DiscoveryInv, TypeInv, TableInv
<1>3. table' \in Tables /\ Fit(table')
    BY <1>2, Nothing
<1>4. TypeInv'
    BY <1>1, <1>3 DEF DiscoveryInv, TypeInv
<1>5. QueueInv'
    BY <1>1 DEF DiscoveryInv, QueueInv
<1>6. ASSUME NEW k \in Kinds, Grows(k, table, svcIndex, chrIndex, released)
      PROVE  Grows(k, table', svcIndex, chrIndex, released')
  <2>1. CASE table' = table
    BY <1>6, <2>1 DEF Grows
  <2>2. CASE table' = EmptyTable /\ released'
    BY <1>2, <2>2, Nothing DEF Grows
  <2>3. QED
    BY <2>1, <2>2
<1>7. TableInv'
    BY <1>1, <1>3, <1>6 DEF DiscoveryInv, TableInv
<1>8. StuckInv'
  <2>1. CASE table' = table
    BY <1>1, <2>1 DEF DiscoveryInv, StuckInv, AtEntry
  <2>2. CASE table' = EmptyTable /\ released'
    <3>1. ~(svcIndex < Len(EmptyTable.services)) /\ ~(chrIndex < Len(EmptyTable.characteristics))
        BY <1>2, Nothing
    <3>2. QED
        BY <1>1, <2>2, <3>1 DEF DiscoveryInv, StuckInv, AtEntry
  <2>3. QED
    BY <2>1, <2>2
<1>9. QED
    BY <1>4, <1>5, <1>7, <1>8 DEF DiscoveryInv

\* the call that begins a discovery,
LEMMA DiscoverStep ==
    ASSUME DiscoveryInv, Discover
    PROVE  DiscoveryInv'
<1>1. /\ queue = <<>> /\ queue' = <<>> /\ linked' = TRUE /\ table' = EmptyTable
      /\ svcIndex' = 0 /\ chrIndex' = 0 /\ released' = FALSE /\ undefined' = undefined
      /\ db' \in Databases
      /\ proc' = [kind |-> "services", next |-> 1, last |-> MaxHandle] \/ proc' = NoProc
    BY DEF Discover
<1>2. db' \in Seq(Roles)
    BY <1>1 DEF Databases
<1>3. proc' # NoProc => proc' \in Procs /\ proc'.kind = "services"
    BY <1>1, MaxHandleAssumption DEF Procs, Kinds
<1>4. Len(queue') = 0 /\ queue' \in Seq(Events)
    BY <1>1
<1>5. TypeInv'
    BY <1>1, <1>2, <1>3, <1>4, Nothing DEF TypeInv
<1>6. QueueInv'
    BY <1>1, <1>4 DEF QueueInv, Ordered
<1>7. ASSUME NEW k \in Kinds, Busy(queue', proc', k) PROVE k = "services"
    BY <1>3, <1>4, <1>7 DEF Busy
<1>8. TableInv'
    BY <1>1, <1>7, Nothing DEF TableInv, Grows
<1>9. StuckInv'
    BY <1>1 DEF DiscoveryInv, StuckInv
<1>10. QED
    BY <1>5, <1>6, <1>8, <1>9 DEF DiscoveryInv

\* and so every step.
LEMMA DiscoveryStep ==
    ASSUME DiscoveryInv, [Next]_vars
    PROVE  DiscoveryInv'
<1>1. CASE Host
  <2>1. /\ TypeInv' /\ QueueInv'
        /\ \A k \in Kinds : Busy(queue', proc', k) => Busy(queue, proc, k)
        /\ UNCHANGED <<table, svcIndex, chrIndex, released, undefined>>
        /\ queue # <<>> => queue' # <<>> /\ Head(queue') = Head(queue)
    BY <1>1, HostStep DEF DiscoveryInv
  <2>2. TableInv'
    BY <2>1 DEF DiscoveryInv, TableInv
  <2>3. StuckInv'
    BY <2>1 DEF DiscoveryInv, StuckInv, AtEntry
  <2>4. QED
    BY <2>1, <2>2, <2>3 DEF DiscoveryInv
<1>2. CASE HandleEvent
    BY <1>2, HandleStep
<1>3. CASE MissEntry
  <2>1. queue # <<>> /\ ~AtEntry(Head(queue)) /\ UNCHANGED <<hostVars, table, svcIndex, chrIndex, released>>
    BY <1>3 DEF MissEntry
  <2>2. released
    BY <2>1, EntryKept
  <2>3. TypeInv' /\ QueueInv' /\ TableInv'
    BY <2>1 DEF DiscoveryInv, TypeInv, QueueInv, TableInv, hostVars
  <2>4. StuckInv'
    BY <2>1, <2>2 DEF StuckInv, AtEntry, hostVars
  <2>5. QED
    BY <2>3, <2>4 DEF DiscoveryInv
<1>4. CASE DeadlinePasses
  <2>1. FinishDiscovery(table, "failed") /\ UNCHANGED <<hostVars, svcIndex, chrIndex, undefined>>
    BY <1>4 DEF DeadlinePasses
  <2>2. TypeInv /\ table \in Tables /\ Fit(table)
    BY DEF DiscoveryInv, TypeInv, TableInv
  <2>3. /\ released' \in BOOLEAN /\ (released => released')
        /\ table' = table \/ (table' = EmptyTable /\ released')
    BY <2>1, <2>2, Finishes
  <2>4. QED
    BY <2>1, <2>3, TableGoes
<1>5. CASE ReleaseServices
  <2>1. table' = EmptyTable /\ released' = TRUE /\ UNCHANGED <<hostVars, svcIndex, chrIndex, undefined>>
    BY <1>5 DEF ReleaseServices, Released
  <2>2. QED
    BY <2>1, TableGoes
<1>6. CASE Discover
    BY <1>6, DiscoverStep
<1>7. CASE UNCHANGED vars
  <2>1. UNCHANGED <<hostVars, svcIndex, chrIndex, undefined, table, released>>
    BY <1>7 DEF vars, engineVars
  <2>2. released' \in BOOLEAN
    BY <2>1 DEF DiscoveryInv, TypeInv
  <2>3. QED
    BY <2>1, <2>2, TableGoes
<1>8. QED
    BY <1>1, <1>2, <1>3, <1>4, <1>5, <1>6, <1>7 DEF Next, Engine

\* IndexesFit: whatever the device reports, the queue drops and the user does,
\* every index range of a table that is read is inside it, and no event of a
\* discovery whose table is kept misses its entry (handle_chr_discovered_() and the
\* others index services_ and characteristics_ at the cursors, nimble_gattc.cpp).
THEOREM ReadsStayInside == Spec => []IndexesFit
<1>1. Init => DiscoveryInv
    BY InitDiscovery
<1>2. DiscoveryInv /\ [Next]_vars => DiscoveryInv'
    BY DiscoveryStep
<1>3. DiscoveryInv => IndexesFit
  <2> SUFFICES ASSUME DiscoveryInv PROVE IndexesFit
    OBVIOUS
  <2>1. table \in Tables /\ Fit(table)
    BY DEF DiscoveryInv, TypeInv, TableInv
  <2>2. DOMAIN table.services = 1 .. Len(table.services)
        /\ DOMAIN table.characteristics = 1 .. Len(table.characteristics)
    BY <2>1, TableParts, LenProperties
  <2>3. RangesFit
    BY <2>1, <2>2 DEF RangesFit, Fit
  <2>4. QED
    BY <2>3 DEF IndexesFit, DiscoveryInv, StuckInv
<1>4. QED
    BY <1>1, <1>2, <1>3, PTL DEF Spec

-----------------------------------------------------------------------------
(* Greatest elements, and functions as sequences.                          *)

\* A nonempty bounded set of naturals has a greatest element.
LEMMA GreatestExists ==
    ASSUME NEW S \in SUBSET Nat, S # {}, NEW n \in Nat, \A i \in S : i <= n
    PROVE  \E i \in S : \A j \in S : j <= i
<1> DEFINE T == {k \in Nat : n - k \in S}
<1>1. T \in SUBSET Nat /\ T # {}
  <2>1. PICK i \in S : TRUE
    OBVIOUS
  <2>2. n - i \in Nat /\ n - (n - i) = i
    BY <2>1
  <2>3. QED
    BY <2>1, <2>2
<1>2. PICK k \in T : \A m \in T : k <= m
  <2> HIDE DEF T
  <2>1. QED
    BY <1>1, LeastExists
<1>3. ASSUME NEW j \in S PROVE j <= n - k
  <2>1. n - j \in Nat /\ n - (n - j) = j
    BY <1>3
  <2>2. k <= n - j
    BY <1>2, <1>3, <2>1
  <2>3. QED
    BY <1>2, <2>1, <2>2
<1>4. QED
    BY <1>2, <1>3

\* A function on 1 .. n is a sequence of length n.
LEMMA OfLength ==
    ASSUME NEW S, NEW n \in Nat, NEW f \in [1 .. n -> S]
    PROVE  f \in Seq(S) /\ Len(f) = n
<1>1. f \in Seq(S)
    BY SeqDef
<1>2. Len(f) \in Nat /\ DOMAIN f = 1 .. Len(f)
    BY <1>1, LenProperties
<1>3. 1 .. n = 1 .. Len(f)
    BY <1>2
<1>4. QED
    BY <1>1, <1>2, <1>3

-----------------------------------------------------------------------------
(* What is read, and the device, are sequences of attributes in the order  *)
(* of their handles: it is enough to compare their elements.               *)

Attributes == Roles \X Nat

InOrder(s) == \A i, j \in 1 .. Len(s) : i < j => s[i][2] < s[j][2]

Holds(s, x) == \E i \in 1 .. Len(s) : s[i] = x

\* Sequences in order that have the same elements are equal: the first place where
\* they differ would have an element that is in one of them only.
LEMMA OrderedPrefix ==
    ASSUME NEW s \in Seq(Attributes), NEW t \in Seq(Attributes), InOrder(s), InOrder(t),
           \A x : Holds(s, x) <=> Holds(t, x)
    PROVE  \A i \in 1 .. Len(s) : i \in 1 .. Len(t) /\ s[i] = t[i]
<1>1. /\ Len(s) \in Nat /\ Len(t) \in Nat
      /\ \A i \in 1 .. Len(s) : s[i][2] \in Nat
      /\ \A i \in 1 .. Len(t) : t[i][2] \in Nat
  <2>1. Len(s) \in Nat /\ Len(t) \in Nat
    BY LenProperties
  <2>2. \A i \in 1 .. Len(s) : s[i] \in Attributes
    BY ElementOfSeq
  <2>3. \A i \in 1 .. Len(t) : t[i] \in Attributes
    BY ElementOfSeq
  <2>4. QED
    BY <2>1, <2>2, <2>3 DEF Attributes
<1> DEFINE Bad == {i \in 1 .. Len(s) : ~(i \in 1 .. Len(t) /\ s[i] = t[i])}
<1> SUFFICES ASSUME Bad # {} PROVE FALSE
    OBVIOUS
<1>2. PICK i \in Bad : \A j \in Bad : i <= j
  <2>1. Bad \in SUBSET Nat
    BY <1>1
  <2>2. QED
    BY <2>1, LeastExists
<1>3. i \in 1 .. Len(s) /\ \A j \in 1 .. Len(s) : j < i => j \in 1 .. Len(t) /\ s[j] = t[j]
    BY <1>1, <1>2
<1>4. ~(i \in 1 .. Len(t) /\ s[i] = t[i])
    BY <1>2
<1> HIDE DEF Bad
<1>5. PICK j \in 1 .. Len(t) : t[j] = s[i]
    BY <1>3 DEF Holds
<1>6. ~(j < i)
  <2>1. j < i => j \in 1 .. Len(s) /\ s[j] = t[j] /\ s[j][2] < s[i][2]
    BY <1>1, <1>3 DEF InOrder
  <2>2. QED
    BY <1>1, <1>3, <1>5, <2>1
<1>7. i < j /\ i \in 1 .. Len(t)
    BY <1>1, <1>3, <1>4, <1>5, <1>6
<1>8. PICK k \in 1 .. Len(s) : s[k] = t[i]
    BY <1>7 DEF Holds
<1>9. t[i][2] < s[i][2]
    BY <1>5, <1>7 DEF InOrder
<1>10. s[k][2] < s[i][2] /\ k # i
    BY <1>1, <1>3, <1>8, <1>9
<1>11. k < i
  <2>1. i < k => s[i][2] < s[k][2]
    BY <1>3 DEF InOrder
  <2>2. QED
    BY <1>1, <1>3, <1>10, <2>1
<1>12. k \in 1 .. Len(t) /\ t[k] = t[i] /\ t[k][2] < t[i][2]
    BY <1>3, <1>7, <1>8, <1>11 DEF InOrder
<1>13. QED
    BY <1>1, <1>7, <1>12

\* Two sequences in order of handles with the same elements are equal.
LEMMA OrderedEqual ==
    ASSUME NEW s \in Seq(Attributes), NEW t \in Seq(Attributes), InOrder(s), InOrder(t),
           \A x : Holds(s, x) <=> Holds(t, x)
    PROVE  s = t
<1>1. Len(s) \in Nat /\ Len(t) \in Nat
    BY LenProperties
<1>2. \A i \in 1 .. Len(s) : i \in 1 .. Len(t) /\ s[i] = t[i]
    BY OrderedPrefix
<1>3. \A i \in 1 .. Len(t) : i \in 1 .. Len(s)
    BY OrderedPrefix
<1>4. Len(s) = Len(t)
  <2>1. Len(s) <= Len(t)
    BY <1>1, <1>2
  <2>2. Len(t) <= Len(s)
    BY <1>1, <1>3
  <2>3. QED
    BY <1>1, <2>1, <2>2
<1>5. QED
    BY <1>2, <1>4, SeqEqual

\* The recursive function of FlattenSeq, on the first m sequences.
Joined(f, ss, m) ==
    /\ DOMAIN f = 1 .. m
    /\ \A i \in 1 .. m : f[i] = IF i = 1 THEN ss[i] ELSE f[i - 1] \o ss[i]

\* The function that joins the first n sequences exists (the one FlattenSeq chooses).
LEMMA JoinedExists ==
    ASSUME NEW ss, NEW n \in Nat
    PROVE  \E f : f = [i \in 1 .. n |-> IF i = 1 THEN ss[i] ELSE f[i - 1] \o ss[i]]
<1> DEFINE Bad == {m \in Nat : ~ \E f : f = [i \in 1 .. m |-> f[i]] /\ Joined(f, ss, m)}
<1>1. Bad = {}
  <2> SUFFICES ASSUME Bad # {} PROVE FALSE
    OBVIOUS
  <2>1. Bad \in SUBSET Nat
    OBVIOUS
  <2>2. PICK m \in Bad : \A j \in Bad : m <= j
    BY <2>1, LeastExists
  <2>3. m \in Nat /\ ~ \E f : f = [i \in 1 .. m |-> f[i]] /\ Joined(f, ss, m)
    BY <2>2
  <2>4. CASE m = 0
    <3> DEFINE g == [i \in 1 .. 0 |-> 0]
    <3>1. g = [i \in 1 .. 0 |-> g[i]] /\ Joined(g, ss, 0)
        BY DEF Joined
    <3>2. QED
        BY <2>3, <2>4, <3>1
  <2>5. CASE m # 0
    <3>1. m - 1 \in Nat /\ m - 1 \notin Bad
        BY <2>2, <2>3, <2>5
    <3>2. PICK f : Joined(f, ss, m - 1)
        BY <3>1
    <3> DEFINE g == [i \in 1 .. m |-> IF i = m THEN (IF m = 1 THEN ss[m] ELSE f[m - 1] \o ss[m]) ELSE f[i]]
    <3>3. g = [i \in 1 .. m |-> g[i]]
        OBVIOUS
    <3>4. ASSUME NEW i \in 1 .. m PROVE g[i] = IF i = 1 THEN ss[i] ELSE g[i - 1] \o ss[i]
      <4>1. CASE i = m
        <5>1. i # 1 => i - 1 \in 1 .. m /\ i - 1 # m
            BY <2>3, <4>1
        <5>2. i # 1 => g[i - 1] = f[m - 1]
            BY <4>1, <5>1
        <5>3. QED
            BY <4>1, <5>2
      <4>2. CASE i # m
        <5>1. i \in 1 .. m - 1 /\ (i # 1 => i - 1 \in 1 .. m /\ i - 1 # m)
            BY <2>3, <4>2
        <5>2. f[i] = IF i = 1 THEN ss[i] ELSE f[i - 1] \o ss[i]
            BY <3>2, <5>1 DEF Joined
        <5>3. g[i] = f[i] /\ (i # 1 => g[i - 1] = f[i - 1])
            BY <4>2, <5>1
        <5>4. QED
            BY <5>2, <5>3
      <4>3. QED
        BY <4>1, <4>2
    <3>5. Joined(g, ss, m)
        BY <3>4 DEF Joined
    <3>6. QED
        BY <2>3, <3>3, <3>5
  <2>6. QED
    BY <2>4, <2>5
<1>2. PICK f : f = [i \in 1 .. n |-> f[i]] /\ Joined(f, ss, n)
    BY <1>1
<1>3. f = [i \in 1 .. n |-> IF i = 1 THEN ss[i] ELSE f[i - 1] \o ss[i]]
    BY <1>2 DEF Joined
<1>4. QED
    BY <1>3

\* FlattenSeq of sequences in order, each before the next, is in order, and has the
\* elements of all.
LEMMA Flattens ==
    ASSUME NEW n \in Nat, NEW ss \in [1 .. n -> Seq(Attributes)],
           \A i \in 1 .. n : InOrder(ss[i]),
           \A i, j \in 1 .. n : i < j =>
              \A x, y : Holds(ss[i], x) /\ Holds(ss[j], y) => x[2] < y[2]
    PROVE  /\ FlattenSeq(ss) \in Seq(Attributes) /\ InOrder(FlattenSeq(ss))
           /\ \A x : Holds(FlattenSeq(ss), x) <=> \E i \in 1 .. n : Holds(ss[i], x)
<1>1. ss \in Seq(Seq(Attributes)) /\ Len(ss) = n
    BY OfLength
<1>2. CASE n = 0
  <2>1. FlattenSeq(ss) = ss
    BY <1>1, <1>2 DEF FlattenSeq
  <2>2. ss = <<>>
    BY <1>1, <1>2, EmptySeq
  <2>3. <<>> \in Seq(Attributes) /\ Len(<<>>) = 0
    BY EmptySeq
  <2>4. QED
    BY <1>2, <2>1, <2>2, <2>3 DEF InOrder, Holds
<1>3. CASE n # 0
  <2> DEFINE f == CHOOSE g : g = [i \in 1 .. n |-> IF i = 1 THEN ss[i] ELSE g[i - 1] \o ss[i]]
  <2>1. f = [i \in 1 .. n |-> IF i = 1 THEN ss[i] ELSE f[i - 1] \o ss[i]]
    BY JoinedExists
  <2>2. FlattenSeq(ss) = f[n]
    BY <1>1, <1>3 DEF FlattenSeq
  <2> HIDE DEF f
  <2> DEFINE Good(i) == /\ f[i] \in Seq(Attributes) /\ InOrder(f[i])
                        /\ \A x : Holds(f[i], x) <=> \E k \in 1 .. i : Holds(ss[k], x)
             Bad == {i \in 1 .. n : ~Good(i)}
  <2>3. ASSUME NEW i \in 1 .. n, i # 1 => Good(i - 1) PROVE Good(i)
    <3>1. CASE i = 1
      <4>1. f[i] = ss[i]
        BY <2>1, <3>1
      <4>2. QED
        BY <3>1, <4>1
    <3>2. CASE i # 1
      <4> DEFINE p == f[i - 1]
                 q == ss[i]
      <4>1. f[i] = p \o q /\ i - 1 \in 1 .. n /\ i - 1 \in Nat
        <5>1. i - 1 \in 1 .. n /\ i - 1 \in Nat
            BY <3>2
        <5>2. f[i] = IF i = 1 THEN ss[i] ELSE f[i - 1] \o ss[i]
            BY <2>1
        <5>3. QED
            BY <3>2, <5>1, <5>2
      <4>2. /\ p \in Seq(Attributes) /\ InOrder(p) /\ q \in Seq(Attributes) /\ InOrder(q)
            /\ \A x : Holds(p, x) <=> \E k \in 1 .. i - 1 : Holds(ss[k], x)
        BY <2>3, <3>2
      <4> HIDE DEF p, q
      <4>3. /\ p \o q \in Seq(Attributes) /\ Len(p \o q) = Len(p) + Len(q)
            /\ \A k \in 1 .. Len(p) + Len(q) : (p \o q)[k] = IF k <= Len(p) THEN p[k] ELSE q[k - Len(p)]
            /\ Len(p) \in Nat /\ Len(q) \in Nat
        BY <4>2, ConcatProperties, LenProperties
      <4>4. ASSUME NEW x PROVE Holds(p \o q, x) <=> Holds(p, x) \/ Holds(q, x)
        <5>1. ASSUME NEW k \in 1 .. Len(p) PROVE k \in 1 .. Len(p \o q) /\ (p \o q)[k] = p[k]
            BY <4>3
        <5>2. ASSUME NEW k \in 1 .. Len(q)
              PROVE  k + Len(p) \in 1 .. Len(p \o q) /\ (p \o q)[k + Len(p)] = q[k]
            BY <4>3
        <5>3. ASSUME NEW k \in 1 .. Len(p \o q)
              PROVE  \/ k \in 1 .. Len(p) /\ (p \o q)[k] = p[k]
                     \/ k - Len(p) \in 1 .. Len(q) /\ (p \o q)[k] = q[k - Len(p)]
            BY <4>3
        <5>4. QED
            BY <5>1, <5>2, <5>3 DEF Holds
      <4>5. \A x, y : Holds(p, x) /\ Holds(q, y) => x[2] < y[2]
        <5>1. \A k \in 1 .. i - 1 : k \in 1 .. n /\ k < i
            OBVIOUS
        <5>2. QED
            BY <4>2, <5>1 DEF q
      <4>6. InOrder(p \o q)
        <5> SUFFICES ASSUME NEW a \in 1 .. Len(p \o q), NEW b \in 1 .. Len(p \o q), a < b
                     PROVE  (p \o q)[a][2] < (p \o q)[b][2]
            BY DEF InOrder
        <5>1. CASE b <= Len(p)
            <6>1. a \in 1 .. Len(p) /\ b \in 1 .. Len(p) /\ (p \o q)[a] = p[a] /\ (p \o q)[b] = p[b]
                BY <4>3, <5>1
            <6>2. QED
                BY <4>2, <6>1 DEF InOrder
        <5>2. CASE a > Len(p)
            <6> DEFINE a2 == a - Len(p)
                       b2 == b - Len(p)
            <6>1. /\ a2 \in 1 .. Len(q) /\ b2 \in 1 .. Len(q) /\ a2 < b2
                  /\ (p \o q)[a] = q[a2] /\ (p \o q)[b] = q[b2]
                BY <4>3, <5>2
            <6> HIDE DEF a2, b2
            <6>2. QED
                BY <4>2, <6>1 DEF InOrder
        <5>3. CASE a <= Len(p) /\ b > Len(p)
            <6>1. a \in 1 .. Len(p) /\ (p \o q)[a] = p[a]
                BY <4>3, <5>3
            <6>2. b - Len(p) \in 1 .. Len(q) /\ (p \o q)[b] = q[b - Len(p)]
                BY <4>3, <5>3
            <6>3. Holds(p, (p \o q)[a]) /\ Holds(q, (p \o q)[b])
                BY <6>1, <6>2 DEF Holds
            <6>4. QED
                BY <4>5, <6>3
        <5>4. (b <= Len(p)) \/ (a > Len(p)) \/ (a <= Len(p) /\ b > Len(p))
            BY <4>3
        <5>5. QED
            BY <5>1, <5>2, <5>3, <5>4
      <4>7. \A x : Holds(p \o q, x) <=> \E k \in 1 .. i : Holds(ss[k], x)
        <5>1. \A k : k \in 1 .. i <=> k \in 1 .. i - 1 \/ k = i
            BY <3>2
        <5>2. QED
            BY <4>2, <4>4, <5>1 DEF q
      <4>8. QED
        BY <4>1, <4>3, <4>6, <4>7
    <3>3. QED
      BY <3>1, <3>2
  <2>4. Bad = {}
    <3> SUFFICES ASSUME Bad # {} PROVE FALSE
        OBVIOUS
    <3>1. Bad \in SUBSET Nat
        OBVIOUS
    <3>2. PICK i \in Bad : \A j \in Bad : i <= j
        BY <3>1, LeastExists
    <3>3. i \in 1 .. n /\ ~Good(i)
        BY <3>2
    <3>4. i # 1 => i - 1 \in 1 .. n /\ ~(i <= i - 1)
        BY <3>3
    <3>5. i # 1 => Good(i - 1)
        BY <3>2, <3>4
    <3>6. QED
        BY <2>3, <3>3, <3>5
  <2>5. Good(n)
    <3>1. n \in 1 .. n
        BY <1>3
    <3>2. n \notin Bad
        BY <2>4
    <3>3. QED
        BY <3>1, <3>2
  <2>6. QED
    BY <2>2, <2>5
<1>4. QED
    BY <1>2, <1>3

-----------------------------------------------------------------------------
(* Devices: to which service and to which characteristic an attribute      *)
(* belongs.                                                                *)

\* What a database is made of.
LEMMA Device ==
    ASSUME NEW d \in Databases
    PROVE  /\ d \in Seq(Roles) /\ Len(d) \in Nat /\ Len(d) <= MaxHandle
           /\ DOMAIN d = 1 .. Len(d) /\ \A h \in 1 .. Len(d) : d[h] \in Roles
           /\ WellFormed(d)
<1>1. PICK n \in 0 .. MaxHandle : d \in [1 .. n -> Roles]
    BY DEF Databases
<1>2. n \in Nat /\ n <= MaxHandle
    BY <1>1, MaxHandleAssumption
<1>3. d \in Seq(Roles) /\ Len(d) = n
    BY <1>1, <1>2, OfLength
<1>4. Len(d) \in Nat /\ DOMAIN d = 1 .. Len(d)
    BY <1>3, LenProperties
<1>7. WellFormed(d)
    BY DEF Databases
<1>8. QED
    BY <1>1, <1>2, <1>3, <1>4, <1>7

\* A declaration is followed by its value, and a value follows its declaration.
LEMMA Declared ==
    ASSUME NEW d \in Databases, NEW h \in 1 .. Len(d)
    PROVE  /\ d[h] = "chr" => h + 1 \in 1 .. Len(d) /\ d[h + 1] = "val"
           /\ d[h] = "val" => h - 1 \in 1 .. Len(d) /\ d[h - 1] = "chr"
<1>1. Len(d) \in Nat /\ WellFormed(d)
    BY Device
<1>2. /\ d[h] = "chr" => h < Len(d) /\ d[h + 1] = "val"
      /\ d[h] = "val" => h > 1 /\ d[h - 1] = "chr"
    BY <1>1 DEF WellFormed
<1>3. QED
    BY <1>1, <1>2

\* The last attribute before h, as WellFormed has it.
Before(d, h) == {i \in 1 .. h - 1 : d[i] # "gap"}

LastBefore(d, h) ==
    IF Before(d, h) = {} THEN "none"
    ELSE d[CHOOSE i \in Before(d, h) : \A j \in Before(d, h) : j <= i]

\* A declaration comes behind some attribute, a descriptor behind a value or a descriptor.
LEMMA Preceded ==
    ASSUME NEW d \in Databases, NEW h \in 1 .. Len(d)
    PROVE  /\ d[h] = "chr" => LastBefore(d, h) # "none"
           /\ d[h] = "dsc" => LastBefore(d, h) \in {"val", "dsc"}
<1>1. Len(d) \in Nat /\ WellFormed(d)
    BY Device
<1>2. QED
    BY <1>1 DEF WellFormed, LastBefore, Before

\* With nothing but gaps in between, it is the attribute at i.
LEMMA LastIs ==
    ASSUME NEW d \in Databases, NEW h \in 1 .. Len(d), NEW i \in 1 .. h - 1, d[i] # "gap",
           \A j \in i + 1 .. h - 1 : d[j] = "gap"
    PROVE  LastBefore(d, h) = d[i]
<1> DEFINE B == Before(d, h)
<1>1. Len(d) \in Nat
    BY Device
<1>2. i \in B /\ \A j \in B : j <= i /\ j \in Nat
    BY <1>1 DEF Before
<1> HIDE DEF B
<1> DEFINE last == CHOOSE k \in B : \A j \in B : j <= k
<1>3. last \in B /\ \A j \in B : j <= last
    BY <1>2
<1> HIDE DEF last
<1>4. last = i
    BY <1>1, <1>2, <1>3
<1>5. LastBefore(d, h) = d[last]
    BY <1>2 DEF LastBefore, B, last
<1>6. QED
    BY <1>4, <1>5

\* Every attribute belongs to a service.
LEMMA OfService ==
    ASSUME NEW d \in Databases, NEW h \in 1 .. Len(d), d[h] # "gap"
    PROVE  \E s \in 1 .. h : d[s] = "svc" /\ \A j \in s + 1 .. h : d[j] # "svc"
<1> DEFINE A == {i \in 1 .. h : d[i] # "gap"}
           S == {i \in 1 .. h : d[i] = "svc"}
<1>1. Len(d) \in Nat /\ \A i \in 1 .. Len(d) : d[i] \in Roles
    BY Device
<1>2. PICK x \in A : \A y \in A : x <= y
  <2>1. A \in SUBSET Nat /\ h \in A
    BY <1>1
  <2> HIDE DEF A
  <2>2. QED
    BY <2>1, LeastExists
<1>3. x \in 1 .. Len(d) /\ x \in 1 .. h /\ d[x] # "gap" /\ d[x] \in Roles
    BY <1>1, <1>2
<1>4. Before(d, x) = {}
    BY <1>1, <1>2 DEF Before
<1>5. LastBefore(d, x) = "none"
    BY <1>4 DEF LastBefore
<1>6. d[x] # "chr" /\ d[x] # "dsc"
    BY <1>3, <1>5, Preceded
<1>7. d[x] # "val"
  <2>1. d[x] = "val" => x - 1 \in 1 .. Len(d) /\ d[x - 1] = "chr"
    BY <1>3, Declared
  <2>2. x - 1 \in 1 .. Len(d) => x - 1 \in 1 .. x - 1
    BY <1>1, <1>3
  <2>3. QED
    BY <1>4, <2>1, <2>2 DEF Before
<1>8. d[x] = "svc"
    BY <1>3, <1>6, <1>7 DEF Roles
<1>9. PICK s \in S : \A j \in S : j <= s
  <2>1. S \in SUBSET Nat /\ x \in S /\ h \in Nat /\ \A i \in S : i <= h
    BY <1>1, <1>3, <1>8
  <2> HIDE DEF S
  <2>2. QED
    BY <2>1, GreatestExists
<1>10. \A j \in s + 1 .. h : j \in 1 .. h /\ ~(j <= s)
    BY <1>1, <1>9
<1>11. QED
    BY <1>9, <1>10

\* Every descriptor belongs to a characteristic.
LEMMA OfCharacteristic ==
    ASSUME NEW d \in Databases, NEW h \in 1 .. Len(d), d[h] = "dsc"
    PROVE  \E v \in 1 .. h - 1 : d[v] = "val" /\ \A j \in v + 1 .. h : d[j] \in {"gap", "dsc"}
<1> DEFINE Other == {i \in 1 .. h - 1 : d[i] \notin {"gap", "dsc"}}
<1>1. Len(d) \in Nat /\ \A i \in 1 .. Len(d) : d[i] \in Roles
    BY Device
<1>2. Other # {}
  <2> SUFFICES ASSUME Other = {} PROVE FALSE
    OBVIOUS
  <2> DEFINE S == {i \in 1 .. h : d[i] = "dsc"}
  <2>1. PICK x \in S : \A y \in S : x <= y
    <3>1. S \in SUBSET Nat /\ h \in S
        BY <1>1
    <3> HIDE DEF S
    <3>2. QED
        BY <3>1, LeastExists
  <2>2. x \in 1 .. h /\ x \in 1 .. Len(d) /\ d[x] = "dsc"
    BY <1>1, <2>1
  <2>3. ASSUME NEW i \in 1 .. x - 1 PROVE d[i] = "gap"
    <3>1. i \in 1 .. h - 1 /\ i \in 1 .. h /\ ~(x <= i)
        BY <1>1, <2>2
    <3>2. d[i] \in {"gap", "dsc"} /\ d[i] # "dsc"
        BY <2>1, <3>1
    <3>3. QED
        BY <3>2
  <2>4. LastBefore(d, x) = "none"
    BY <2>3 DEF LastBefore, Before
  <2>5. QED
    BY <2>2, <2>4, Preceded
<1>3. PICK v \in Other : \A j \in Other : j <= v
  <2>1. Other \in SUBSET Nat /\ h \in Nat /\ \A i \in Other : i <= h
    BY <1>1
  <2> HIDE DEF Other
  <2>2. QED
    BY <1>2, <2>1, GreatestExists
<1>4. v \in 1 .. h - 1 /\ v \in 1 .. Len(d) /\ d[v] \notin {"gap", "dsc"}
    BY <1>1, <1>3
<1>5. ASSUME NEW j \in v + 1 .. h PROVE d[j] \in {"gap", "dsc"}
  <2>1. CASE j = h
    BY <2>1
  <2>2. CASE j # h
    <3>1. j \in 1 .. h - 1 /\ ~(j <= v)
        BY <1>1, <1>4, <2>2
    <3>2. QED
        BY <1>3, <3>1
  <2>3. QED
    BY <2>1, <2>2
<1> DEFINE S == {i \in v + 1 .. h : d[i] = "dsc"}
<1>6. PICK x \in S : \A y \in S : x <= y
  <2>1. S \in SUBSET Nat /\ h \in S
    BY <1>1, <1>4
  <2> HIDE DEF S
  <2>2. QED
    BY <2>1, LeastExists
<1>7. x \in v + 1 .. h /\ x \in 1 .. Len(d) /\ v \in 1 .. x - 1 /\ d[x] = "dsc"
    BY <1>1, <1>4, <1>6
<1>8. ASSUME NEW j \in v + 1 .. x - 1 PROVE d[j] = "gap"
  <2>1. j \in v + 1 .. h /\ ~(x <= j)
    BY <1>1, <1>4, <1>7
  <2>2. d[j] # "dsc"
    BY <1>6, <2>1
  <2>3. QED
    BY <1>5, <2>1, <2>2
<1>9. LastBefore(d, x) = d[v]
    BY <1>4, <1>7, <1>8, LastIs
<1>10. d[v] \in {"val", "dsc"}
    BY <1>7, <1>9, Preceded
<1>11. d[v] = "val"
    BY <1>4, <1>10
<1>12. QED
    BY <1>4, <1>5, <1>11

\* A service ends before the next one.
LEMMA ServiceSpans ==
    ASSUME NEW d \in Databases, NEW s \in 1 .. Len(d), d[s] = "svc"
    PROVE  /\ ServiceEnd(d, s) \in s .. Len(d)
           /\ \A j \in s + 1 .. ServiceEnd(d, s) : d[j] # "svc"
           /\ ServiceEnd(d, s) < Len(d) => d[ServiceEnd(d, s) + 1] = "svc"
<1> DEFINE next == {i \in s + 1 .. Len(d) : d[i] = "svc"}
<1>1. Len(d) \in Nat
    BY Device
<1>2. CASE next = {}
  <2>1. ServiceEnd(d, s) = Len(d)
    BY <1>2 DEF ServiceEnd
  <2>2. QED
    BY <1>1, <1>2, <2>1
<1>3. CASE next # {}
  <2>1. \E x \in next : \A y \in next : x <= y
    <3>1. next \in SUBSET Nat
        BY <1>1
    <3> HIDE DEF next
    <3>2. QED
        BY <1>3, <3>1, LeastExists
  <2> DEFINE x == CHOOSE i \in next : \A j \in next : i <= j
  <2>2. x \in next /\ \A y \in next : x <= y
    BY <2>1
  <2>3. ServiceEnd(d, s) = x - 1
    BY <1>3 DEF ServiceEnd
  <2> HIDE DEF x
  <2>4. x \in s + 1 .. Len(d) /\ d[x] = "svc" /\ x \in Int
    BY <1>1, <2>2
  <2>5. ASSUME NEW j \in s + 1 .. x - 1 PROVE d[j] # "svc"
    <3>1. j \in s + 1 .. Len(d) /\ ~(x <= j)
        BY <1>1, <2>4
    <3>2. QED
        BY <2>2, <3>1
  <2>6. QED
    BY <1>1, <2>3, <2>4, <2>5
<1>4. QED
    BY <1>2, <1>3

-----------------------------------------------------------------------------
(* The table and the device.                                               *)

Increasing(s) == \A i, j \in DOMAIN s : i < j => s[i] < s[j]

\* s lists the handles D in order.
Lists(s, D) ==
    /\ Increasing(s)
    /\ \A i \in DOMAIN s : s[i] \in D
    /\ \A h \in D : \E i \in DOMAIN s : s[i] = h

\* The handles in a table: where its services start, where the characteristics of
\* service i are declared, and the descriptors of characteristic j.
Starts(t) == [i \in 1 .. Len(t.services) |-> t.services[i].start]

Declarations(t, i) ==
    [k \in 1 .. t.services[i].count |-> t.characteristics[t.services[i].first + k].value - 1]

Descriptors(t, j) ==
    [k \in 1 .. t.characteristics[j].count |-> t.descriptors[t.characteristics[j].first + k]]

\* The handles that the device has there.
ServiceHandles(d) == {h \in 1 .. Len(d) : d[h] = "svc"}
DeclarationHandles(d, s) == {h \in s.start .. s.end : d[h] = "chr"}
DescriptorHandles(d, c) == {h \in c.value + 1 .. c.end : d[h] # "gap"}

TrueService(d, s) ==
    s.start \in 1 .. Len(d) /\ d[s.start] = "svc" /\ s.end = ServiceEnd(d, s.start)

TrueValue(d, c) == c.value \in 2 .. Len(d) /\ d[c.value - 1] = "chr"

\* It ends before the next declaration, or where the device ends.
TrueEnd(d, c) ==
    /\ c.end \in c.value .. Len(d)
    /\ \A h \in c.value + 1 .. c.end : d[h] \notin {"svc", "chr"}
    /\ c.end < Len(d) => d[c.end + 1] \in {"svc", "chr"}

ServicesTrue(d, t) ==
    /\ \A i \in 1 .. Len(t.services) : TrueService(d, t.services[i])
    /\ Lists(Starts(t), ServiceHandles(d))

CharacteristicsTrue(d, t) ==
    /\ \A i \in 1 .. Len(t.services) : Lists(Declarations(t, i), DeclarationHandles(d, t.services[i]))
    /\ \A j \in 1 .. Len(t.characteristics) :
          TrueValue(d, t.characteristics[j]) /\ TrueEnd(d, t.characteristics[j])

\* The descriptors of the first n characteristics.
DescriptorsTrue(d, t, n) ==
    \A j \in 1 .. n : Lists(Descriptors(t, j), DescriptorHandles(d, t.characteristics[j]))

\* The table is the device's.
Mirrors(d, t) ==
    /\ ServicesTrue(d, t) /\ CharacteristicsTrue(d, t)
    /\ DescriptorsTrue(d, t, Len(t.characteristics))

-----------------------------------------------------------------------------
(* What is read of such a table is the device.                             *)

\* The attributes between two handles, declarations left out.
Spans(s, first, last) ==
    /\ s \in Seq(Attributes) /\ InOrder(s)
    /\ \A x : Holds(s, x) <=>
          \E h \in first .. last : db[h] \in {"svc", "val", "dsc"} /\ x = <<db[h], h>>

\* An attribute before all others keeps the order.
LEMMA Prepends ==
    ASSUME NEW x \in Attributes, NEW s \in Seq(Attributes), InOrder(s),
           \A y : Holds(s, y) => x[2] < y[2]
    PROVE  /\ <<x>> \o s \in Seq(Attributes) /\ InOrder(<<x>> \o s)
           /\ \A y : Holds(<<x>> \o s, y) <=> y = x \/ Holds(s, y)
<1> DEFINE p == <<x>>
           r == p \o s
<1>1. p \in Seq(Attributes) /\ Len(p) = 1 /\ p[1] = x
    OBVIOUS
<1>2. Len(s) \in Nat
    BY LenProperties
<1> HIDE DEF p
<1>3. /\ r \in Seq(Attributes) /\ Len(r) = 1 + Len(s)
      /\ \A k \in 1 .. 1 + Len(s) : r[k] = IF k <= 1 THEN p[k] ELSE s[k - 1]
  <2>1. /\ r \in Seq(Attributes) /\ Len(r) = Len(p) + Len(s)
        /\ \A k \in 1 .. Len(p) + Len(s) : r[k] = IF k <= Len(p) THEN p[k] ELSE s[k - Len(p)]
    BY <1>1, ConcatProperties
  <2> HIDE DEF r
  <2>2. QED
    BY <1>1, <2>1
<1> HIDE DEF r
<1>4. r[1] = x /\ 1 \in 1 .. Len(r)
    BY <1>1, <1>2, <1>3
<1>5. ASSUME NEW k \in 1 .. Len(s) PROVE k + 1 \in 1 .. Len(r) /\ r[k + 1] = s[k]
    BY <1>2, <1>3
<1>6. ASSUME NEW k \in 1 .. Len(r), k # 1 PROVE k - 1 \in 1 .. Len(s) /\ r[k] = s[k - 1]
    BY <1>2, <1>3, <1>6
<1>7. ASSUME NEW y PROVE Holds(r, y) <=> y = x \/ Holds(s, y)
  <2>1. ASSUME Holds(r, y), y # x PROVE Holds(s, y)
    <3>1. PICK k \in 1 .. Len(r) : r[k] = y
        BY <2>1 DEF Holds
    <3>2. k # 1
        BY <1>4, <2>1, <3>1
    <3>3. QED
        BY <1>6, <3>1, <3>2 DEF Holds
  <2>2. Holds(s, y) => Holds(r, y)
    BY <1>5 DEF Holds
  <2>3. y = x => Holds(r, y)
    BY <1>4 DEF Holds
  <2>4. QED
    BY <2>1, <2>2, <2>3
<1>8. ASSUME NEW a \in 1 .. Len(r), NEW b \in 1 .. Len(r), a < b PROVE r[a][2] < r[b][2]
  <2>1. b # 1 /\ b - 1 \in 1 .. Len(s) /\ r[b] = s[b - 1]
    BY <1>2, <1>3, <1>6, <1>8
  <2>2. CASE a = 1
    <3>1. Holds(s, r[b])
        BY <2>1 DEF Holds
    <3>2. QED
        BY <1>4, <2>2, <3>1
  <2>3. CASE a # 1
    <3>1. a - 1 \in 1 .. Len(s) /\ r[a] = s[a - 1] /\ a - 1 < b - 1
        BY <1>6, <1>8, <2>3
    <3>2. QED
        BY <2>1, <3>1 DEF InOrder
  <2>4. QED
    BY <2>2, <2>3
<1>9. QED
    BY <1>3, <1>7, <1>8 DEF InOrder, r, p

\* What is read of a characteristic are the attributes from its value to its end.
LEMMA ReadsCharacteristic ==
    ASSUME db \in Databases, table \in Tables, Fit(table),
           NEW j \in 1 .. Len(table.characteristics), NEW c, c = table.characteristics[j],
           TrueValue(db, c), TrueEnd(db, c), Lists(Descriptors(table, j), DescriptorHandles(db, c))
    PROVE  Spans(ReadCharacteristic(c), c.value, c.end)
<1> DEFINE ds == table.descriptors
           es == Entries(ds, c.first, c.count)
           q == [i \in 1 .. c.count |-> <<"dsc", es[i]>>]
           x == <<"val", c.value>>
<1>1. /\ Len(db) \in Nat /\ \A h \in 1 .. Len(db) : db[h] \in Roles
    BY Device
<1>2. c \in Chrs /\ ds \in Seq(Nat) /\ Len(ds) \in Nat
    BY TableParts
<1>3. c.first \in Nat /\ c.count \in Nat /\ c.value \in Nat /\ c.end \in Int
    BY <1>2 DEF Chrs
<1>4. c.count = 0 \/ c.first + c.count <= Len(ds)
    BY DEF Fit
<1>5. \A i \in 1 .. c.count : es[i] = ds[c.first + i] /\ ds[c.first + i] \in Nat
  <2>1. ASSUME NEW i \in c.first + 1 .. c.first + c.count PROVE ds[i] \in Nat
    <3>1. i \in 1 .. Len(ds)
        BY <1>2, <1>3, <1>4
    <3>2. QED
        BY <1>2, <3>1, ElementOfSeq
  <2> DEFINE m == c.first + 1
             n == c.first + c.count
  <2>2. m \in Int /\ n \in Int /\ \A i \in m .. n : ds[i] \in Nat
    BY <1>3, <2>1
  <2>3. \A i \in 1 .. n - m + 1 : SubSeq(ds, m, n)[i] = ds[m + i - 1]
    <3> HIDE DEF m, n, ds
    <3>1. QED
        BY <2>2, SubSeqProperties
  <2>4. ASSUME NEW i \in 1 .. c.count
        PROVE  i \in 1 .. n - m + 1 /\ m + i - 1 = c.first + i /\ c.first + i \in m .. n
    <3>1. n - m + 1 = c.count
        BY <1>3
    <3>2. i \in 1 .. n - m + 1
        BY <3>1
    <3>3. m + i - 1 = c.first + i
        BY <1>3
    <3>4. c.first + i \in m .. n
        BY <1>3
    <3>5. QED
        BY <3>2, <3>3, <3>4
  <2>5. es = SubSeq(ds, m, n)
    BY DEF Entries
  <2> HIDE DEF m, n, es, ds
  <2>6. QED
    BY <2>2, <2>3, <2>4, <2>5
<1> HIDE DEF es, ds
<1>6. q \in [1 .. c.count -> Attributes]
    BY <1>5 DEF Attributes, Roles
<1>7. q \in Seq(Attributes) /\ Len(q) = c.count
  <2> HIDE DEF q
  <2>1. QED
    BY <1>3, <1>6, OfLength
<1>8. DOMAIN Descriptors(table, j) = 1 .. c.count
      /\ \A i \in 1 .. c.count : Descriptors(table, j)[i] = ds[c.first + i]
    BY DEF Descriptors, ds
<1>9. \A i \in 1 .. c.count : q[i] = <<"dsc", Descriptors(table, j)[i]>>
    BY <1>5, <1>8
<1> HIDE DEF q
<1>10. ASSUME NEW h \in DescriptorHandles(db, c) PROVE h \in c.value + 1 .. c.end /\ db[h] = "dsc"
  <2>1. h \in c.value + 1 .. c.end /\ db[h] # "gap" /\ db[h] \notin {"svc", "chr"}
    BY DEF DescriptorHandles, TrueEnd
  <2>2. h \in 1 .. Len(db)
    BY <1>1, <1>3, <2>1 DEF TrueEnd, TrueValue
  <2>3. db[h] = "val" => h - 1 \in 1 .. Len(db) /\ db[h - 1] = "chr"
    BY <2>2, Declared
  <2>4. db[h] # "val"
    <3>1. CASE h - 1 = c.value
        <4>1. db[c.value - 1] = "chr" /\ c.value - 1 \in 1 .. Len(db)
            BY <1>1, <1>3 DEF TrueValue
        <4>2. db[(c.value - 1) + 1] = "val" /\ (c.value - 1) + 1 = c.value
            BY <1>3, <4>1, Declared
        <4>3. QED
            BY <2>3, <3>1, <4>2
    <3>2. CASE h - 1 # c.value
        <4>1. h - 1 \in c.value + 1 .. c.end
            BY <1>3, <2>1, <3>2
        <4>2. db[h - 1] # "chr"
            BY <4>1 DEF TrueEnd
        <4>3. QED
            BY <2>3, <4>2
    <3>3. QED
        BY <3>1, <3>2
  <2>5. db[h] = "dsc"
    BY <1>1, <2>1, <2>2, <2>4 DEF Roles
  <2>6. QED
    BY <2>1, <2>5
<1>11. db[c.value] = "val"
  <2>1. db[c.value - 1] = "chr" /\ c.value - 1 \in 1 .. Len(db)
    BY <1>1, <1>3 DEF TrueValue
  <2>2. db[(c.value - 1) + 1] = "val" /\ (c.value - 1) + 1 = c.value
    BY <1>3, <2>1, Declared
  <2>3. QED
    BY <2>2
<1>12. InOrder(q)
  <2>1. \A a, b \in 1 .. c.count : a < b => Descriptors(table, j)[a] < Descriptors(table, j)[b]
    BY <1>8 DEF Lists, Increasing
  <2>2. \A a \in 1 .. c.count : q[a][2] = Descriptors(table, j)[a]
    BY <1>9
  <2>3. QED
    BY <1>7, <2>1, <2>2 DEF InOrder
<1>13. \A y : Holds(q, y) <=> \E h \in DescriptorHandles(db, c) : y = <<"dsc", h>>
  <2>1. \A a \in 1 .. c.count : Descriptors(table, j)[a] \in DescriptorHandles(db, c)
    BY <1>8 DEF Lists
  <2>2. \A h \in DescriptorHandles(db, c) : \E a \in 1 .. c.count : Descriptors(table, j)[a] = h
    BY <1>8 DEF Lists
  <2>3. ASSUME NEW y, Holds(q, y) PROVE \E h \in DescriptorHandles(db, c) : y = <<"dsc", h>>
    <3>1. PICK a \in 1 .. c.count : q[a] = y
        BY <1>7, <2>3 DEF Holds
    <3>2. QED
        BY <1>9, <2>1, <3>1
  <2>4. ASSUME NEW h \in DescriptorHandles(db, c) PROVE Holds(q, <<"dsc", h>>)
    <3>1. PICK a \in 1 .. c.count : Descriptors(table, j)[a] = h
        BY <2>2
    <3>2. QED
        BY <1>7, <1>9, <3>1 DEF Holds
  <2>5. QED
    BY <2>3, <2>4
<1>14. x \in Attributes /\ x[2] = c.value /\ x = <<db[c.value], c.value>>
    BY <1>3, <1>11 DEF Attributes, Roles
<1>15. \A y : Holds(q, y) => x[2] < y[2]
    BY <1>3, <1>10, <1>13, <1>14
<1>16. /\ <<x>> \o q \in Seq(Attributes) /\ InOrder(<<x>> \o q)
       /\ \A y : Holds(<<x>> \o q, y) <=> y = x \/ Holds(q, y)
    BY <1>7, <1>12, <1>14, <1>15, Prepends
<1>17. ReadCharacteristic(c) = <<x>> \o q
    BY DEF ReadCharacteristic, q, es, ds
<1>18. ASSUME NEW y
       PROVE  (y = x \/ Holds(q, y)) <=>
              \E h \in c.value .. c.end : db[h] \in {"svc", "val", "dsc"} /\ y = <<db[h], h>>
  <2>1. y = x => \E h \in c.value .. c.end : db[h] \in {"svc", "val", "dsc"} /\ y = <<db[h], h>>
    <3>1. c.value \in c.value .. c.end
        BY <1>3 DEF TrueEnd
    <3>2. QED
        BY <1>11, <1>14, <3>1
  <2>2. ASSUME Holds(q, y)
        PROVE \E h \in c.value .. c.end : db[h] \in {"svc", "val", "dsc"} /\ y = <<db[h], h>>
    <3>1. PICK h \in DescriptorHandles(db, c) : y = <<"dsc", h>>
        BY <1>13, <2>2
    <3>2. db[h] = "dsc" /\ h \in c.value + 1 .. c.end
        BY <1>10
    <3>3. h \in c.value .. c.end
        BY <1>3, <3>2
    <3>4. QED
        BY <3>1, <3>2, <3>3
  <2>3. ASSUME NEW h \in c.value .. c.end, db[h] \in {"svc", "val", "dsc"}, y = <<db[h], h>>
        PROVE  y = x \/ Holds(q, y)
    <3>1. CASE h = c.value
        BY <1>14, <2>3, <3>1
    <3>2. CASE h # c.value
        <4>1. h \in c.value + 1 .. c.end
            BY <1>3, <3>2
        <4>2. h \in DescriptorHandles(db, c)
            BY <2>3, <4>1 DEF DescriptorHandles
        <4>3. y = <<"dsc", h>>
            BY <1>10, <2>3, <4>2
        <4>4. QED
            BY <1>13, <4>2, <4>3
    <3>3. QED
        BY <3>1, <3>2
  <2>4. QED
    BY <2>1, <2>2, <2>3
<1>19. QED
    BY <1>16, <1>17, <1>18 DEF Spans

\* Adjacent readings, flattened, are the reading of the whole.
LEMMA SpansJoin ==
    ASSUME NEW n \in Nat, NEW ss, DOMAIN ss = 1 .. n, ss = [i \in 1 .. n |-> ss[i]],
           NEW a \in [1 .. n -> Int], NEW b \in [1 .. n -> Int], NEW first \in Int, NEW last \in Int,
           \A i \in 1 .. n : Spans(ss[i], a[i], b[i]) /\ first <= a[i] /\ b[i] <= last,
           \A i, j \in 1 .. n : i < j => b[i] < a[j],
           \A h \in first .. last : db[h] \in {"svc", "val", "dsc"} => \E i \in 1 .. n : h \in a[i] .. b[i]
    PROVE  Spans(FlattenSeq(ss), first, last)
<1>1. ss \in [1 .. n -> Seq(Attributes)] /\ \A i \in 1 .. n : InOrder(ss[i])
    BY DEF Spans
<1>2. ASSUME NEW i \in 1 .. n, NEW x, Holds(ss[i], x)
      PROVE  \E h \in a[i] .. b[i] : db[h] \in {"svc", "val", "dsc"} /\ x = <<db[h], h>>
    BY <1>2 DEF Spans
<1>3. ASSUME NEW i \in 1 .. n, NEW j \in 1 .. n, i < j, NEW x, NEW y, Holds(ss[i], x), Holds(ss[j], y)
      PROVE  x[2] < y[2]
  <2>1. PICK h \in a[i] .. b[i] : x = <<db[h], h>>
    BY <1>2, <1>3
  <2>2. PICK k \in a[j] .. b[j] : y = <<db[k], k>>
    BY <1>2, <1>3
  <2>3. a[i] \in Int /\ b[i] \in Int /\ a[j] \in Int /\ b[j] \in Int /\ b[i] < a[j]
    BY <1>3
  <2>4. h < k
    BY <2>3
  <2>5. QED
    BY <2>1, <2>2, <2>4
<1>4. /\ FlattenSeq(ss) \in Seq(Attributes) /\ InOrder(FlattenSeq(ss))
      /\ \A x : Holds(FlattenSeq(ss), x) <=> \E i \in 1 .. n : Holds(ss[i], x)
    BY <1>1, <1>3, Flattens
<1>5. ASSUME NEW x, NEW i \in 1 .. n, Holds(ss[i], x)
      PROVE  \E h \in first .. last : db[h] \in {"svc", "val", "dsc"} /\ x = <<db[h], h>>
  <2>1. PICK h \in a[i] .. b[i] : db[h] \in {"svc", "val", "dsc"} /\ x = <<db[h], h>>
    BY <1>2, <1>5
  <2>2. a[i] \in Int /\ b[i] \in Int /\ first <= a[i] /\ b[i] <= last
    OBVIOUS
  <2>3. h \in first .. last
    BY <2>2
  <2>4. QED
    BY <2>1, <2>3
<1>6. ASSUME NEW x, NEW h \in first .. last, db[h] \in {"svc", "val", "dsc"}, x = <<db[h], h>>
      PROVE  \E i \in 1 .. n : Holds(ss[i], x)
  <2>1. PICK i \in 1 .. n : h \in a[i] .. b[i]
    BY <1>6
  <2>2. Holds(ss[i], x)
    BY <1>6, <2>1 DEF Spans
  <2>3. QED
    BY <2>2
<1>7. QED
    BY <1>4, <1>5, <1>6 DEF Spans

\* A characteristic of a service lies inside it, and before the next one.
LEMMA InsideService ==
    ASSUME db \in Databases, NEW s, TrueService(db, s), NEW c, TrueValue(db, c), TrueEnd(db, c), c.value \in Nat, c.end \in Int,
           c.value - 1 \in DeclarationHandles(db, s)
    PROVE  /\ s.start + 1 <= c.value - 1 /\ c.end <= s.end /\ c.value <= c.end
           /\ db[c.value] = "val"
           /\ \A h \in DeclarationHandles(db, s) : h > c.value - 1 => c.end < h
<1>1. Len(db) \in Nat /\ s.start \in 1 .. Len(db) /\ db[s.start] = "svc"
    BY Device DEF TrueService
<1>2. s.end \in s.start .. Len(db) /\ (s.end < Len(db) => db[s.end + 1] = "svc")
    BY <1>1, ServiceSpans DEF TrueService
<1>3. c.value - 1 \in s.start .. s.end /\ db[c.value - 1] = "chr"
    BY DEF DeclarationHandles
<1>4. c.value - 1 # s.start
    BY <1>1, <1>3
<1>5. s.start + 1 <= c.value - 1
    BY <1>1, <1>2, <1>3, <1>4
<1>6. db[c.value] = "val"
  <2>1. c.value - 1 \in 1 .. Len(db)
    BY <1>1, <1>2, <1>3
  <2>2. db[(c.value - 1) + 1] = "val"
    BY <1>3, <2>1, Declared
  <2>3. (c.value - 1) + 1 = c.value
    OBVIOUS
  <2>4. QED
    BY <2>2, <2>3
<1>7. c.end \in c.value .. Len(db) /\ \A h \in c.value + 1 .. c.end : db[h] \notin {"svc", "chr"}
    BY DEF TrueEnd
<1>8. c.end <= s.end
  <2> SUFFICES ASSUME s.end < c.end PROVE FALSE
    BY <1>2, <1>7
  <2>1. s.end < Len(db) /\ db[s.end + 1] = "svc"
    BY <1>1, <1>2, <1>7
  <2>2. s.end + 1 # c.value
    BY <1>6, <2>1
  <2>3. s.end + 1 \in c.value + 1 .. c.end
    BY <1>1, <1>2, <1>3, <2>2
  <2>4. QED
    BY <1>7, <2>1, <2>3
<1>9. ASSUME NEW h \in DeclarationHandles(db, s), h > c.value - 1 PROVE c.end < h
  <2>1. db[h] = "chr" /\ h \in s.start .. s.end
    BY DEF DeclarationHandles
  <2>2. h # c.value
    BY <1>6, <2>1
  <2>3. h \notin c.value + 1 .. c.end
    BY <1>7, <2>1
  <2>4. h \in Int /\ h > c.value
    BY <1>1, <1>2, <1>9, <2>1, <2>2
  <2>5. QED
    BY <1>7, <2>3, <2>4
<1>10. QED
    BY <1>5, <1>6, <1>7, <1>8, <1>9

\* What is read of a service are the attributes from its start to its end.
LEMMA ReadsService ==
    ASSUME db \in Databases, table \in Tables, Fit(table), Mirrors(db, table),
           NEW n \in 1 .. Len(table.services), NEW s, s = table.services[n]
    PROVE  Spans(ReadService(s), s.start, s.end)
<1> DEFINE cs == table.characteristics
           chrs == Entries(cs, s.first, s.count)
           ss == [i \in DOMAIN chrs |-> ReadCharacteristic(chrs[i])]
           ds == Declarations(table, n)
           a == [i \in 1 .. s.count |-> ds[i] + 1]
           b == [i \in 1 .. s.count |-> cs[s.first + i].end]
<1>1. /\ Len(db) \in Nat /\ \A h \in 1 .. Len(db) : db[h] \in Roles
      /\ s \in Svcs /\ cs \in Seq(Chrs) /\ Len(cs) \in Nat /\ \A j \in 1 .. Len(cs) : cs[j] \in Chrs
    BY Device, TableParts
<1>2. s.first \in Nat /\ s.count \in Nat /\ s.start \in Nat /\ s.end \in Int
    BY <1>1 DEF Svcs
<1>3. s.count = 0 \/ s.first + s.count <= Len(cs)
    BY DEF Fit
<1>4. ASSUME NEW i \in 1 .. s.count PROVE s.first + i \in 1 .. Len(cs)
    BY <1>1, <1>2, <1>3
<1>5. TrueService(db, s) /\ Lists(ds, DeclarationHandles(db, s))
    BY DEF Mirrors, ServicesTrue, CharacteristicsTrue
<1>6. DOMAIN ds = 1 .. s.count /\ \A i \in 1 .. s.count : ds[i] = cs[s.first + i].value - 1
    BY DEF Declarations
<1>7. DOMAIN chrs = 1 .. s.count /\ \A i \in 1 .. s.count : chrs[i] = cs[s.first + i]
  <2> DEFINE f == s.first + 1
             l == s.first + s.count
  <2>1. f \in Int /\ l \in Int /\ (IF f <= l THEN l - f + 1 ELSE 0) = s.count
    <3>1. f \in Int /\ l \in Int /\ l - f + 1 = s.count
        BY <1>2
    <3>2. f <= l <=> s.count # 0
        BY <1>2
    <3>3. QED
        BY <3>1, <3>2
  <2>2. ASSUME NEW i \in f .. l PROVE cs[i] \in Chrs
    <3>1. i \in 1 .. Len(cs)
        BY <1>1, <1>2, <1>3
    <3>2. QED
        BY <1>1, <3>1
  <2>3. \A i \in 1 .. s.count : f + i - 1 = s.first + i
    BY <1>2
  <2>4. chrs = SubSeq(cs, f, l)
    BY DEF Entries
  <2> HIDE DEF f, l, chrs, cs
  <2>5. /\ chrs \in Seq(Chrs) /\ Len(chrs) = s.count
        /\ \A i \in 1 .. s.count : chrs[i] = cs[f + i - 1]
    BY <2>1, <2>2, <2>4, SubSeqProperties
  <2>6. QED
    BY <2>3, <2>5, LenProperties
<1> HIDE DEF chrs
<1>8. /\ a \in [1 .. s.count -> Int] /\ b \in [1 .. s.count -> Int]
      /\ \A i \in 1 .. s.count : a[i] = cs[s.first + i].value /\ a[i] = ds[i] + 1 /\ b[i] = cs[s.first + i].end
  <2>1. ASSUME NEW i \in 1 .. s.count
        PROVE  cs[s.first + i].value \in Nat /\ cs[s.first + i].end \in Int
    BY <1>1, <1>4 DEF Chrs
  <2>2. ASSUME NEW i \in 1 .. s.count PROVE ds[i] + 1 = cs[s.first + i].value /\ ds[i] + 1 \in Int
    BY <1>6, <2>1
  <2>3. QED
    BY <2>1, <2>2
<1>9. ASSUME NEW i \in 1 .. s.count
      PROVE  /\ Spans(ss[i], a[i], b[i]) /\ s.start + 1 <= a[i] - 1 /\ b[i] <= s.end
             /\ a[i] <= b[i] /\ db[a[i]] = "val"
             /\ (b[i] < Len(db) => db[b[i] + 1] \in {"svc", "chr"})
             /\ \A h \in DeclarationHandles(db, s) : h > a[i] - 1 => b[i] < h
  <2> DEFINE c == cs[s.first + i]
  <2>1. /\ s.first + i \in 1 .. Len(cs) /\ TrueValue(db, c) /\ TrueEnd(db, c)
        /\ Lists(Descriptors(table, s.first + i), DescriptorHandles(db, c))
    BY <1>4 DEF Mirrors, CharacteristicsTrue, DescriptorsTrue
  <2>2. ss[i] = ReadCharacteristic(c) /\ a[i] = c.value /\ b[i] = c.end /\ c.value - 1 = ds[i]
    BY <1>6, <1>7, <1>8
  <2>3. Spans(ReadCharacteristic(c), c.value, c.end)
    BY <2>1, ReadsCharacteristic
  <2>4. c.value \in Nat /\ c.end \in Int
    BY <1>1, <2>1 DEF Chrs
  <2>5. c.value - 1 \in DeclarationHandles(db, s)
    BY <1>5, <1>6, <2>2 DEF Lists
  <2> HIDE DEF c, a, b, ss
  <2>6. /\ s.start + 1 <= c.value - 1 /\ c.end <= s.end /\ c.value <= c.end
        /\ db[c.value] = "val"
        /\ \A h \in DeclarationHandles(db, s) : h > c.value - 1 => c.end < h
    BY <1>5, <2>1, <2>4, <2>5, InsideService
  <2>7. QED
    BY <2>1, <2>2, <2>3, <2>6 DEF TrueEnd
<1> HIDE DEF a, b
<1>10. ASSUME NEW i \in 1 .. s.count, NEW j \in 1 .. s.count, i < j PROVE b[i] < a[j]
  <2>1. ds[i] < ds[j] /\ ds[j] \in DeclarationHandles(db, s)
    BY <1>5, <1>6, <1>10 DEF Lists, Increasing
  <2>2. a[i] - 1 = ds[i] /\ a[j] - 1 = ds[j] /\ a[i] \in Int /\ a[j] \in Int /\ b[i] \in Int
    BY <1>6, <1>8
  <2>3. b[i] < ds[j]
    BY <1>9, <2>1, <2>2
  <2>4. QED
    BY <2>2, <2>3
<1>11. /\ s.start \in 1 .. Len(db) /\ db[s.start] = "svc" /\ s.end \in s.start .. Len(db)
       /\ \A j \in s.start + 1 .. s.end : db[j] # "svc"
    BY <1>5, ServiceSpans DEF TrueService
<1>12. ASSUME NEW v \in s.start + 1 .. s.end, db[v] = "val"
       PROVE  \E i \in 1 .. s.count : a[i] = v
  <2>1. v \in 1 .. Len(db)
    BY <1>1, <1>11
  <2>2. v - 1 \in 1 .. Len(db) /\ db[v - 1] = "chr"
    BY <1>12, <2>1, Declared
  <2>3. v - 1 \in DeclarationHandles(db, s)
    BY <1>11, <2>2 DEF DeclarationHandles
  <2>4. PICK i \in 1 .. s.count : ds[i] = v - 1
    BY <1>5, <1>6, <2>3 DEF Lists
  <2>5. a[i] = v
    BY <1>8, <2>4
  <2>6. QED
    BY <2>5
<1>13. ASSUME NEW h \in s.start + 1 .. s.end, db[h] \in {"svc", "val", "dsc"}
       PROVE  \E i \in 1 .. s.count : h \in a[i] .. b[i]
  <2>1. h \in 1 .. Len(db) /\ h \in Int
    BY <1>1, <1>11
  <2>2. CASE db[h] = "val"
    <3>1. PICK i \in 1 .. s.count : a[i] = h
        BY <1>12, <2>2
    <3>2. b[i] \in Int /\ a[i] <= b[i]
        BY <1>8, <1>9
    <3>3. QED
        BY <2>1, <3>1, <3>2
  <2>3. CASE db[h] = "dsc"
    <3>1. PICK v \in 1 .. h - 1 : db[v] = "val" /\ \A j \in v + 1 .. h : db[j] \in {"gap", "dsc"}
        BY <2>1, <2>3, OfCharacteristic
    <3>2. ~(v < s.start)
      <4>1. v < s.start => s.start \in v + 1 .. h
        BY <1>11, <2>1
      <4>2. QED
        BY <1>11, <3>1, <4>1
    <3>3. v # s.start
        BY <1>11, <3>1
    <3>4. v \in s.start + 1 .. s.end
        BY <1>11, <2>1, <3>2, <3>3
    <3>5. PICK i \in 1 .. s.count : a[i] = v
        BY <1>12, <3>1, <3>4
    <3>6. v \in Int /\ b[i] \in Int /\ v <= b[i] /\ b[i] <= s.end /\ (b[i] < Len(db) => db[b[i] + 1] \in {"svc", "chr"})
        BY <1>8, <1>9, <3>5
    <3>7. ~(b[i] < h)
      <4>1. b[i] < h => b[i] + 1 \in v + 1 .. h /\ b[i] < Len(db)
        BY <2>1, <3>6
      <4>2. QED
        BY <3>1, <3>6, <4>1
    <3>8. h \in v .. b[i]
        BY <2>1, <3>6, <3>7
    <3>9. QED
        BY <3>5, <3>8
  <2>4. QED
    BY <1>11, <1>13, <2>2, <2>3
<1>14. Spans(FlattenSeq(ss), s.start + 1, s.end)
  <2>1. DOMAIN ss = 1 .. s.count /\ ss = [i \in 1 .. s.count |-> ss[i]]
    BY <1>7
  <2>2. \A i \in 1 .. s.count : Spans(ss[i], a[i], b[i]) /\ s.start + 1 <= a[i] /\ b[i] <= s.end
    <3>1. ASSUME NEW i \in 1 .. s.count PROVE s.start + 1 <= a[i]
        <4>1. s.start \in Int /\ a[i] \in Int /\ s.start + 1 <= a[i] - 1
            <5>1. s.start + 1 <= a[i] - 1
                BY <1>9
            <5>2. a[i] \in Int
                BY <1>8
            <5>3. QED
                BY <1>2, <5>1, <5>2
        <4>2. QED
            BY <4>1
    <3>2. QED
        BY <1>9, <3>1
  <2>3. s.start + 1 \in Int /\ s.end \in Int
    BY <1>2
  <2> HIDE DEF ss
  <2>4. QED
    BY <1>2, <1>8, <1>10, <1>13, <2>1, <2>2, <2>3, SpansJoin
<1> DEFINE q == FlattenSeq(ss)
           x == <<"svc", s.start>>
<1>15. ReadService(s) = <<x>> \o q
    BY DEF ReadService, chrs
<1> HIDE DEF q
<1>16. /\ q \in Seq(Attributes) /\ InOrder(q)
       /\ \A y : Holds(q, y) <=>
             \E h \in s.start + 1 .. s.end : db[h] \in {"svc", "val", "dsc"} /\ y = <<db[h], h>>
    BY <1>14 DEF Spans, q
<1>17. x \in Attributes /\ x = <<db[s.start], s.start>> /\ x[2] = s.start
    BY <1>2, <1>11 DEF Attributes, Roles
<1>18. \A y : Holds(q, y) => x[2] < y[2]
    BY <1>2, <1>16, <1>17
<1>19. /\ <<x>> \o q \in Seq(Attributes) /\ InOrder(<<x>> \o q)
       /\ \A y : Holds(<<x>> \o q, y) <=> y = x \/ Holds(q, y)
    BY <1>16, <1>17, <1>18, Prepends
<1>20. \A h : h \in s.start .. s.end <=> h = s.start \/ h \in s.start + 1 .. s.end
    BY <1>2, <1>11
<1>21. ASSUME NEW y
       PROVE  (y = x \/ Holds(q, y)) <=>
              \E h \in s.start .. s.end : db[h] \in {"svc", "val", "dsc"} /\ y = <<db[h], h>>
    BY <1>11, <1>16, <1>17, <1>20
<1>22. QED
    BY <1>15, <1>19, <1>21 DEF Spans

\* What is read of the table are the attributes of the device.
LEMMA ReadsTable ==
    ASSUME db \in Databases, table \in Tables, Fit(table), Mirrors(db, table)
    PROVE  Spans(ReadTable, 1, Len(db))
<1> DEFINE sv == table.services
           n == Len(sv)
           ss == [i \in DOMAIN sv |-> ReadService(sv[i])]
           a == [i \in 1 .. n |-> sv[i].start]
           b == [i \in 1 .. n |-> sv[i].end]
<1>1. Len(db) \in Nat /\ n \in Nat /\ \A i \in 1 .. n : sv[i] \in Svcs
    BY Device, TableParts
<1>2. DOMAIN sv = 1 .. n
    BY TableParts, LenProperties
<1>3. \A i \in 1 .. n : sv[i].start \in Nat /\ sv[i].end \in Int
    BY <1>1 DEF Svcs
<1>4. a \in [1 .. n -> Int] /\ b \in [1 .. n -> Int]
    BY <1>3
<1>5. ASSUME NEW i \in 1 .. n
      PROVE  /\ Spans(ss[i], a[i], b[i]) /\ a[i] \in 1 .. Len(db) /\ b[i] \in a[i] .. Len(db)
             /\ \A j \in a[i] + 1 .. b[i] : db[j] # "svc"
             /\ b[i] < Len(db) => db[b[i] + 1] = "svc"
             /\ db[a[i]] = "svc"
  <2>1. TrueService(db, sv[i])
    BY DEF Mirrors, ServicesTrue
  <2>2. Spans(ReadService(sv[i]), sv[i].start, sv[i].end)
    BY ReadsService
  <2>3. ss[i] = ReadService(sv[i]) /\ a[i] = sv[i].start /\ b[i] = sv[i].end
    BY <1>2
  <2> HIDE DEF ss, a, b, sv
  <2>4. /\ sv[i].start \in 1 .. Len(db) /\ db[sv[i].start] = "svc"
        /\ sv[i].end \in sv[i].start .. Len(db)
        /\ \A j \in sv[i].start + 1 .. sv[i].end : db[j] # "svc"
        /\ sv[i].end < Len(db) => db[sv[i].end + 1] = "svc"
    BY <2>1, ServiceSpans DEF TrueService
  <2>5. QED
    BY <2>2, <2>3, <2>4
<1>6. \A i, j \in 1 .. n : i < j => a[i] < a[j]
    BY DEF Mirrors, ServicesTrue, Lists, Increasing, Starts
<1>7. ASSUME NEW h \in 1 .. Len(db), db[h] = "svc" PROVE \E i \in 1 .. n : a[i] = h
    BY <1>7 DEF Mirrors, ServicesTrue, Lists, Starts, ServiceHandles
<1>8. DOMAIN ss = 1 .. n /\ ss = [i \in 1 .. n |-> ss[i]]
    BY <1>2
<1>9. ReadTable = FlattenSeq(ss)
    BY DEF ReadTable
<1> HIDE DEF ss, a, b
<1>10. ASSUME NEW i \in 1 .. n, NEW j \in 1 .. n, i < j PROVE b[i] < a[j]
  <2>1. a[i] < a[j] /\ db[a[j]] = "svc"
    BY <1>5, <1>6, <1>10
  <2>2. a[j] \notin a[i] + 1 .. b[i]
    BY <1>5, <2>1
  <2>3. a[i] \in Int /\ a[j] \in Int /\ b[i] \in Int
    BY <1>4
  <2>4. QED
    BY <2>1, <2>2, <2>3
<1>11. ASSUME NEW h \in 1 .. Len(db), db[h] \in {"svc", "val", "dsc"}
       PROVE  \E i \in 1 .. n : h \in a[i] .. b[i]
  <2>1. PICK s \in 1 .. h : db[s] = "svc" /\ \A j \in s + 1 .. h : db[j] # "svc"
    BY <1>11, OfService
  <2>2. s \in 1 .. Len(db)
    BY <1>1
  <2>3. PICK i \in 1 .. n : a[i] = s
    BY <1>7, <2>1, <2>2
  <2>4. b[i] \in s .. Len(db) /\ (b[i] < Len(db) => db[b[i] + 1] = "svc")
    BY <1>5, <2>3
  <2>5. ~(b[i] < h)
    <3>1. b[i] < h => b[i] + 1 \in s + 1 .. h /\ b[i] < Len(db)
        BY <1>1, <2>4
    <3>2. QED
        BY <2>1, <2>4, <3>1
  <2>6. h \in s .. b[i]
    BY <1>1, <2>4, <2>5
  <2>7. QED
    BY <2>3, <2>6
<1>12. \A i \in 1 .. n : Spans(ss[i], a[i], b[i]) /\ 1 <= a[i] /\ b[i] <= Len(db)
  <2>1. ASSUME NEW i \in 1 .. n PROVE 1 <= a[i] /\ b[i] <= Len(db)
    <3>1. a[i] \in 1 .. Len(db) /\ b[i] \in a[i] .. Len(db)
        BY <1>5
    <3>2. QED
        BY <1>1, <3>1
  <2>2. QED
    BY <1>5, <2>1
<1> HIDE DEF n
<1>13. Spans(FlattenSeq(ss), 1, Len(db))
  <2>1. 1 \in Int /\ Len(db) \in Int
    BY <1>1
  <2>2. QED
    BY <1>1, <1>4, <1>8, <1>10, <1>11, <1>12, <2>1, SpansJoin, Zenon
<1>14. QED
    BY <1>9, <1>13

\* And so is the device's database.
LEMMA ReadsDatabase ==
    ASSUME db \in Databases
    PROVE  Spans(Database, 1, Len(db))
<1> DEFINE n == Len(db)
           ss == [h \in DOMAIN db |-> IF db[h] \in {"svc", "val", "dsc"} THEN <<<<db[h], h>>>> ELSE <<>>]
           a == [h \in 1 .. n |-> h]
<1>1. n \in Nat /\ DOMAIN db = 1 .. n /\ \A h \in 1 .. n : db[h] \in Roles
    BY Device
<1>2. a \in [1 .. n -> Int]
    BY <1>1
<1>3. ASSUME NEW h \in 1 .. n PROVE Spans(ss[h], a[h], a[h])
  <2>1. a[h] = h /\ h \in Nat /\ \A j : j \in h .. h <=> j = h
    BY <1>1
  <2>2. CASE db[h] \in {"svc", "val", "dsc"}
    <3> DEFINE x == <<db[h], h>>
    <3>1. x \in Attributes /\ ss[h] = <<x>>
        BY <1>1, <2>1, <2>2 DEF Attributes
    <3> HIDE DEF x, ss
    <3>2. <<x>> \in Seq(Attributes) /\ Len(<<x>>) = 1 /\ <<x>>[1] = x
        BY <3>1
    <3>3. InOrder(<<x>>)
        BY <3>2 DEF InOrder
    <3>4. \A y : Holds(<<x>>, y) <=> y = x
        BY <3>2 DEF Holds
    <3>5. QED
        BY <2>1, <2>2, <3>1, <3>2, <3>3, <3>4 DEF Spans, x
  <2>3. CASE db[h] \notin {"svc", "val", "dsc"}
    <3>1. ss[h] = <<>>
        BY <1>1, <2>3
    <3> HIDE DEF ss
    <3>2. <<>> \in Seq(Attributes) /\ Len(<<>>) = 0
        BY EmptySeq
    <3>3. InOrder(<<>>) /\ \A y : ~Holds(<<>>, y)
        BY <3>2 DEF InOrder, Holds
    <3>4. QED
        BY <2>1, <2>3, <3>1, <3>2, <3>3 DEF Spans
  <2>4. QED
    BY <2>2, <2>3
<1>4. DOMAIN ss = 1 .. n /\ ss = [h \in 1 .. n |-> ss[h]]
    BY <1>1
<1>5. Database = FlattenSeq(ss)
    BY DEF Database
<1>6. \A h \in 1 .. n : 1 <= a[h] /\ a[h] <= n /\ h \in a[h] .. a[h]
    BY <1>1
<1>7. \A h \in 1 .. n : db[h] \in {"svc", "val", "dsc"} => \E i \in 1 .. n : h \in a[i] .. a[i]
    BY <1>6
<1>8. 1 \in Int /\ n \in Int
    BY <1>1
<1>9. \A i, j \in 1 .. n : i < j => a[i] < a[j]
    OBVIOUS
<1> HIDE DEF ss, a, n
<1>10. Spans(FlattenSeq(ss), 1, n)
  <2>1. \A h \in 1 .. n : Spans(ss[h], a[h], a[h]) /\ 1 <= a[h] /\ a[h] <= n
    BY <1>3, <1>6
  <2>2. QED
    BY <1>1, <1>2, <1>4, <1>9, <1>7, <1>8, <2>1, SpansJoin, Zenon
<1>11. QED
    BY <1>5, <1>10 DEF n

\* What is read of a table that mirrors the device is the device.
LEMMA MirrorIsRead ==
    ASSUME db \in Databases, table \in Tables, Fit(table), Mirrors(db, table)
    PROVE  ReadTable = Database
<1>1. Spans(ReadTable, 1, Len(db)) /\ Spans(Database, 1, Len(db))
    BY ReadsTable, ReadsDatabase
<1>2. QED
    BY <1>1, OrderedEqual DEF Spans

-----------------------------------------------------------------------------
(* A list of the table grows by the handles the host reports.              *)

Carries(e) == e.type # "disconnect" /\ e.handle # NoAttribute

\* The list s and the events of q are, in order, the handles of D below b.
Tracks(s, q, D, b) ==
    /\ Increasing(s)
    /\ \A i, j \in 1 .. Len(q) : i < j /\ Carries(q[i]) /\ Carries(q[j]) => q[i].handle < q[j].handle
    /\ \A i \in DOMAIN s : \A j \in 1 .. Len(q) : Carries(q[j]) => s[i] < q[j].handle
    /\ \A i \in DOMAIN s : s[i] \in D /\ s[i] < b
    /\ \A j \in 1 .. Len(q) : Carries(q[j]) => q[j].handle \in D /\ q[j].handle < b
    /\ \A h \in D : h < b => \/ \E i \in DOMAIN s : s[i] = h
                             \/ \E j \in 1 .. Len(q) : Carries(q[j]) /\ q[j].handle = h

\* The host reports the next handle.
LEMMA Reported ==
    ASSUME NEW s, NEW q \in Seq(Events), NEW D \in SUBSET Nat, NEW b \in Nat, Tracks(s, q, D, b),
           NEW f \in Seq(Events), Len(f) = 1, Carries(f[1]),
           f[1].handle \in D, f[1].handle >= b, \A h \in D : h >= b => f[1].handle <= h
    PROVE  Tracks(s, q \o f, D, f[1].handle + 1)
<1> DEFINE n == Len(q)
           r == q \o f
           x == f[1].handle
<1>1. /\ n \in Nat /\ Len(r) = n + 1
      /\ \A i \in 1 .. Len(r) : IF i <= n THEN i \in 1 .. n /\ r[i] = q[i] ELSE i = n + 1 /\ r[i] = f[1]
  <2>1. Len(q) \in Nat /\ Len(r) = Len(q) + 1
        /\ \A i \in 1 .. Len(q) + 1 : r[i] = IF i <= Len(q) THEN q[i] ELSE f[i - Len(q)]
    BY ConcatProperties, LenProperties
  <2> HIDE DEF r
  <2>2. QED
    BY <2>1
<1>2. x \in Nat /\ x \in D /\ b <= x /\ \A h \in D : h \in Nat
    BY DEF Events
<1>3. \A i \in 1 .. n : i \in 1 .. Len(r) /\ r[i] = q[i]
    BY <1>1
<1>4. n + 1 \in 1 .. Len(r) /\ r[n + 1] = f[1]
    BY <1>1
<1> HIDE DEF n, r, x
<1>5. ASSUME NEW i \in 1 .. Len(r), NEW j \in 1 .. Len(r), i < j, Carries(r[i]), Carries(r[j])
      PROVE  r[i].handle < r[j].handle
  <2>1. CASE j <= n
    <3>1. i \in 1 .. n /\ j \in 1 .. n /\ r[i] = q[i] /\ r[j] = q[j]
        BY <1>1, <1>5, <2>1
    <3>2. QED
        BY <1>5, <3>1 DEF Tracks, n
  <2>2. CASE ~(j <= n)
    <3>1. j = n + 1 /\ r[j].handle = x
        BY <1>1, <2>2 DEF x
    <3>2. i \in 1 .. n /\ r[i] = q[i]
        BY <1>1, <1>5, <3>1
    <3>3. q[i].handle \in D /\ q[i].handle < b
        BY <1>5, <3>2 DEF Tracks, n
    <3>4. q[i].handle \in Nat
        BY <1>2, <3>3
    <3>5. q[i].handle < x
        BY <1>2, <3>3, <3>4
    <3>6. QED
        BY <3>1, <3>2, <3>5
  <2>3. QED
    BY <2>1, <2>2
<1>6. ASSUME NEW i \in DOMAIN s PROVE s[i] \in D /\ s[i] < b /\ s[i] < x /\ s[i] < x + 1
  <2>1. s[i] \in D /\ s[i] < b
    BY DEF Tracks
  <2>2. s[i] \in Nat
    BY <1>2, <2>1
  <2>3. QED
    BY <1>2, <2>1, <2>2
<1>7. ASSUME NEW i \in DOMAIN s, NEW j \in 1 .. Len(r), Carries(r[j]) PROVE s[i] < r[j].handle
  <2>1. CASE j <= n
    <3>1. j \in 1 .. n /\ r[j] = q[j]
        BY <1>1, <2>1
    <3>2. QED
        BY <1>7, <3>1 DEF Tracks, n
  <2>2. CASE ~(j <= n)
    <3>1. r[j] = f[1]
        BY <1>1, <2>2
    <3>2. QED
        BY <1>6, <3>1 DEF x
  <2>3. QED
    BY <2>1, <2>2
<1>8. ASSUME NEW j \in 1 .. Len(r), Carries(r[j]) PROVE r[j].handle \in D /\ r[j].handle < x + 1
  <2>1. CASE j <= n
    <3>1. j \in 1 .. n /\ r[j] = q[j]
        BY <1>1, <2>1
    <3>2. r[j].handle \in D /\ r[j].handle < b
        BY <1>8, <3>1 DEF Tracks, n
    <3>3. r[j].handle \in Nat
        BY <1>2, <3>2
    <3>4. QED
        BY <1>2, <3>2, <3>3
  <2>2. CASE ~(j <= n)
    <3>1. r[j].handle = x
        BY <1>1, <2>2 DEF x
    <3>2. QED
        BY <1>2, <3>1
  <2>3. QED
    BY <2>1, <2>2
<1>9. ASSUME NEW h \in D, h < x + 1
      PROVE  (\E i \in DOMAIN s : s[i] = h) \/ (\E j \in 1 .. Len(r) : Carries(r[j]) /\ r[j].handle = h)
  <2>1. CASE h < b
    <3>1. (\E i \in DOMAIN s : s[i] = h) \/ (\E j \in 1 .. n : Carries(q[j]) /\ q[j].handle = h)
        BY <2>1 DEF Tracks, n
    <3>2. QED
        BY <1>3, <3>1
  <2>2. CASE ~(h < b)
    <3>1. x <= h
        BY <1>2, <2>2 DEF x
    <3>2. h = x
        BY <1>2, <1>9, <3>1
    <3>3. QED
        BY <1>4, <3>2 DEF x
  <2>3. QED
    BY <2>1, <2>2
<1>10. Increasing(s)
    BY DEF Tracks
<1>11. Tracks(s, r, D, x + 1)
    BY <1>5, <1>6, <1>7, <1>8, <1>9, <1>10 DEF Tracks
<1>12. QED
    BY <1>11 DEF r, x

\* Events without a handle change nothing, nor does a bound past the same handles.
LEMMA Exhausted ==
    ASSUME NEW s, NEW q \in Seq(Events), NEW D, NEW b, NEW c, Tracks(s, q, D, b),
           NEW f \in Seq(Events), \A i \in 1 .. Len(f) : ~Carries(f[i]),
           \A h \in D : h < b <=> h < c
    PROVE  Tracks(s, q \o f, D, c)
<1> DEFINE n == Len(q)
           r == q \o f
<1>1. /\ n \in Nat
      /\ \A i \in 1 .. Len(r) : IF i <= n THEN i \in 1 .. n /\ r[i] = q[i] ELSE i - n \in 1 .. Len(f) /\ r[i] = f[i - n]
      /\ \A i \in 1 .. n : i \in 1 .. Len(r) /\ r[i] = q[i]
  <2>1. Len(q) \in Nat /\ Len(f) \in Nat /\ Len(r) = Len(q) + Len(f)
        /\ \A i \in 1 .. Len(q) + Len(f) : r[i] = IF i <= Len(q) THEN q[i] ELSE f[i - Len(q)]
    BY ConcatProperties, LenProperties
  <2> HIDE DEF r
  <2>2. QED
    BY <2>1
<1> HIDE DEF n, r
<1>2. ASSUME NEW j \in 1 .. Len(r), Carries(r[j]) PROVE j \in 1 .. n /\ r[j] = q[j]
    BY <1>1, <1>2
<1>3. ASSUME NEW i \in 1 .. Len(r), NEW j \in 1 .. Len(r), i < j, Carries(r[i]), Carries(r[j])
      PROVE  r[i].handle < r[j].handle
  <2>1. i \in 1 .. n /\ r[i] = q[i] /\ j \in 1 .. n /\ r[j] = q[j]
    BY <1>2, <1>3
  <2>2. QED
    BY <1>3, <2>1 DEF Tracks, n
<1>4. ASSUME NEW i \in DOMAIN s PROVE s[i] \in D /\ s[i] < c
  <2>1. s[i] \in D /\ s[i] < b
    BY DEF Tracks
  <2>2. QED
    BY <2>1
<1>5. ASSUME NEW i \in DOMAIN s, NEW j \in 1 .. Len(r), Carries(r[j]) PROVE s[i] < r[j].handle
  <2>1. j \in 1 .. n /\ r[j] = q[j]
    BY <1>2, <1>5
  <2>2. QED
    BY <1>5, <2>1 DEF Tracks, n
<1>6. ASSUME NEW j \in 1 .. Len(r), Carries(r[j]) PROVE r[j].handle \in D /\ r[j].handle < c
  <2>1. j \in 1 .. n /\ r[j] = q[j]
    BY <1>2, <1>6
  <2>2. r[j].handle \in D /\ r[j].handle < b
    BY <1>6, <2>1 DEF Tracks, n
  <2>3. QED
    BY <2>2
<1>7. ASSUME NEW h \in D, h < c
      PROVE  (\E i \in DOMAIN s : s[i] = h) \/ (\E j \in 1 .. Len(r) : Carries(r[j]) /\ r[j].handle = h)
  <2>1. h < b
    BY <1>7
  <2>2. (\E i \in DOMAIN s : s[i] = h) \/ (\E j \in 1 .. n : Carries(q[j]) /\ q[j].handle = h)
    BY <2>1 DEF Tracks, n
  <2>3. QED
    BY <1>1, <2>2
<1>8. Increasing(s)
    BY DEF Tracks
<1>9. Tracks(s, r, D, c)
    BY <1>3, <1>4, <1>5, <1>6, <1>7, <1>8 DEF Tracks
<1>10. QED
    BY <1>9 DEF r

\* The engine takes the next handle into its list, which is u then.
LEMMA Taken ==
    ASSUME NEW n \in Nat, NEW s, DOMAIN s = 1 .. n, NEW u, DOMAIN u = 1 .. n + 1,
           \A i \in 1 .. n : u[i] = s[i],
           NEW q \in Seq(Events), q # <<>>, Carries(Head(q)), u[n + 1] = Head(q).handle,
           NEW D, NEW b, Tracks(s, q, D, b)
    PROVE  Tracks(u, Tail(q), D, b)
<1> DEFINE r == Tail(q)
           x == Head(q).handle
<1>1. /\ 1 \in 1 .. Len(q) /\ Head(q) = q[1] /\ Len(q) \in Nat /\ Len(r) = Len(q) - 1
      /\ \A i \in 1 .. Len(r) : i + 1 \in 1 .. Len(q) /\ r[i] = q[i + 1]
    BY TailOf
<1>2. x = q[1].handle /\ Carries(q[1])
    BY <1>1
<1> HIDE DEF r, x
<1>3. \A i \in 1 .. n + 1 : (i \in 1 .. n /\ i # n + 1 /\ u[i] = s[i]) \/ (i = n + 1 /\ u[i] = x)
    BY DEF x
<1>4. x \in D /\ x < b
    BY <1>1, <1>2 DEF Tracks
<1>5. ASSUME NEW j \in 1 .. Len(r), Carries(r[j])
      PROVE  /\ r[j].handle \in D /\ r[j].handle < b /\ x < r[j].handle
             /\ \A i \in DOMAIN s : s[i] < r[j].handle
  <2>1. j + 1 \in 1 .. Len(q) /\ r[j] = q[j + 1] /\ 1 < j + 1
    BY <1>1
  <2>2. r[j].handle \in D /\ r[j].handle < b /\ \A i \in DOMAIN s : s[i] < r[j].handle
    BY <1>5, <2>1 DEF Tracks
  <2>3. q[1].handle < q[j + 1].handle
    BY <1>1, <1>2, <1>5, <2>1 DEF Tracks
  <2>4. QED
    BY <1>2, <2>1, <2>2, <2>3
<1>6. ASSUME NEW i \in 1 .. Len(r), NEW j \in 1 .. Len(r), i < j, Carries(r[i]), Carries(r[j])
      PROVE  r[i].handle < r[j].handle
  <2>1. /\ i + 1 \in 1 .. Len(q) /\ r[i] = q[i + 1] /\ j + 1 \in 1 .. Len(q) /\ r[j] = q[j + 1]
        /\ i + 1 < j + 1
    BY <1>1, <1>6
  <2>2. QED
    BY <1>6, <2>1 DEF Tracks
<1>7. ASSUME NEW i \in 1 .. n PROVE s[i] < x /\ s[i] \in D /\ s[i] < b
    BY <1>1, <1>2 DEF Tracks
<1>8. ASSUME NEW i \in DOMAIN u, NEW j \in DOMAIN u, i < j PROVE u[i] < u[j]
  <2>1. i \in 1 .. n /\ u[i] = s[i]
    BY <1>3, <1>8
  <2>2. CASE j \in 1 .. n
    <3>1. u[j] = s[j] /\ i \in DOMAIN s /\ j \in DOMAIN s
        BY <2>1, <2>2
    <3>2. s[i] < s[j]
        BY <1>8, <3>1 DEF Tracks, Increasing
    <3>3. QED
        BY <2>1, <3>1, <3>2
  <2>3. CASE j \notin 1 .. n
    BY <1>3, <1>7, <2>1, <2>3
  <2>4. QED
    BY <2>2, <2>3
<1>9. ASSUME NEW i \in DOMAIN u PROVE u[i] \in D /\ u[i] < b
    BY <1>3, <1>4, <1>7
<1>10. ASSUME NEW i \in DOMAIN u, NEW j \in 1 .. Len(r), Carries(r[j]) PROVE u[i] < r[j].handle
    BY <1>3, <1>5, <1>10
<1>11. ASSUME NEW h \in D, h < b
       PROVE  (\E i \in DOMAIN u : u[i] = h) \/ (\E j \in 1 .. Len(r) : Carries(r[j]) /\ r[j].handle = h)
  <2>1. (\E i \in DOMAIN s : s[i] = h) \/ (\E j \in 1 .. Len(q) : Carries(q[j]) /\ q[j].handle = h)
    BY <1>11 DEF Tracks
  <2>2. CASE \E i \in DOMAIN s : s[i] = h
    <3>1. PICK i \in 1 .. n : s[i] = h
        BY <2>2
    <3>2. i \in 1 .. n + 1 /\ u[i] = h
        BY <3>1
    <3>3. QED
        BY <3>2
  <2>3. CASE \E j \in 1 .. Len(q) : Carries(q[j]) /\ q[j].handle = h
    <3>1. PICK j \in 1 .. Len(q) : Carries(q[j]) /\ q[j].handle = h
        BY <2>3
    <3>2. CASE j = 1
        BY <1>2, <3>1, <3>2 DEF x
    <3>3. CASE j # 1
        <4>1. j - 1 \in 1 .. Len(r) /\ r[j - 1] = q[j - 1 + 1] /\ j - 1 + 1 = j
            BY <1>1, <3>3
        <4>2. QED
            BY <3>1, <4>1
    <3>4. QED
        BY <3>2, <3>3
  <2>4. QED
    BY <2>1, <2>2, <2>3
<1>12. Tracks(u, r, D, b)
    BY <1>5, <1>6, <1>8, <1>9, <1>10, <1>11 DEF Tracks, Increasing
<1>13. QED
    BY <1>12 DEF r

\* Nothing is left to report or to take.
LEMMA Listed ==
    ASSUME NEW s, NEW q, NEW D, NEW b, Tracks(s, q, D, b),
           \A i \in 1 .. Len(q) : ~Carries(q[i]), \A h \in D : h < b
    PROVE  Lists(s, D)
<1>1. Increasing(s) /\ \A i \in DOMAIN s : s[i] \in D
    BY DEF Tracks
<1>2. \A h \in D : \E i \in DOMAIN s : s[i] = h
    BY DEF Tracks
<1>3. QED
    BY <1>1, <1>2 DEF Lists

\* Nothing was reported yet.
LEMMA Unreported ==
    ASSUME NEW s, DOMAIN s = {}, NEW q, \A i \in 1 .. Len(q) : ~Carries(q[i]),
           NEW D, NEW b, \A h \in D : ~(h < b)
    PROVE  Tracks(s, q, D, b)
BY DEF Tracks, Increasing

\* Where the exploration p is, and what it has left: Left(p), for any device.
Bound(d, p) == IF p = NoProc THEN Len(d) + 1 ELSE p.next

LeftOf(d, p) ==
    {h \in p.next .. p.last : h <= Len(d) /\
        \/ p.kind = "descriptors" /\ d[h] # "gap"
        \/ p.kind = "services" /\ d[h] = "svc"
        \/ p.kind = "characteristics" /\ d[h] = "chr"}

\* The list s is to be the handles D, which are reported and queued in order.
Follows(d, s, D, q, p) ==
    /\ Tracks(s, q, D, Bound(d, p))
    /\ p # NoProc => LeftOf(d, p) = {h \in D : h >= p.next}

\* What a procedure has left, as a function of the device and the procedure.
LEMMA LeftIs == Left(proc) = LeftOf(db, proc)
BY DEF Left, LeftOf

\* Without a loss, the host's steps keep the queue on the way to the list.
LEMMA HostFollows ==
    ASSUME TypeInv, db \in Databases, Host, whole',
           NEW s, NEW D, D \subseteq 1 .. Len(db), Follows(db, s, D, queue, proc)
    PROVE  Follows(db, s, D, queue', proc')
<1>1. Len(db) \in Nat /\ queue \in Seq(Events) /\ D \in SUBSET Nat /\ (proc # NoProc => proc \in Procs)
    BY Device DEF TypeInv
<1>2. ASSUME NEW e \in Events
      PROVE  /\ <<e>> \in Seq(Events)
             /\ Fitting(<<e>>) \in Seq(Events)
             /\ \A i \in 1 .. Len(Fitting(<<e>>)) : Fitting(<<e>>)[i] = e
             /\ Fitting(<<e>>) # <<>> => Len(Fitting(<<e>>)) = 1 /\ Fitting(<<e>>)[1] = e
  <2> DEFINE es == <<e>>
             f == Fitting(es)
  <2>1. es \in Seq(Events) /\ Len(es) = 1 /\ es[1] = e
    OBVIOUS
  <2> HIDE DEF es
  <2>2. /\ f \in Seq(Events) /\ Len(f) \in Nat /\ Len(f) <= Len(es)
        /\ \A i \in 1 .. Len(f) : i \in 1 .. Len(es) /\ f[i] = es[i]
    BY <2>1, Fits
  <2> HIDE DEF f
  <2>3. \A i \in 1 .. Len(f) : f[i] = e
    BY <2>1, <2>2
  <2>4. f # <<>> => Len(f) = 1 /\ 1 \in 1 .. Len(f)
    BY <2>1, <2>2, EmptySeq
  <2>5. QED
    BY <2>1, <2>2, <2>3, <2>4 DEF f, es
<1>3. CASE Report
  <2> DEFINE h == CHOOSE i \in Left(proc) : \A j \in Left(proc) : i <= j
             e == Found(proc.kind, h)
             f == Fitting(<<e>>)
             p == [proc EXCEPT !.next = h + 1]
  <2>1. proc # NoProc /\ proc \in Procs /\ Left(proc) # {}
    BY <1>1, <1>3 DEF Report
  <2>2. h \in Left(proc) /\ \A j \in Left(proc) : h <= j
    BY <2>1, FirstLeft
  <2>3. queue' = queue \o f /\ proc' = p /\ f # <<>>
    BY <1>3 DEF Report, Push
  <2> HIDE DEF h
  <2>4. e \in Events /\ e.type = proc.kind /\ e.handle # NoAttribute /\ h + 1 \in Nat \ {0}
    BY <2>1, <2>2, FoundIs
  <2>5. e.handle = h /\ Carries(e)
    BY <2>1, <2>4 DEF Found, Carries, Procs, Kinds
  <2> HIDE DEF e
  <2>6. f \in Seq(Events) /\ Len(f) = 1 /\ f[1] = e
    BY <1>2, <2>3, <2>4
  <2> HIDE DEF f
  <2>7. p \in Procs /\ p.next = h + 1 /\ p.kind = proc.kind /\ p.last = proc.last
    BY <2>1, <2>4 DEF Procs
  <2>8. p # NoProc
    BY <2>7, NoProcAssumption DEF Procs, Kinds
  <2> HIDE DEF p
  <2>9. Tracks(s, queue, D, proc.next) /\ Left(proc) = {i \in D : i >= proc.next}
    BY <2>1, LeftIs DEF Follows, Bound
  <2>10. proc.next \in Nat /\ h \in D /\ h >= proc.next /\ \A i \in D : i >= proc.next => h <= i
    BY <2>1, <2>2, <2>9 DEF Procs
  <2>11. Tracks(s, queue \o f, D, f[1].handle + 1)
    BY <1>1, <2>5, <2>6, <2>9, <2>10, Reported
  <2>12. LeftOf(db, p) = {i \in D : i >= p.next}
    <3>1. ASSUME NEW i PROVE i \in LeftOf(db, p) <=> i \in LeftOf(db, proc) /\ i >= h + 1
        BY <2>1, <2>7, <2>10, <1>1 DEF LeftOf, Procs
    <3>2. ASSUME NEW i \in D PROVE i >= h + 1 => i >= proc.next
        BY <1>1, <2>10
    <3>3. \A i : i \in LeftOf(db, p) <=> i \in D /\ i >= proc.next /\ i >= h + 1
        BY <2>9, <3>1, LeftIs
    <3>4. \A i : i \in LeftOf(db, p) <=> i \in D /\ i >= h + 1
        BY <3>2, <3>3
    <3>5. QED
        BY <2>7, <3>4
  <2>13. QED
    BY <2>3, <2>5, <2>6, <2>7, <2>8, <2>11, <2>12 DEF Follows, Bound
<1>4. CASE ProcDone
  <2> DEFINE e == Done(proc.kind)
             f == Fitting(<<e>>)
  <2>1. proc # NoProc /\ proc \in Procs /\ Left(proc) = {}
    BY <1>1, <1>4 DEF ProcDone
  <2>2. queue' = queue \o f /\ proc' = NoProc
    BY <1>4 DEF ProcDone, Push
  <2>3. e \in Events /\ ~Carries(e)
    BY <2>1 DEF Procs, Kinds, Done, NoAttribute, Events, Carries
  <2> HIDE DEF e
  <2>4. f \in Seq(Events) /\ \A i \in 1 .. Len(f) : ~Carries(f[i])
    BY <1>2, <2>3
  <2> HIDE DEF f
  <2>5. Tracks(s, queue, D, proc.next) /\ \A h \in D : ~(h >= proc.next)
    BY <2>1, LeftIs DEF Follows, Bound
  <2>6. \A h \in D : h < proc.next <=> h < Len(db) + 1
    BY <1>1, <2>1, <2>5 DEF Procs
  <2>7. Tracks(s, queue \o f, D, Len(db) + 1)
    BY <1>1, <2>4, <2>5, <2>6, Exhausted
  <2>8. QED
    BY <2>2, <2>7 DEF Follows, Bound
<1>5. CASE CutShort
    BY <1>5 DEF CutShort
<1>6. CASE LinkGone
  <2> DEFINE f == Fitting(<<Disconnect>>)
  <2>1. proc = NoProc /\ proc' = NoProc /\ queue' = queue \o f
    BY <1>6 DEF LinkGone
  <2>2. Disconnect \in Events /\ ~Carries(Disconnect)
    BY DEF Disconnect, Events, NoAttribute, Carries
  <2>3. f \in Seq(Events) /\ \A i \in 1 .. Len(f) : ~Carries(f[i])
    BY <1>2, <2>2
  <2> HIDE DEF f
  <2>4. Tracks(s, queue, D, Len(db) + 1)
    BY <2>1 DEF Follows, Bound
  <2>5. Tracks(s, queue \o f, D, Len(db) + 1)
    BY <1>1, <2>3, <2>4, Exhausted
  <2>6. QED
    BY <2>1, <2>5 DEF Follows, Bound
<1>7. QED
    BY <1>3, <1>4, <1>5, <1>6 DEF Host

-----------------------------------------------------------------------------
(* What is known of the device in each phase.                              *)

ServicesPhase(d, t, q, p) ==
    /\ \A i \in 1 .. Len(t.services) : TrueService(d, t.services[i])
    /\ Len(t.characteristics) = 0
    /\ Follows(d, Starts(t), ServiceHandles(d), q, p)

\* A characteristic learns its end from the next one of its service, or from the
\* service's end: the last one of the service at the cursor has yet to.
CharacteristicsPhase(d, t, n, q, p) ==
    /\ ServicesTrue(d, t)
    /\ \A i \in 1 .. n : Lists(Declarations(t, i), DeclarationHandles(d, t.services[i]))
    /\ \A j \in 1 .. Len(t.characteristics) :
          /\ TrueValue(d, t.characteristics[j])
          /\ j < Len(t.characteristics) \/ t.services[n + 1].count = 0 => TrueEnd(d, t.characteristics[j])
    /\ Follows(d, Declarations(t, n + 1), DeclarationHandles(d, t.services[n + 1]), q, p)

DescriptorsPhase(d, t, n, q, p) ==
    /\ ServicesTrue(d, t) /\ CharacteristicsTrue(d, t) /\ DescriptorsTrue(d, t, n)
    /\ Follows(d, Descriptors(t, n + 1), DescriptorHandles(d, t.characteristics[n + 1]), q, p)

\* In phase k, with the cursors at s and c.
Phase(d, k, t, s, c, q, p) ==
    /\ k = "services" => ServicesPhase(d, t, q, p)
    /\ k = "characteristics" => CharacteristicsPhase(d, t, s, q, p)
    /\ k = "descriptors" => DescriptorsPhase(d, t, c, q, p)

\* The events tell the truth.
TrueEvents(d, q) ==
    \A i \in 1 .. Len(q) : Carries(q[i]) =>
        /\ q[i].type = "services" => q[i].handle2 = ServiceEnd(d, q[i].handle)
        /\ q[i].type = "characteristics" => q[i].handle2 = q[i].handle + 1

\* The table is the device's as far as it goes, as long as nothing is lost; it is the
\* device's for good when it is complete.
MirrorInv ==
    /\ db \in Databases
    /\ TrueEvents(db, queue)
    /\ whole /\ ~released =>
          /\ \A k \in Kinds : Busy(queue, proc, k) => Phase(db, k, table, svcIndex, chrIndex, queue, proc)
          /\ outcome = "complete" => Mirrors(db, table) /\ \A k \in Kinds : ~Busy(queue, proc, k)

\* The handles that a list of the table stands for are handles of the device.
LEMMA HandlesInside ==
    ASSUME NEW d \in Databases
    PROVE  /\ ServiceHandles(d) \subseteq 1 .. Len(d)
           /\ \A s : TrueService(d, s) => DeclarationHandles(d, s) \subseteq 1 .. Len(d)
           /\ \A c : TrueValue(d, c) /\ TrueEnd(d, c) => DescriptorHandles(d, c) \subseteq 1 .. Len(d)
<1>1. Len(d) \in Nat
    BY Device
<1>2. ASSUME NEW s, TrueService(d, s) PROVE DeclarationHandles(d, s) \subseteq 1 .. Len(d)
  <2>1. s.start \in 1 .. Len(d) /\ d[s.start] = "svc" /\ s.end = ServiceEnd(d, s.start)
    BY <1>2 DEF TrueService
  <2>2. s.end \in s.start .. Len(d)
    BY <2>1, ServiceSpans
  <2>3. QED
    BY <1>1, <2>1, <2>2 DEF DeclarationHandles
<1>3. ASSUME NEW c, TrueValue(d, c), TrueEnd(d, c) PROVE DescriptorHandles(d, c) \subseteq 1 .. Len(d)
  <2>1. c.value \in 2 .. Len(d) /\ c.end \in c.value .. Len(d)
    BY <1>3 DEF TrueValue, TrueEnd
  <2>2. QED
    BY <1>1, <2>1 DEF DescriptorHandles
<1>4. QED
    BY <1>2, <1>3 DEF ServiceHandles

\* A step of the host moves handles from what it has left to the queue.
LEMMA PhaseHost ==
    ASSUME DiscoveryInv, db \in Databases, Host, whole', ~released, NEW k \in Kinds, Busy(queue, proc, k),
           Phase(db, k, table, svcIndex, chrIndex, queue, proc)
    PROVE  Phase(db, k, table, svcIndex, chrIndex, queue', proc')
<1>1. TypeInv /\ Grows(k, table, svcIndex, chrIndex, released) /\ table \in Tables
      /\ svcIndex \in Nat /\ chrIndex \in Nat
    BY DEF DiscoveryInv, TypeInv, TableInv
<1>2. CASE k = "services"
  <2>1. Follows(db, Starts(table), ServiceHandles(db), queue, proc)
    BY <1>2 DEF Phase, ServicesPhase
  <2>2. Follows(db, Starts(table), ServiceHandles(db), queue', proc')
    BY <1>1, <2>1, HandlesInside, HostFollows
  <2>3. QED
    BY <1>2, <2>2 DEF Phase, ServicesPhase
<1>3. CASE k = "characteristics"
  <2> DEFINE s == table.services[svcIndex + 1]
  <2>1. /\ ServicesTrue(db, table)
        /\ Follows(db, Declarations(table, svcIndex + 1), DeclarationHandles(db, s), queue, proc)
    BY <1>3 DEF Phase, CharacteristicsPhase
  <2>2. svcIndex + 1 \in 1 .. Len(table.services)
    BY <1>1, <1>3, TableParts DEF Grows
  <2>3. TrueService(db, s)
    BY <2>1, <2>2 DEF ServicesTrue
  <2>4. DeclarationHandles(db, s) \subseteq 1 .. Len(db)
    BY <2>3, HandlesInside
  <2>5. Follows(db, Declarations(table, svcIndex + 1), DeclarationHandles(db, s), queue', proc')
    BY <1>1, <2>1, <2>4, HostFollows
  <2>6. QED
    BY <1>3, <2>5 DEF Phase, CharacteristicsPhase
<1>4. CASE k = "descriptors"
  <2> DEFINE c == table.characteristics[chrIndex + 1]
  <2>1. /\ CharacteristicsTrue(db, table)
        /\ Follows(db, Descriptors(table, chrIndex + 1), DescriptorHandles(db, c), queue, proc)
    BY <1>4 DEF Phase, DescriptorsPhase
  <2>2. chrIndex + 1 \in 1 .. Len(table.characteristics)
    BY <1>1, <1>4, TableParts DEF Grows
  <2>3. TrueValue(db, c) /\ TrueEnd(db, c)
    BY <2>1, <2>2 DEF CharacteristicsTrue
  <2>4. DescriptorHandles(db, c) \subseteq 1 .. Len(db)
    BY <2>3, HandlesInside
  <2>5. Follows(db, Descriptors(table, chrIndex + 1), DescriptorHandles(db, c), queue', proc')
    BY <1>1, <2>1, <2>4, HostFollows
  <2>6. QED
    BY <1>4, <2>5 DEF Phase, DescriptorsPhase
<1>5. QED
    BY <1>2, <1>3, <1>4 DEF Kinds

\* What a host's step pushes is true.
LEMMA EventsHost ==
    ASSUME TypeInv, Host, TrueEvents(db, queue)
    PROVE  TrueEvents(db, queue')
<1>1. queue \in Seq(Events) /\ (proc # NoProc => proc \in Procs)
    BY DEF TypeInv
<1> DEFINE True(e) == Carries(e) =>
               /\ e.type = "services" => e.handle2 = ServiceEnd(db, e.handle)
               /\ e.type = "characteristics" => e.handle2 = e.handle + 1
<1>2. Disconnect \in Events /\ True(Disconnect)
    BY DEF Disconnect, Events, NoAttribute, Carries
<1>3. ASSUME proc # NoProc PROVE Done(proc.kind) \in Events /\ True(Done(proc.kind))
  <2>1. proc.kind \in Kinds
    BY <1>1, <1>3 DEF Procs
  <2>2. QED
    BY <2>1 DEF Kinds, Done, NoAttribute, Events, Carries
<1>4. ASSUME proc # NoProc, NEW h \in Left(proc) PROVE Found(proc.kind, h) \in Events /\ True(Found(proc.kind, h))
  <2>1. Found(proc.kind, h) \in Events /\ proc.kind \in Kinds
    BY <1>1, <1>4, FoundIs DEF Procs
  <2>2. True(Found(proc.kind, h))
    BY <2>1 DEF Found, Kinds
  <2>3. QED
    BY <2>1, <2>2
<1>5. ASSUME NEW es \in Seq(Events), queue' = queue \o Fitting(es), \A i \in 1 .. Len(es) : True(es[i])
      PROVE  TrueEvents(db, queue')
  <2> DEFINE f == Fitting(es)
             r == queue \o f
  <2>1. /\ f \in Seq(Events) /\ Len(f) \in Nat
        /\ \A i \in 1 .. Len(f) : i \in 1 .. Len(es) /\ f[i] = es[i]
    BY <1>5, Fits
  <2>2. queue' = r
    BY <1>5
  <2> HIDE DEF f
  <2>3. Len(queue) \in Nat /\ Len(r) = Len(queue) + Len(f)
        /\ \A i \in 1 .. Len(queue) + Len(f) : r[i] = IF i <= Len(queue) THEN queue[i] ELSE f[i - Len(queue)]
    BY <1>1, <2>1, ConcatProperties, LenProperties
  <2> HIDE DEF r
  <2>4. ASSUME NEW i \in 1 .. Len(r) PROVE True(r[i])
    <3>1. CASE i <= Len(queue)
        <4>1. i \in 1 .. Len(queue) /\ r[i] = queue[i]
            BY <2>1, <2>3, <3>1
        <4>2. QED
            BY <4>1 DEF TrueEvents
    <3>2. CASE ~(i <= Len(queue))
        <4>1. i - Len(queue) \in 1 .. Len(f) /\ r[i] = f[i - Len(queue)]
            BY <2>1, <2>3, <3>2
        <4> HIDE DEF True
        <4>2. QED
            BY <1>5, <2>1, <4>1
    <3>3. QED
        BY <3>1, <3>2
  <2>5. QED
    BY <2>2, <2>4 DEF TrueEvents
<1> HIDE DEF True
<1>6. ASSUME NEW e \in Events, True(e), queue' = queue \o Fitting(<<e>>) PROVE TrueEvents(db, queue')
  <2> DEFINE es == <<e>>
  <2>1. es \in Seq(Events) /\ \A i \in 1 .. Len(es) : es[i] = e
    OBVIOUS
  <2>2. queue' = queue \o Fitting(es)
    BY <1>6
  <2> HIDE DEF es
  <2>3. \A i \in 1 .. Len(es) : True(es[i])
    BY <1>6, <2>1
  <2>4. QED
    BY <1>5, <2>1, <2>2, <2>3
<1>7. CASE Report
  <2> DEFINE h == CHOOSE i \in Left(proc) : \A j \in Left(proc) : i <= j
  <2>1. proc # NoProc /\ h \in Left(proc)
    BY <1>7, FirstLeft DEF Report
  <2>2. queue' = queue \o Fitting(<<Found(proc.kind, h)>>)
    BY <1>7 DEF Report, Push
  <2> HIDE DEF h
  <2>3. QED
    BY <1>4, <1>6, <2>1, <2>2
<1>8. CASE ProcDone \/ CutShort
  <2>1. proc # NoProc /\ queue' = queue \o Fitting(<<Done(proc.kind)>>)
    BY <1>8 DEF ProcDone, CutShort, Push
  <2>2. QED
    BY <1>3, <1>6, <2>1
<1>9. CASE LinkGone
  <2>1. CASE proc = NoProc
    <3>1. queue' = queue \o Fitting(<<Disconnect>>)
        BY <1>9, <2>1 DEF LinkGone
    <3>2. QED
        BY <1>2, <1>6, <3>1
  <2>2. CASE proc # NoProc
    <3> DEFINE e == Done(proc.kind)
               es == <<e, Disconnect>>
    <3>1. queue' = queue \o Fitting(es)
        BY <1>9, <2>2 DEF LinkGone
    <3>2. e \in Events /\ True(e)
        BY <1>3, <2>2
    <3> HIDE DEF e
    <3>3. es \in Seq(Events) /\ Len(es) = 2 /\ es[1] = e /\ es[2] = Disconnect
        BY <1>2, <3>2
    <3> HIDE DEF es
    <3>4. \A i \in 1 .. Len(es) : es[i] = e \/ es[i] = Disconnect
        BY <3>3
    <3>5. \A i \in 1 .. Len(es) : True(es[i])
        BY <1>2, <3>2, <3>4
    <3>6. QED
        BY <1>5, <3>1, <3>3, <3>5
  <2>3. QED
    BY <2>1, <2>2
<1>10. QED
    BY <1>7, <1>8, <1>9 DEF Host

\* So it keeps the table the device's as far as it goes.
LEMMA MirrorHost ==
    ASSUME DiscoveryInv, MirrorInv, Host
    PROVE  MirrorInv'
<1>1. /\ \A k \in Kinds : Busy(queue', proc', k) => Busy(queue, proc, k)
      /\ UNCHANGED <<table, svcIndex, chrIndex, released>>
    BY HostStep DEF DiscoveryInv
<1>2. db' = db /\ outcome' = outcome /\ (whole' => whole)
    BY DEF Host, Report, ProcDone, CutShort, LinkGone, Push, engineVars
<1>3. TrueEvents(db, queue')
    BY EventsHost DEF DiscoveryInv, MirrorInv
<1>4. db \in Databases
    BY DEF MirrorInv
<1>5. ASSUME whole', ~released
      PROVE  /\ \A k \in Kinds : Busy(queue', proc', k) => Phase(db, k, table, svcIndex, chrIndex, queue', proc')
             /\ outcome = "complete" => Mirrors(db, table) /\ \A k \in Kinds : ~Busy(queue', proc', k)
  <2>1. ASSUME NEW k \in Kinds, Busy(queue', proc', k)
        PROVE  Phase(db, k, table, svcIndex, chrIndex, queue', proc')
    <3>1. Busy(queue, proc, k)
        BY <1>1, <2>1
    <3>2. Phase(db, k, table, svcIndex, chrIndex, queue, proc)
        BY <1>2, <1>5, <3>1 DEF MirrorInv
    <3>3. QED
        BY <1>4, <1>5, <3>1, <3>2, PhaseHost
  <2>2. outcome = "complete" => Mirrors(db, table) /\ \A k \in Kinds : ~Busy(queue', proc', k)
    BY <1>1, <1>2, <1>5 DEF MirrorInv
  <2>3. QED
    BY <2>1, <2>2
<1>6. QED
    BY <1>1, <1>2, <1>3, <1>4, <1>5 DEF MirrorInv

-----------------------------------------------------------------------------
(* The engine stores what was found.                                       *)

\* The next event's handle follows those of the list, with none of D between.
LEMMA HeadIs ==
    ASSUME NEW s, NEW q \in Seq(Events), q # <<>>, Carries(Head(q)), NEW D \in SUBSET Nat,
           NEW b \in Nat, Tracks(s, q, D, b)
    PROVE  /\ Head(q).handle \in D /\ \A i \in DOMAIN s : s[i] < Head(q).handle
           /\ \A h \in D : h < Head(q).handle => \E i \in DOMAIN s : s[i] = h
<1>1. 1 \in 1 .. Len(q) /\ Head(q) = q[1] /\ Len(q) \in Nat
    BY TailOf
<1>2. q[1].handle \in D /\ q[1].handle < b /\ \A i \in DOMAIN s : s[i] < q[1].handle
    BY <1>1 DEF Tracks
<1>3. ASSUME NEW h \in D, h < q[1].handle PROVE \E i \in DOMAIN s : s[i] = h
  <2>1. h < b
    <3>1. h \in Nat /\ q[1].handle \in Nat
        BY <1>2
    <3>2. QED
        BY <1>2, <1>3, <3>1
  <2>2. ASSUME NEW j \in 1 .. Len(q), Carries(q[j]), q[j].handle = h PROVE FALSE
    <3>1. CASE j = 1
        BY <1>2, <1>3, <2>2, <3>1
    <3>2. CASE j # 1
        <4>1. 1 < j
            BY <1>1, <3>2
        <4>2. q[1].handle < q[j].handle
            BY <1>1, <2>2, <4>1 DEF Tracks
        <4>3. h \in Nat /\ q[1].handle \in Nat
            BY <1>2
        <4>4. QED
            BY <1>3, <2>2, <4>2, <4>3
    <3>3. QED
        BY <3>1, <3>2
  <2>3. QED
    BY <2>1, <2>2 DEF Tracks
<1>4. QED
    BY <1>1, <1>2, <1>3

\* The handle of the first event moves from the queue to the end of the list.
LEMMA FollowsTaken ==
    ASSUME NEW n \in Nat, NEW s, DOMAIN s = 1 .. n, NEW u, DOMAIN u = 1 .. n + 1,
           \A i \in 1 .. n : u[i] = s[i],
           NEW q \in Seq(Events), q # <<>>, Carries(Head(q)), u[n + 1] = Head(q).handle,
           NEW d, NEW D, NEW p, Follows(d, s, D, q, p)
    PROVE  Follows(d, u, D, Tail(q), p)
<1>1. Tracks(s, q, D, Bound(d, p)) /\ (p # NoProc => LeftOf(d, p) = {h \in D : h >= p.next})
    BY DEF Follows
<1>2. Tracks(u, Tail(q), D, Bound(d, p))
    BY <1>1, Taken
<1>3. QED
    BY <1>1, <1>2 DEF Follows

\* Tables that agree on where services start and end.
LEMMA ServicesAgree ==
    ASSUME NEW d, NEW t, NEW u, ServicesTrue(d, t), Len(u.services) = Len(t.services),
           \A i \in 1 .. Len(t.services) :
              u.services[i].start = t.services[i].start /\ u.services[i].end = t.services[i].end
    PROVE  ServicesTrue(d, u)
<1>1. Starts(u) = Starts(t)
    BY DEF Starts
<1>2. ASSUME NEW i \in 1 .. Len(u.services) PROVE TrueService(d, u.services[i])
    BY DEF ServicesTrue, TrueService
<1>3. QED
    BY <1>1, <1>2 DEF ServicesTrue

\* Tables that agree on the range of a service, and on the values in it.
LEMMA DeclarationsAgree ==
    ASSUME NEW t \in Tables, Fit(t), NEW i \in 1 .. Len(t.services), NEW u,
           u.services[i].count = t.services[i].count,
           t.services[i].count = 0 \/ u.services[i].first = t.services[i].first,
           \A j \in 1 .. Len(t.characteristics) : u.characteristics[j].value = t.characteristics[j].value
    PROVE  Declarations(u, i) = Declarations(t, i)
<1> DEFINE c == t.services[i].count
           f == t.services[i].first
<1>1. t.services[i] \in Svcs /\ Len(t.characteristics) \in Nat
    BY TableParts
<1>2. c \in Nat /\ f \in Nat
    BY <1>1 DEF Svcs
<1>3. c = 0 \/ f + c <= Len(t.characteristics)
    BY DEF Fit
<1> HIDE DEF c, f
<1>4. ASSUME NEW k \in 1 .. c PROVE f + k \in 1 .. Len(t.characteristics)
    BY <1>1, <1>2, <1>3
<1>5. \A k \in 1 .. c : u.characteristics[u.services[i].first + k].value = t.characteristics[f + k].value
  <2>1. ASSUME NEW k \in 1 .. c PROVE u.characteristics[u.services[i].first + k].value = t.characteristics[f + k].value
    <3>1. c # 0
        BY <1>2
    <3>2. u.services[i].first = f
        BY <3>1 DEF c, f
    <3>3. QED
        BY <1>4, <3>2
  <2>2. QED
    BY <2>1
<1>6. QED
    BY <1>5 DEF Declarations, c, f

\* Tables that agree on the range of a characteristic, and on the descriptors in it.
LEMMA DescriptorsAgree ==
    ASSUME NEW t \in Tables, Fit(t), NEW j \in 1 .. Len(t.characteristics), NEW u,
           u.characteristics[j].count = t.characteristics[j].count,
           t.characteristics[j].count = 0 \/ u.characteristics[j].first = t.characteristics[j].first,
           \A k \in 1 .. Len(t.descriptors) : u.descriptors[k] = t.descriptors[k]
    PROVE  Descriptors(u, j) = Descriptors(t, j)
<1> DEFINE c == t.characteristics[j].count
           f == t.characteristics[j].first
<1>1. t.characteristics[j] \in Chrs /\ Len(t.descriptors) \in Nat
    BY TableParts
<1>2. c \in Nat /\ f \in Nat
    BY <1>1 DEF Chrs
<1>3. c = 0 \/ f + c <= Len(t.descriptors)
    BY DEF Fit
<1> HIDE DEF c, f
<1>4. ASSUME NEW k \in 1 .. c PROVE f + k \in 1 .. Len(t.descriptors)
    BY <1>1, <1>2, <1>3
<1>5. \A k \in 1 .. c : u.descriptors[u.characteristics[j].first + k] = t.descriptors[f + k]
  <2>1. ASSUME NEW k \in 1 .. c PROVE u.descriptors[u.characteristics[j].first + k] = t.descriptors[f + k]
    <3>1. c # 0
        BY <1>2
    <3>2. u.characteristics[j].first = f
        BY <3>1 DEF c, f
    <3>3. QED
        BY <1>4, <3>2
  <2>2. QED
    BY <2>1
<1>6. QED
    BY <1>5 DEF Descriptors, c, f

\* A service.
LEMMA ServiceStored ==
    ASSUME NEW d \in Databases, NEW t \in Tables, NEW q \in Seq(Events), q # <<>>, Carries(Head(q)),
           NEW e, e = Head(q), e.type = "services", e.handle2 = ServiceEnd(d, e.handle), NEW p,
           p # NoProc => p \in Procs, ServicesPhase(d, t, q, p), NEW u, u = AddService(t, e)
    PROVE  ServicesPhase(d, u, Tail(q), p)
<1> DEFINE n == Len(t.services)
           s == [start |-> e.handle, end |-> e.handle2, first |-> 0, count |-> 0]
           ss == Append(t.services, s)
           D == ServiceHandles(d)
<1>1. t.services \in Seq(Svcs) /\ n \in Nat
    BY TableParts
<1>2. Len(d) \in Nat /\ D \in SUBSET Nat /\ \A h \in D : h \in 1 .. Len(d) /\ d[h] = "svc"
    BY Device DEF ServiceHandles
<1>3. Bound(d, p) \in Nat
    BY <1>2 DEF Bound, Procs
<1>4. Follows(d, Starts(t), D, q, p) /\ Tracks(Starts(t), q, D, Bound(d, p))
    BY DEF ServicesPhase, Follows
<1>5. e.handle \in D /\ e \in Events /\ e.handle # NoAttribute
  <2>1. Head(q).handle \in D
    BY <1>2, <1>3, <1>4, HeadIs
  <2>2. QED
    BY <2>1, TailOf DEF Carries
<1> HIDE DEF D
<1>6. s \in Svcs /\ s.start = e.handle
    BY <1>5 DEF Svcs, Events, NoAttribute
<1>7. TrueService(d, s)
    BY <1>2, <1>5 DEF TrueService
<1> HIDE DEF s
<1>8. /\ Len(ss) = n + 1 /\ \A i \in 1 .. n : ss[i] = t.services[i]
      /\ ss[n + 1] = s
    BY <1>1, <1>6, AppendProperties
<1>9. u.services = ss /\ u.characteristics = t.characteristics
  <2>1. u = [t EXCEPT !.services = ss]
    BY DEF AddService, s
  <2> HIDE DEF ss
  <2>2. QED
    BY <2>1 DEF Tables
<1> HIDE DEF ss, n
<1>10. \A i \in 1 .. n + 1 : (i \in 1 .. n /\ ss[i] = t.services[i]) \/ (i = n + 1 /\ ss[i] = s)
    BY <1>1, <1>8
<1>11. \A i \in 1 .. Len(u.services) : TrueService(d, u.services[i])
    BY <1>7, <1>8, <1>9, <1>10 DEF ServicesPhase, n
<1>12. DOMAIN Starts(t) = 1 .. n /\ DOMAIN Starts(u) = 1 .. n + 1
    BY <1>8, <1>9 DEF Starts, n
<1>13. \A i \in 1 .. n : Starts(u)[i] = Starts(t)[i]
    BY <1>8, <1>9, <1>10, <1>1 DEF Starts, n
<1>14. Starts(u)[n + 1] = Head(q).handle
  <2>1. n + 1 \in 1 .. Len(u.services)
    BY <1>1, <1>8, <1>9
  <2>2. QED
    BY <1>6, <1>8, <1>9, <2>1 DEF Starts
<1>15. Follows(d, Starts(u), D, Tail(q), p)
    BY <1>1, <1>4, <1>12, <1>13, <1>14, FollowsTaken
<1>16. QED
    BY <1>9, <1>11, <1>15 DEF ServicesPhase, D

\* What EndLast, AddCharacteristic and AddDescriptor leave in the table.
LEMMA LastEnded ==
    ASSUME NEW t \in Tables, t.characteristics # <<>>, NEW h \in Int, NEW u, u = EndLast(t, h)
    PROVE  \A j \in 1 .. Len(t.characteristics) :
              /\ u.characteristics[j].value = t.characteristics[j].value
              /\ u.characteristics[j].end = IF j = Len(t.characteristics) THEN h ELSE t.characteristics[j].end
<1> DEFINE cs == t.characteristics
           n == Len(cs)
           r == [cs[n] EXCEPT !.end = h]
           us == [cs EXCEPT ![n] = r]
<1>1. cs \in Seq(Chrs) /\ n \in Nat /\ \A i \in 1 .. n : cs[i] \in Chrs
    BY TableParts
<1>2. n \in 1 .. n /\ cs[n] \in Chrs
  <2>1. n # 0
    BY <1>1, EmptySeq
  <2>2. n \in 1 .. n
    BY <1>1, <2>1
  <2>3. QED
    BY <1>1, <2>2
<1>3. r \in Chrs /\ r.value = cs[n].value /\ r.end = h
    BY <1>2 DEF Chrs
<1>4. u = [t EXCEPT !.characteristics = us]
    BY DEF EndLast
<1> HIDE DEF r
<1>5. us \in Seq(Chrs) /\ \A j \in 1 .. n : us[j] = IF j = n THEN r ELSE cs[j]
    BY <1>1, <1>2, <1>3, ExceptSeq
<1> HIDE DEF us
<1>6. u.characteristics = us
    BY <1>4, <1>5 DEF Tables
<1>7. QED
    BY <1>3, <1>5, <1>6

\* What adding a characteristic to the service i for the event e makes of the table t.
CharacteristicAppended(t, i, e, u) ==
    /\ Len(u.services) = Len(t.services)
    /\ \A k \in 1 .. Len(t.services) :
          /\ u.services[k].start = t.services[k].start /\ u.services[k].end = t.services[k].end
          /\ u.services[k].first = t.services[k].first
          /\ u.services[k].count = IF k = i THEN t.services[k].count + 1 ELSE t.services[k].count
    /\ Len(u.characteristics) = Len(t.characteristics) + 1
    /\ \A j \in 1 .. Len(t.characteristics) :
          /\ u.characteristics[j].value = t.characteristics[j].value
          /\ u.characteristics[j].end =
                IF t.services[i].count > 0 /\ j = Len(t.characteristics) THEN e.handle - 1
                ELSE t.characteristics[j].end
    /\ u.characteristics[Len(t.characteristics) + 1].value = e.handle2

\* AddCharacteristic() does so.
LEMMA CharacteristicAdded ==
    ASSUME NEW t \in Tables, NEW i \in 1 .. Len(t.services), NEW e \in Events, e.type = "characteristics",
           t.services[i].count > 0 => t.characteristics # <<>>, NEW u, u = AddCharacteristic(t, i, e)
    PROVE  CharacteristicAppended(t, i, e, u)
<1> DEFINE v == IF t.services[i].count > 0 THEN EndLast(t, e.handle - 1) ELSE t
           c == [value |-> e.handle2, end |-> 0, first |-> 0, count |-> 0]
           n == Len(t.characteristics)
<1>1. c \in Chrs /\ c.value = e.handle2 /\ e.handle \in Nat /\ n \in Nat
    BY TableParts DEF Chrs, Events
<1>2. /\ v \in Tables /\ v.services = t.services /\ Len(v.characteristics) = n
      /\ \A j \in 1 .. n :
            /\ v.characteristics[j].value = t.characteristics[j].value
            /\ v.characteristics[j].end = IF t.services[i].count > 0 /\ j = n THEN e.handle - 1
                                          ELSE t.characteristics[j].end
  <2>1. CASE t.services[i].count > 0
    <3>1. v = EndLast(t, e.handle - 1) /\ e.handle - 1 \in Int /\ t.characteristics # <<>>
        BY <1>1, <2>1
    <3> HIDE DEF v
    <3>2. v \in Tables /\ v.services = t.services /\ Len(v.characteristics) = n
        BY <3>1, EndsLast
    <3>3. \A j \in 1 .. n :
            /\ v.characteristics[j].value = t.characteristics[j].value
            /\ v.characteristics[j].end = IF j = n THEN e.handle - 1 ELSE t.characteristics[j].end
        BY <3>1, LastEnded
    <3>4. QED
        BY <2>1, <3>2, <3>3
  <2>2. CASE ~(t.services[i].count > 0)
    BY <2>2
  <2>3. QED
    BY <2>1, <2>2
<1>3. u = [v EXCEPT !.characteristics = Append(@, c), !.services[i].count = @ + 1]
    BY DEF AddCharacteristic
<1> HIDE DEF v, c, n
<1> DEFINE ss == t.services
           r == [ss[i] EXCEPT !.count = @ + 1]
           us == [ss EXCEPT ![i] = r]
           uc == Append(v.characteristics, c)
<1>4. u = [v EXCEPT !.characteristics = uc, !.services = us]
    BY <1>2, <1>3
<1>5. ss \in Seq(Svcs) /\ ss[i] \in Svcs /\ v.characteristics \in Seq(Chrs)
    BY <1>2, TableParts
<1>6. /\ r \in Svcs /\ r.start = ss[i].start /\ r.end = ss[i].end
      /\ r.first = ss[i].first /\ r.count = ss[i].count + 1
  <2> DEFINE x == ss[i]
  <2>1. x \in Svcs /\ r = [x EXCEPT !.count = @ + 1]
    BY <1>5
  <2> HIDE DEF x, r
  <2>2. x.count \in Nat
    BY <2>1 DEF Svcs
  <2>3. r \in Svcs /\ r.start = x.start /\ r.end = x.end /\ r.first = x.first
    BY <2>1, <2>2 DEF Svcs
  <2>4. r.count = x.count + 1
    BY <2>1 DEF Svcs
  <2>5. QED
    BY <2>3, <2>4 DEF x
<1> HIDE DEF r, ss
<1>7. us \in Seq(Svcs) /\ Len(us) = Len(ss) /\ \A k \in 1 .. Len(ss) : us[k] = IF k = i THEN r ELSE ss[k]
    BY <1>5, <1>6, ExceptSeq DEF ss
<1>8. /\ Len(uc) = n + 1 /\ \A j \in 1 .. n : uc[j] = v.characteristics[j]
      /\ uc[n + 1] = c
  <2> DEFINE w == v.characteristics
  <2>1. w \in Seq(Chrs) /\ c \in Chrs /\ Len(w) = n /\ uc = Append(w, c)
    BY <1>1, <1>2, <1>5
  <2> HIDE DEF w, uc
  <2>2. /\ Len(uc) = Len(w) + 1 /\ \A j \in 1 .. Len(w) : uc[j] = w[j]
        /\ uc[Len(w) + 1] = c
    BY <2>1, AppendProperties
  <2>3. QED
    BY <2>1, <2>2 DEF w
<1> HIDE DEF us, uc
<1>9. u.services = us /\ u.characteristics = uc
    BY <1>2, <1>4 DEF Tables
<1>10. \A k \in 1 .. Len(ss) :
         /\ us[k].start = ss[k].start /\ us[k].end = ss[k].end
         /\ us[k].first = ss[k].first
         /\ us[k].count = IF k = i THEN ss[k].count + 1 ELSE ss[k].count
    BY <1>6, <1>7
<1>11. /\ Len(u.services) = Len(t.services)
       /\ \A k \in 1 .. Len(t.services) :
             /\ u.services[k].start = t.services[k].start /\ u.services[k].end = t.services[k].end
             /\ u.services[k].first = t.services[k].first
             /\ u.services[k].count = IF k = i THEN t.services[k].count + 1 ELSE t.services[k].count
    BY <1>7, <1>9, <1>10 DEF ss
<1>12. /\ Len(u.characteristics) = Len(t.characteristics) + 1
       /\ \A j \in 1 .. Len(t.characteristics) :
             /\ u.characteristics[j].value = t.characteristics[j].value
             /\ u.characteristics[j].end =
                   IF t.services[i].count > 0 /\ j = Len(t.characteristics) THEN e.handle - 1
                   ELSE t.characteristics[j].end
       /\ u.characteristics[Len(t.characteristics) + 1].value = e.handle2
    BY <1>1, <1>2, <1>8, <1>9 DEF n
<1>13. QED
    BY <1>11, <1>12 DEF CharacteristicAppended

\* What adding a descriptor to the characteristic i for the event e makes of the table t.
DescriptorAppended(t, i, e, u) ==
    /\ u.services = t.services /\ Len(u.characteristics) = Len(t.characteristics)
    /\ \A j \in 1 .. Len(t.characteristics) :
          /\ u.characteristics[j].value = t.characteristics[j].value
          /\ u.characteristics[j].end = t.characteristics[j].end
          /\ u.characteristics[j].first = t.characteristics[j].first
          /\ u.characteristics[j].count = IF j = i THEN t.characteristics[j].count + 1
                                          ELSE t.characteristics[j].count
    /\ \A k \in 1 .. Len(t.descriptors) : u.descriptors[k] = t.descriptors[k]
    /\ u.descriptors[Len(t.descriptors) + 1] = e.handle

\* AddDescriptor() does so.
LEMMA DescriptorAdded ==
    ASSUME NEW t \in Tables, NEW i \in 1 .. Len(t.characteristics), NEW e \in Events,
           NEW u, u = AddDescriptor(t, i, e)
    PROVE  DescriptorAppended(t, i, e, u)
<1> DEFINE cs == t.characteristics
           ds == t.descriptors
           r == [cs[i] EXCEPT !.count = @ + 1]
           us == [cs EXCEPT ![i] = r]
           ud == Append(ds, e.handle)
<1>1. cs \in Seq(Chrs) /\ cs[i] \in Chrs /\ ds \in Seq(Nat) /\ Len(ds) \in Nat /\ e.handle \in Nat
    BY TableParts DEF Events
<1>2. /\ r \in Chrs /\ r.value = cs[i].value /\ r.end = cs[i].end
      /\ r.first = cs[i].first /\ r.count = cs[i].count + 1
  <2> DEFINE x == cs[i]
  <2>1. x \in Chrs /\ r = [x EXCEPT !.count = @ + 1]
    BY <1>1
  <2> HIDE DEF x, r
  <2>2. x.count \in Nat
    BY <2>1 DEF Chrs
  <2>3. r \in Chrs /\ r.value = x.value /\ r.end = x.end /\ r.first = x.first
    BY <2>1, <2>2 DEF Chrs
  <2>4. r.count = x.count + 1
    BY <2>1 DEF Chrs
  <2>5. QED
    BY <2>3, <2>4 DEF x
<1>3. u = [t EXCEPT !.descriptors = ud, !.characteristics = us]
    BY DEF AddDescriptor
<1> HIDE DEF r
<1>4. us \in Seq(Chrs) /\ Len(us) = Len(cs) /\ \A j \in 1 .. Len(cs) : us[j] = IF j = i THEN r ELSE cs[j]
    BY <1>1, <1>2, ExceptSeq
<1>5. \A k \in 1 .. Len(ds) : ud[k] = ds[k] /\ ud[Len(ds) + 1] = e.handle
    BY <1>1, AppendProperties
<1>6. ud[Len(ds) + 1] = e.handle
    BY <1>1, AppendProperties
<1> HIDE DEF us, ud
<1>7. u.services = t.services /\ u.characteristics = us /\ u.descriptors = ud
    BY <1>3 DEF Tables
<1> HIDE DEF cs
<1>8. \A j \in 1 .. Len(cs) :
         /\ us[j].value = cs[j].value /\ us[j].end = cs[j].end
         /\ us[j].first = cs[j].first
         /\ us[j].count = IF j = i THEN cs[j].count + 1 ELSE cs[j].count
    BY <1>2, <1>4
<1>9. /\ Len(u.characteristics) = Len(t.characteristics)
      /\ \A j \in 1 .. Len(t.characteristics) :
            /\ u.characteristics[j].value = t.characteristics[j].value
            /\ u.characteristics[j].end = t.characteristics[j].end
            /\ u.characteristics[j].first = t.characteristics[j].first
            /\ u.characteristics[j].count = IF j = i THEN t.characteristics[j].count + 1
                                            ELSE t.characteristics[j].count
    BY <1>4, <1>7, <1>8 DEF cs
<1>10. QED
    BY <1>5, <1>6, <1>7, <1>9 DEF DescriptorAppended

\* A descriptor of the characteristic at the cursor.
LEMMA DescriptorStored ==
    ASSUME NEW d \in Databases, NEW t \in Tables, Fit(t), NEW c \in Nat, c < Len(t.characteristics),
           DescriptorsGrow(t, c), NEW q \in Seq(Events), q # <<>>, Carries(Head(q)),
           NEW e, e = Head(q), NEW p, DescriptorsPhase(d, t, c, q, p),
           NEW u, u = AddDescriptor(t, c + 1, e)
    PROVE  DescriptorsPhase(d, u, c, Tail(q), p)
<1> DEFINE cs == t.characteristics
           n == cs[c + 1].count
           f == cs[c + 1].first
<1>1. /\ e \in Events /\ Len(cs) \in Nat /\ \A j \in 1 .. Len(cs) : cs[j] \in Chrs
      /\ Len(t.descriptors) \in Nat
    BY TailOf, TableParts
<1>2. c + 1 \in 1 .. Len(cs) /\ cs[c + 1] \in Chrs
    BY <1>1
<1>3. n \in Nat /\ f \in Nat
    BY <1>2 DEF Chrs
<1>4. f + n = Len(t.descriptors)
    BY DEF DescriptorsGrow
<1>5. /\ u.services = t.services /\ Len(u.characteristics) = Len(cs)
      /\ \A j \in 1 .. Len(cs) :
            /\ u.characteristics[j].value = cs[j].value
            /\ u.characteristics[j].end = cs[j].end
            /\ u.characteristics[j].first = cs[j].first
            /\ u.characteristics[j].count = IF j = c + 1 THEN cs[j].count + 1 ELSE cs[j].count
      /\ \A k \in 1 .. Len(t.descriptors) : u.descriptors[k] = t.descriptors[k]
      /\ u.descriptors[Len(t.descriptors) + 1] = e.handle
  <2>1. DescriptorAppended(t, c + 1, e, u)
    BY <1>1, <1>2, DescriptorAdded
  <2>2. QED
    BY <2>1 DEF DescriptorAppended
<1>6. ServicesTrue(d, t) /\ CharacteristicsTrue(d, t) /\ DescriptorsTrue(d, t, c)
      /\ Follows(d, Descriptors(t, c + 1), DescriptorHandles(d, cs[c + 1]), q, p)
    BY DEF DescriptorsPhase
<1>7. ServicesTrue(d, u)
    BY <1>5, <1>6, ServicesAgree
<1>8. CharacteristicsTrue(d, u)
  <2>1. ASSUME NEW i \in 1 .. Len(u.services)
        PROVE  Lists(Declarations(u, i), DeclarationHandles(d, u.services[i]))
    <3>1. Declarations(u, i) = Declarations(t, i)
        BY <1>5, DeclarationsAgree
    <3>2. QED
        BY <1>5, <1>6, <3>1 DEF CharacteristicsTrue
  <2>2. ASSUME NEW j \in 1 .. Len(u.characteristics)
        PROVE  TrueValue(d, u.characteristics[j]) /\ TrueEnd(d, u.characteristics[j])
    <3>1. TrueValue(d, cs[j]) /\ TrueEnd(d, cs[j])
        BY <1>5, <1>6 DEF CharacteristicsTrue
    <3>2. u.characteristics[j].value = cs[j].value /\ u.characteristics[j].end = cs[j].end
        BY <1>5
    <3>3. QED
        BY <3>1, <3>2 DEF TrueValue, TrueEnd
  <2>3. QED
    BY <2>1, <2>2 DEF CharacteristicsTrue
<1>9. ASSUME NEW j \in 1 .. Len(cs)
      PROVE  DescriptorHandles(d, u.characteristics[j]) = DescriptorHandles(d, cs[j])
  <2>1. u.characteristics[j].value = cs[j].value /\ u.characteristics[j].end = cs[j].end
    BY <1>5
  <2>2. QED
    BY <2>1 DEF DescriptorHandles
<1>10. DescriptorsTrue(d, u, c)
  <2>1. ASSUME NEW j \in 1 .. c
        PROVE  Lists(Descriptors(u, j), DescriptorHandles(d, u.characteristics[j]))
    <3>1. j \in 1 .. Len(cs) /\ j # c + 1
        BY <1>1
    <3>2. Descriptors(u, j) = Descriptors(t, j)
        BY <1>5, <3>1, DescriptorsAgree
    <3>3. QED
        BY <1>6, <1>9, <3>1, <3>2 DEF DescriptorsTrue
  <2>2. QED
    BY <2>1 DEF DescriptorsTrue
<1>11. Follows(d, Descriptors(u, c + 1), DescriptorHandles(d, cs[c + 1]), Tail(q), p)
  <2>1. u.characteristics[c + 1].first = f /\ u.characteristics[c + 1].count = n + 1
    BY <1>2, <1>5
  <2> HIDE DEF n, f
  <2>2. Descriptors(t, c + 1) = [k \in 1 .. n |-> t.descriptors[f + k]]
    BY DEF Descriptors, n, f
  <2>3. Descriptors(u, c + 1) = [k \in 1 .. n + 1 |-> u.descriptors[f + k]]
    BY <2>1 DEF Descriptors
  <2>4. ASSUME NEW k \in 1 .. n PROVE u.descriptors[f + k] = t.descriptors[f + k]
    <3>1. f + k \in 1 .. Len(t.descriptors)
        BY <1>3, <1>4
    <3>2. QED
        BY <1>5, <3>1
  <2>5. u.descriptors[f + (n + 1)] = e.handle
    <3>1. f + (n + 1) = Len(t.descriptors) + 1
        BY <1>3, <1>4
    <3>2. QED
        BY <1>5, <3>1
  <2>6. /\ DOMAIN Descriptors(t, c + 1) = 1 .. n /\ DOMAIN Descriptors(u, c + 1) = 1 .. n + 1
        /\ \A k \in 1 .. n : Descriptors(u, c + 1)[k] = Descriptors(t, c + 1)[k]
        /\ Descriptors(u, c + 1)[n + 1] = Head(q).handle
    <3>1. n + 1 \in 1 .. n + 1 /\ \A k \in 1 .. n : k \in 1 .. n + 1
        BY <1>3
    <3>2. Descriptors(u, c + 1)[n + 1] = e.handle
        BY <2>3, <2>5, <3>1
    <3>3. \A k \in 1 .. n : Descriptors(u, c + 1)[k] = Descriptors(t, c + 1)[k]
        BY <2>2, <2>3, <2>4, <3>1
    <3>4. DOMAIN Descriptors(t, c + 1) = 1 .. n /\ DOMAIN Descriptors(u, c + 1) = 1 .. n + 1
        BY <2>2, <2>3
    <3>5. QED
        BY <3>2, <3>3, <3>4
  <2>7. QED
    BY <1>3, <1>6, <2>6, FollowsTaken
<1>12. QED
    BY <1>2, <1>7, <1>8, <1>9, <1>10, <1>11 DEF DescriptorsPhase

\* A characteristic ends before the next declaration of its service, at h, and the
\* last one where the service ends.
LEMMA Closes ==
    ASSUME NEW d \in Databases, NEW s, TrueService(d, s), NEW v \in Nat, v \in 2 .. Len(d),
           v - 1 \in DeclarationHandles(d, s), NEW c, c.value = v, c.end \in Int,
           \/ /\ c.end + 1 \in DeclarationHandles(d, s) /\ v - 1 < c.end + 1
              /\ \A x \in DeclarationHandles(d, s) : x < c.end + 1 => x <= v - 1
           \/ /\ c.end = s.end
              /\ \A x \in DeclarationHandles(d, s) : x <= v - 1
    PROVE  TrueEnd(d, c)
<1> DEFINE D == DeclarationHandles(d, s)
           w == c.end
<1>1. Len(d) \in Nat /\ \A h \in 1 .. Len(d) : d[h] \in Roles
    BY Device
<1>2. s.start \in 1 .. Len(d) /\ d[s.start] = "svc" /\ s.end = ServiceEnd(d, s.start)
    BY DEF TrueService
<1>3. /\ s.end \in s.start .. Len(d) /\ \A j \in s.start + 1 .. s.end : d[j] # "svc"
      /\ s.end < Len(d) => d[s.end + 1] = "svc"
    BY <1>2, ServiceSpans
<1>4. \A h : h \in D <=> h \in s.start .. s.end /\ d[h] = "chr"
    BY DEF DeclarationHandles
<1>5. v - 1 \in 1 .. Len(d) /\ v - 1 \in s.start .. s.end /\ d[v - 1] = "chr" /\ v - 1 # s.start
    BY <1>1, <1>2, <1>4
<1>6. v \in 1 .. Len(d) /\ d[v] = "val"
  <2>1. v - 1 + 1 \in 1 .. Len(d) /\ d[v - 1 + 1] = "val"
    BY <1>5, Declared
  <2>2. v - 1 + 1 = v
    OBVIOUS
  <2>3. QED
    BY <2>1, <2>2
<1> HIDE DEF D
<1>7. CASE w + 1 \in D /\ v - 1 < w + 1 /\ \A x \in D : x < w + 1 => x <= v - 1
  <2>1. w + 1 \in s.start .. s.end /\ d[w + 1] = "chr"
    BY <1>4, <1>7
  <2>2. w + 1 # v
    BY <1>6, <2>1
  <2>3. w \in v .. Len(d) /\ w < Len(d) /\ w < s.end
    BY <1>1, <1>2, <1>3, <1>7, <2>1, <2>2
  <2>4. ASSUME NEW h \in v + 1 .. w PROVE d[h] \notin {"svc", "chr"}
    <3>1. h \in s.start + 1 .. s.end /\ h < w + 1 /\ ~(h <= v - 1)
        BY <1>1, <1>2, <1>3, <1>5, <2>3
    <3>2. h \in s.start .. s.end
        BY <1>1, <1>2, <1>3, <3>1
    <3>3. d[h] # "chr"
        BY <1>4, <1>7, <3>1, <3>2
    <3>4. QED
        BY <1>3, <3>1, <3>3
  <2>5. QED
    BY <2>1, <2>3, <2>4 DEF TrueEnd
<1>8. CASE w = s.end /\ \A x \in D : x <= v - 1
  <2>1. s.end # v - 1
    <3>1. s.end = v - 1 => s.end < Len(d) /\ s.end + 1 = v
        BY <1>1, <1>6
    <3>2. QED
        BY <1>3, <1>6, <3>1
  <2>2. w \in v .. Len(d)
    BY <1>1, <1>2, <1>3, <1>5, <1>8, <2>1
  <2>3. ASSUME NEW h \in v + 1 .. w PROVE d[h] \notin {"svc", "chr"}
    <3>1. h \in s.start + 1 .. s.end /\ ~(h <= v - 1) /\ h \in s.start .. s.end
        BY <1>1, <1>2, <1>3, <1>5, <1>8, <2>2
    <3>2. d[h] # "chr"
        BY <1>4, <1>8, <3>1
    <3>3. QED
        BY <1>3, <3>1, <3>2
  <2>4. QED
    BY <1>3, <1>8, <2>2, <2>3 DEF TrueEnd
<1>9. QED
    BY <1>7, <1>8 DEF D

\* The last characteristic of the service at the cursor is the last of its list.
LEMMA LastDeclared ==
    ASSUME NEW t \in Tables, Fit(t), NEW n \in Nat, n < Len(t.services), CharacteristicsGrow(t, n),
           t.services[n + 1].count > 0, NEW s, s = Declarations(t, n + 1)
    PROVE  /\ t.characteristics # <<>> /\ Len(t.characteristics) \in 1 .. Len(t.characteristics)
           /\ t.services[n + 1].count \in DOMAIN s
           /\ s[t.services[n + 1].count] = t.characteristics[Len(t.characteristics)].value - 1
           /\ Increasing(s) => \A i \in DOMAIN s : s[i] <= s[t.services[n + 1].count]
<1> DEFINE c == t.services[n + 1].count
           f == t.services[n + 1].first
           cs == t.characteristics
<1>1. n + 1 \in 1 .. Len(t.services) /\ t.services[n + 1] \in Svcs /\ Len(cs) \in Nat
      /\ \A j \in 1 .. Len(cs) : cs[j] \in Chrs
    BY TableParts
<1>2. c \in Nat /\ f \in Nat
    BY <1>1 DEF Svcs
<1>3. f + c = Len(cs)
    BY DEF CharacteristicsGrow
<1>4. cs # <<>>
    BY <1>1, CountedExist
<1>5. s = [k \in 1 .. c |-> cs[f + k].value - 1]
    BY DEF Declarations
<1>6. c > 0
    OBVIOUS
<1> HIDE DEF c, f, cs
<1>7. c \in 1 .. c /\ Len(cs) \in 1 .. Len(cs)
    BY <1>1, <1>2, <1>3, <1>6
<1>8. s[c] = cs[Len(cs)].value - 1
    BY <1>3, <1>5, <1>7
<1>9. ASSUME Increasing(s), NEW i \in 1 .. c PROVE s[i] <= s[c]
  <2>1. CASE i = c
    <3>1. cs[Len(cs)].value \in Nat
        BY <1>1, <1>7 DEF Chrs
    <3>2. QED
        BY <1>8, <2>1, <3>1
  <2>2. CASE i # c
    <3>1. i < c /\ i \in DOMAIN s /\ c \in DOMAIN s
        BY <1>2, <1>5, <1>7, <2>2
    <3>2. s[i] < s[c]
        BY <1>9, <3>1 DEF Increasing
    <3>3. f + i \in 1 .. Len(cs)
        BY <1>2, <1>3
    <3>4. cs[f + i].value \in Nat /\ cs[Len(cs)].value \in Nat
        BY <1>1, <1>7, <3>3 DEF Chrs
    <3>5. s[i] = cs[f + i].value - 1
        BY <1>5
    <3>6. QED
        BY <1>8, <3>2, <3>4, <3>5
  <2>3. QED
    BY <2>1, <2>2
<1>10. QED
    BY <1>4, <1>5, <1>7, <1>8, <1>9 DEF c, cs

\* A characteristic of the service at the cursor.
LEMMA CharacteristicStored ==
    ASSUME NEW d \in Databases, NEW t \in Tables, Fit(t), NEW n \in Nat, n < Len(t.services),
           CharacteristicsGrow(t, n), NEW q \in Seq(Events), q # <<>>, Carries(Head(q)),
           NEW e, e = Head(q), e.type = "characteristics", e.handle2 = e.handle + 1,
           NEW p, p # NoProc => p \in Procs, CharacteristicsPhase(d, t, n, q, p),
           NEW u, u = AddCharacteristic(t, n + 1, e)
    PROVE  CharacteristicsPhase(d, u, n, Tail(q), p)
<1> DEFINE cs == t.characteristics
           m == Len(cs)
           sv == t.services[n + 1]
           c == sv.count
           f == sv.first
           D == DeclarationHandles(d, sv)
           ds == Declarations(t, n + 1)
<1>1. /\ e \in Events /\ m \in Nat /\ \A j \in 1 .. m : cs[j] \in Chrs
      /\ n + 1 \in 1 .. Len(t.services) /\ sv \in Svcs /\ Len(d) \in Nat
      /\ e.handle \in Nat
    BY TailOf, TableParts, Device DEF Events
<1>2. c \in Nat /\ f \in Nat
    BY <1>1 DEF Svcs
<1>3. f + c = m
    BY DEF CharacteristicsGrow
<1>4. c > 0 => /\ cs # <<>> /\ m \in 1 .. m /\ c \in DOMAIN ds /\ ds[c] = cs[m].value - 1
               /\ Increasing(ds) => \A i \in DOMAIN ds : ds[i] <= ds[c]
    BY LastDeclared
<1>5. /\ Len(u.services) = Len(t.services)
      /\ \A k \in 1 .. Len(t.services) :
            /\ u.services[k].start = t.services[k].start /\ u.services[k].end = t.services[k].end
            /\ u.services[k].first = t.services[k].first
            /\ u.services[k].count = IF k = n + 1 THEN t.services[k].count + 1 ELSE t.services[k].count
      /\ Len(u.characteristics) = m + 1
      /\ \A j \in 1 .. m :
            /\ u.characteristics[j].value = cs[j].value
            /\ u.characteristics[j].end = IF c > 0 /\ j = m THEN e.handle - 1 ELSE cs[j].end
      /\ u.characteristics[m + 1].value = e.handle2
  <2>1. n + 1 \in 1 .. Len(t.services) /\ e \in Events /\ (t.services[n + 1].count > 0 => t.characteristics # <<>>)
    BY <1>1, <1>4
  <2> DEFINE i == n + 1
  <2>2. /\ i \in 1 .. Len(t.services) /\ e \in Events /\ u = AddCharacteristic(t, i, e)
        /\ t.services[i].count > 0 => t.characteristics # <<>>
    BY <2>1
  <2> HIDE DEF i, ds, D, f, c, sv, m, cs
  <2>3. CharacteristicAppended(t, i, e, u)
    BY <2>2, CharacteristicAdded
  <2>4. QED
    BY <2>3 DEF CharacteristicAppended, i, c, sv, m, cs
<1>6. /\ ServicesTrue(d, t)
      /\ \A i \in 1 .. n : Lists(Declarations(t, i), DeclarationHandles(d, t.services[i]))
      /\ \A j \in 1 .. m : TrueValue(d, cs[j]) /\ (j < m \/ c = 0 => TrueEnd(d, cs[j]))
      /\ Follows(d, ds, D, q, p)
    BY DEF CharacteristicsPhase
<1>7. TrueService(d, sv)
    BY <1>1, <1>6 DEF ServicesTrue
<1>8. D \subseteq 1 .. Len(d) /\ D \in SUBSET Nat /\ \A h \in D : d[h] = "chr"
  <2>1. D \subseteq 1 .. Len(d)
    BY <1>7, HandlesInside
  <2>2. \A h \in D : d[h] = "chr"
    BY DEF DeclarationHandles
  <2> HIDE DEF D
  <2>3. QED
    BY <1>1, <2>1, <2>2
<1>9. Tracks(ds, q, D, Bound(d, p)) /\ Bound(d, p) \in Nat
    BY <1>1, <1>6 DEF Follows, Bound, Procs
<1>10. /\ e.handle \in D /\ \A i \in DOMAIN ds : ds[i] < e.handle
       /\ \A h \in D : h < e.handle => \E i \in DOMAIN ds : ds[i] = h
  <2> HIDE DEF D, ds
  <2>1. /\ Head(q).handle \in D /\ \A i \in DOMAIN ds : ds[i] < Head(q).handle
        /\ \A h \in D : h < Head(q).handle => \E i \in DOMAIN ds : ds[i] = h
    BY <1>8, <1>9, HeadIs
  <2>2. QED
    BY <2>1
<1>11. Increasing(ds) /\ \A i \in DOMAIN ds : ds[i] \in D
    BY <1>9 DEF Tracks
<1> HIDE DEF D, ds, c, f, m, cs
<1>12. ServicesTrue(d, u)
    BY <1>5, <1>6, ServicesAgree
<1>13. ASSUME NEW i \in 1 .. n
       PROVE  Lists(Declarations(u, i), DeclarationHandles(d, u.services[i]))
  <2>1. i \in 1 .. Len(t.services) /\ i # n + 1
    BY <1>1
  <2>2. Declarations(u, i) = Declarations(t, i)
    BY <1>5, <2>1, DeclarationsAgree DEF m, cs
  <2>3. DeclarationHandles(d, u.services[i]) = DeclarationHandles(d, t.services[i])
    BY <1>5, <2>1 DEF DeclarationHandles
  <2>4. QED
    BY <1>6, <2>2, <2>3
<1>14. ASSUME NEW j \in 1 .. m + 1 PROVE TrueValue(d, u.characteristics[j])
  <2>1. CASE j \in 1 .. m
    <3>1. TrueValue(d, cs[j]) /\ u.characteristics[j].value = cs[j].value
        BY <1>5, <1>6, <2>1
    <3>2. QED
        BY <3>1 DEF TrueValue
  <2>2. CASE j \notin 1 .. m
    <3>1. j = m + 1
        BY <1>1, <2>2
    <3>2. u.characteristics[j].value = e.handle + 1
        BY <1>5, <3>1
    <3>3. e.handle \in 1 .. Len(d) /\ d[e.handle] = "chr"
        BY <1>8, <1>10
    <3>4. e.handle + 1 \in 1 .. Len(d)
        BY <3>3, Declared
    <3> DEFINE x == u.characteristics[j].value
    <3>5. x \in 2 .. Len(d) /\ x - 1 = e.handle
        <4>1. x = e.handle + 1 /\ e.handle \in Nat /\ Len(d) \in Nat
            BY <1>1, <3>2
        <4> HIDE DEF x
        <4>2. QED
            BY <3>3, <3>4, <4>1
    <3>6. d[x - 1] = "chr"
        BY <3>3, <3>5
    <3>7. QED
        BY <3>5, <3>6 DEF TrueValue
  <2>3. QED
    BY <2>1, <2>2
<1>15. ASSUME NEW j \in 1 .. m PROVE TrueEnd(d, u.characteristics[j])
  <2>1. CASE c > 0 /\ j = m
    <3> DEFINE v == cs[m].value
               x == u.characteristics[m]
    <3>1. x.value = v /\ x.end = e.handle - 1 /\ v \in Nat /\ v \in 2 .. Len(d)
        BY <1>1, <1>5, <1>6, <2>1 DEF Chrs, TrueValue
    <3>2. v - 1 \in D /\ v - 1 < e.handle
        BY <1>4, <1>10, <1>11, <2>1
    <3> HIDE DEF x, v
    <3>3. ASSUME NEW h \in D, h < e.handle PROVE h <= v - 1
        BY <1>4, <1>10, <1>11, <2>1, <3>3 DEF v
    <3>4. x.end \in Int /\ x.end + 1 = e.handle
        BY <1>1, <3>1
    <3>5. /\ x.end + 1 \in D /\ v - 1 < x.end + 1
          /\ \A h \in D : h < x.end + 1 => h <= v - 1
        BY <1>10, <3>2, <3>3, <3>4
    <3>6. TrueEnd(d, x)
        BY <1>7, <3>1, <3>2, <3>4, <3>5, Closes, Zenon DEF D
    <3>7. QED
        BY <2>1, <3>6 DEF x
  <2>2. CASE ~(c > 0 /\ j = m)
    <3>1. j < m \/ c = 0
        BY <1>1, <1>2, <2>2
    <3>2. TrueEnd(d, cs[j])
        BY <1>6, <3>1
    <3>3. u.characteristics[j].value = cs[j].value /\ u.characteristics[j].end = cs[j].end
        BY <1>5, <2>2
    <3>4. QED
        BY <3>2, <3>3 DEF TrueEnd
  <2>3. QED
    BY <2>1, <2>2
<1>16. u.services[n + 1].count = c + 1 /\ u.services[n + 1].first = f
    BY <1>1, <1>5 DEF c, f
<1>17. ASSUME NEW j \in 1 .. Len(u.characteristics),
              j < Len(u.characteristics) \/ u.services[n + 1].count = 0
       PROVE  TrueEnd(d, u.characteristics[j])
  <2>1. j \in 1 .. m
    BY <1>1, <1>2, <1>5, <1>16, <1>17
  <2>2. QED
    BY <1>15, <2>1
<1>18. Follows(d, Declarations(u, n + 1), D, Tail(q), p)
  <2> DEFINE us == Declarations(u, n + 1)
  <2>1. ds = [k \in 1 .. c |-> cs[f + k].value - 1]
    BY DEF Declarations, ds, c, f, cs
  <2>2. us = [k \in 1 .. c + 1 |-> u.characteristics[f + k].value - 1]
    BY <1>16 DEF Declarations
  <2> HIDE DEF us
  <2>3. ASSUME NEW k \in 1 .. c PROVE us[k] = ds[k]
    <3>1. f + k \in 1 .. m /\ k \in 1 .. c + 1
        BY <1>2, <1>3
    <3>2. QED
        BY <1>5, <2>1, <2>2, <3>1
  <2>4. us[c + 1] = e.handle
    <3>1. f + (c + 1) = m + 1 /\ c + 1 \in 1 .. c + 1
        BY <1>2, <1>3
    <3>2. us[c + 1] = u.characteristics[m + 1].value - 1
        BY <2>2, <3>1
    <3>3. u.characteristics[m + 1].value = e.handle + 1
        BY <1>5
    <3>4. QED
        BY <1>1, <3>2, <3>3
  <2>5. DOMAIN ds = 1 .. c /\ DOMAIN us = 1 .. c + 1
    BY <2>1, <2>2
  <2>6. QED
    BY <1>2, <1>6, <2>3, <2>4, <2>5, FollowsTaken DEF us
<1>19. DeclarationHandles(d, u.services[n + 1]) = D
    BY <1>1, <1>5 DEF DeclarationHandles, D
<1>20. QED
    BY <1>5, <1>12, <1>13, <1>14, <1>17, <1>18, <1>19 DEF CharacteristicsPhase

-----------------------------------------------------------------------------
(* The next phase begins, with the events r waiting.                       *)

Continues(r) ==
    ~released' =>
        /\ proc' # NoProc => Phase(db, proc'.kind, table', svcIndex', chrIndex', r, proc')
        /\ outcome' = "complete" => Mirrors(db, table') /\ proc' = NoProc

\* A procedure that is started continues the table if its phase holds at its start.
LEMMA ExploreContinues ==
    ASSUME proc = NoProc, NEW t, NEW k, NEW first, NEW last, Explore(t, k, first, last),
           ~released => outcome # "complete", NEW r,
           Phase(db, k, t, svcIndex', chrIndex', r, [kind |-> k, next |-> first, last |-> last])
    PROVE  Continues(r)
<1> DEFINE p == [kind |-> k, next |-> first, last |-> last]
<1>1. CASE UNCHANGED proc /\ FinishDiscovery(t, "failed")
  <2>1. outcome' = "failed" /\ proc' = NoProc
    BY <1>1 DEF FinishDiscovery
  <2>2. QED
    BY <2>1 DEF Continues
<1>2. CASE proc' = p /\ table' = t /\ UNCHANGED <<outcome, released>>
  <2>1. p.kind = k /\ Phase(db, k, t, svcIndex', chrIndex', r, p)
    OBVIOUS
  <2> HIDE DEF p
  <2>2. QED
    BY <1>2, <2>1 DEF Continues
<1>3. QED
    BY <1>1, <1>2 DEF Explore

\* A characteristic without room for descriptors has none.
LEMMA NoRoom ==
    ASSUME NEW d, NEW t \in Tables, NEW j \in 1 .. Len(t.characteristics), t.characteristics[j].count = 0,
           ~(t.characteristics[j].end > t.characteristics[j].value)
    PROVE  Lists(Descriptors(t, j), DescriptorHandles(d, t.characteristics[j]))
<1> DEFINE c == t.characteristics[j]
<1>1. c \in Chrs
    BY TableParts
<1>2. c.value \in Nat /\ c.end \in Int
    BY <1>1 DEF Chrs
<1>3. DescriptorHandles(d, c) = {}
    BY <1>2 DEF DescriptorHandles
<1>4. DOMAIN Descriptors(t, j) = {}
    BY DEF Descriptors
<1>5. QED
    BY <1>3, <1>4 DEF Lists, Increasing

\* The host is asked for the descriptors of characteristic i.
LEMMA DescriptorsBegin ==
    ASSUME NEW d \in Databases, NEW t \in Tables, Fit(t), NEW i \in 1 .. Len(t.characteristics),
           t.characteristics[i].count = 0,
           ServicesTrue(d, t), CharacteristicsTrue(d, t), DescriptorsTrue(d, t, i - 1),
           NEW r, \A j \in 1 .. Len(r) : ~Carries(r[j]),
           NEW u, u = Opened(t, i), NEW p, p # NoProc,
           p = [kind |-> "descriptors", next |-> t.characteristics[i].value + 1,
                last |-> t.characteristics[i].end]
    PROVE  DescriptorsPhase(d, u, i - 1, r, p)
<1> DEFINE cs == t.characteristics
           x == [cs[i] EXCEPT !.first = Len(t.descriptors)]
           us == [cs EXCEPT ![i] = x]
           D == DescriptorHandles(d, cs[i])
<1>1. /\ cs \in Seq(Chrs) /\ cs[i] \in Chrs /\ Len(t.descriptors) \in Nat
      /\ Len(cs) \in Nat /\ i \in Nat /\ i - 1 + 1 = i /\ Len(d) \in Nat
    BY TableParts, Device
<1>2. x \in Chrs /\ x.value = cs[i].value /\ x.end = cs[i].end /\ x.count = cs[i].count
  <2> DEFINE y == cs[i]
  <2>1. y \in Chrs
    BY <1>1
  <2> HIDE DEF y
  <2>2. [y EXCEPT !.first = Len(t.descriptors)] \in Chrs
    BY <1>1, <2>1 DEF Chrs
  <2>3. /\ [y EXCEPT !.first = Len(t.descriptors)].value = y.value
        /\ [y EXCEPT !.first = Len(t.descriptors)].end = y.end
        /\ [y EXCEPT !.first = Len(t.descriptors)].count = y.count
    BY <2>1 DEF Chrs
  <2>4. QED
    BY <2>2, <2>3 DEF y
<1>3. u = [t EXCEPT !.characteristics = us]
    BY DEF Opened
<1> HIDE DEF x
<1>4. us \in Seq(Chrs) /\ Len(us) = Len(cs) /\ \A j \in 1 .. Len(cs) : us[j] = IF j = i THEN x ELSE cs[j]
    BY <1>1, <1>2, ExceptSeq
<1> HIDE DEF us
<1>5. u.services = t.services /\ u.characteristics = us /\ u.descriptors = t.descriptors
    BY <1>3 DEF Tables
<1> HIDE DEF cs
<1>6. \A j \in 1 .. Len(cs) : us[j].value = cs[j].value /\ us[j].end = cs[j].end
    BY <1>2, <1>4
<1>7. ServicesTrue(d, u)
    BY <1>5, ServicesAgree
<1>8. ASSUME NEW k \in 1 .. Len(u.services)
      PROVE  Lists(Declarations(u, k), DeclarationHandles(d, u.services[k]))
  <2>1. Declarations(u, k) = Declarations(t, k)
    BY <1>5, <1>6, DeclarationsAgree DEF cs
  <2>2. QED
    BY <1>5, <2>1 DEF CharacteristicsTrue
<1>9. ASSUME NEW j \in 1 .. Len(u.characteristics)
      PROVE  TrueValue(d, u.characteristics[j]) /\ TrueEnd(d, u.characteristics[j])
  <2>1. TrueValue(d, cs[j]) /\ TrueEnd(d, cs[j])
    BY <1>4, <1>5 DEF CharacteristicsTrue, cs
  <2>2. u.characteristics[j].value = cs[j].value /\ u.characteristics[j].end = cs[j].end
    BY <1>4, <1>5, <1>6
  <2>3. QED
    BY <2>1, <2>2 DEF TrueValue, TrueEnd
<1>10. ASSUME NEW j \in 1 .. i - 1
       PROVE  Lists(Descriptors(u, j), DescriptorHandles(d, u.characteristics[j]))
  <2>1. j \in 1 .. Len(cs) /\ j # i
    BY <1>1 DEF cs
  <2>2. u.characteristics[j] = t.characteristics[j]
    BY <1>4, <1>5, <2>1 DEF cs
  <2>3. Descriptors(u, j) = Descriptors(t, j)
    BY <1>5, <2>2 DEF Descriptors
  <2>4. QED
    BY <2>2, <2>3 DEF DescriptorsTrue
<1>11. u.characteristics[i].value = cs[i].value /\ u.characteristics[i].end = cs[i].end
       /\ u.characteristics[i].count = 0
    BY <1>1, <1>2, <1>4, <1>5 DEF cs
<1>12. DescriptorHandles(d, u.characteristics[i]) = D
    BY <1>11 DEF DescriptorHandles, D
<1>13. DOMAIN Descriptors(u, i) = {}
    BY <1>11 DEF Descriptors
<1>14. /\ cs[i].value \in Nat /\ cs[i].end \in Int /\ cs[i].end <= Len(d)
       /\ p.next = cs[i].value + 1 /\ p.last = cs[i].end /\ p.kind = "descriptors"
  <2>1. TrueEnd(d, cs[i]) /\ cs[i] \in Chrs
    BY <1>1 DEF CharacteristicsTrue, cs
  <2>2. cs[i].value \in Nat /\ cs[i].end \in Int
    BY <2>1 DEF Chrs
  <2>3. cs[i].end <= Len(d)
    BY <1>1, <2>1, <2>2 DEF TrueEnd
  <2>4. QED
    BY <2>2, <2>3 DEF cs
<1>15. \A h \in D : h >= cs[i].value + 1 /\ ~(h < cs[i].value + 1)
    BY <1>14 DEF D, DescriptorHandles
<1>16. LeftOf(d, p) = {h \in D : h >= p.next}
  <2>1. LeftOf(d, p) = D
    BY <1>1, <1>14 DEF LeftOf, D, DescriptorHandles
  <2>2. QED
    BY <1>14, <1>15, <2>1
<1>17. Tracks(Descriptors(u, i), r, D, p.next)
    BY <1>13, <1>14, <1>15, Unreported
<1>18. Follows(d, Descriptors(u, i), D, r, p)
    BY <1>16, <1>17 DEF Follows, Bound
<1>19. CharacteristicsTrue(d, u) /\ DescriptorsTrue(d, u, i - 1)
    BY <1>8, <1>9, <1>10 DEF CharacteristicsTrue, DescriptorsTrue
<1>20. QED
    BY <1>1, <1>7, <1>12, <1>18, <1>19 DEF DescriptorsPhase

\* start_next_chr_dsc_discovery_(): the next phase, or the table is the device's.
LEMMA DescriptorsContinue ==
    ASSUME proc = NoProc, db \in Databases, ~released => outcome # "complete",
           NEW t \in Tables, Fit(t), NEW c \in Nat, Bare(t.characteristics, c),
           ServicesTrue(db, t), CharacteristicsTrue(db, t), DescriptorsTrue(db, t, c),
           NEW r, \A j \in 1 .. Len(r) : ~Carries(r[j]),
           StartNextDescriptors(t, c)
    PROVE  Continues(r)
<1> DEFINE chrs == t.characteristics
           open == {i \in c + 1 .. Len(chrs) : chrs[i].end > chrs[i].value}
           i == Min(open)
<1>1. Len(chrs) \in Nat /\ \A j \in 1 .. Len(chrs) : chrs[j] \in Chrs
    BY TableParts
<1>2. ASSUME NEW j \in 1 .. Len(chrs), j \notin open
      PROVE  Lists(Descriptors(t, j), DescriptorHandles(db, chrs[j]))
  <2>1. CASE j <= c
    BY <1>1, <2>1 DEF DescriptorsTrue
  <2>2. CASE ~(j <= c)
    <3>1. j \in c + 1 .. Len(chrs) /\ j > c
        BY <1>1, <2>2
    <3>2. chrs[j].count = 0 /\ ~(chrs[j].end > chrs[j].value)
        BY <1>2, <3>1 DEF Bare
    <3>3. QED
        BY <3>2, NoRoom
  <2>3. QED
    BY <2>1, <2>2
<1>3. CASE open = {}
  <2>1. UNCHANGED proc /\ FinishDiscovery(t, "complete")
    BY <1>3 DEF StartNextDescriptors
  <2>2. table' = t /\ proc' = NoProc
    BY <2>1 DEF FinishDiscovery
  <2>3. DescriptorsTrue(db, t, Len(chrs))
    BY <1>2, <1>3 DEF DescriptorsTrue
  <2>4. QED
    BY <2>2, <2>3 DEF Continues, Mirrors
<1>4. CASE open # {}
  <2>1. open \in SUBSET Nat
    BY <1>1
  <2>2. i \in open /\ \A j \in open : i <= j
    <3> HIDE DEF open
    <3>1. QED
        BY <1>4, <2>1, LeastNat
  <2>3. /\ chrIndex' = i - 1
        /\ Explore(Opened(t, i), "descriptors", chrs[i].value + 1, chrs[i].end)
    BY <1>4 DEF StartNextDescriptors, Opened
  <2>4. i \in c + 1 .. Len(chrs) /\ chrs[i].end > chrs[i].value
    BY <2>2
  <2>5. \A j \in 1 .. i - 1 : j \in Nat => j \notin open
    <3>1. ASSUME NEW j \in 1 .. i - 1, j \in open PROVE FALSE
        <4>1. i <= j
            BY <2>2, <3>1
        <4> HIDE DEF i, open
        <4>2. QED
            BY <1>1, <2>4, <4>1
    <3>2. QED
        BY <3>1
  <2> HIDE DEF i, open
  <2>6. i \in 1 .. Len(chrs) /\ i > c /\ i \in Nat
    BY <1>1, <2>4
  <2>7. chrs[i].count = 0
    BY <2>6 DEF Bare
  <2>8. DescriptorsTrue(db, t, i - 1)
    <3>1. ASSUME NEW j \in 1 .. i - 1 PROVE Lists(Descriptors(t, j), DescriptorHandles(db, chrs[j]))
        <4>1. j \in 1 .. Len(chrs) /\ j \in Nat
            BY <1>1, <2>6
        <4>2. QED
            BY <1>2, <2>5, <4>1
    <3>2. QED
        BY <3>1 DEF DescriptorsTrue
  <2> DEFINE p == [kind |-> "descriptors", next |-> chrs[i].value + 1, last |-> chrs[i].end]
             u == Opened(t, i)
  <2>9. p # NoProc
    <3>1. chrs[i].value \in Nat /\ chrs[i].end \in Int
        BY <1>1, <2>6 DEF Chrs
    <3>2. QED
        BY <3>1, NoProcAssumption
  <2>10. DescriptorsPhase(db, u, i - 1, r, p)
    BY <2>6, <2>7, <2>8, <2>9, DescriptorsBegin
  <2> HIDE DEF u
  <2>11. Phase(db, "descriptors", u, svcIndex', chrIndex', r, p)
    BY <2>3, <2>10 DEF Phase
  <2>12. Explore(u, "descriptors", chrs[i].value + 1, chrs[i].end)
    BY <2>3 DEF u
  <2>13. QED
    BY <2>11, <2>12, ExploreContinues
<1>5. QED
    BY <1>3, <1>4

\* The host is asked for the characteristics of service s + 1.
LEMMA CharacteristicsBegin ==
    ASSUME NEW d \in Databases, NEW t \in Tables, Fit(t), NEW s \in Nat, s < Len(t.services),
           t.services[s + 1].count = 0, ServicesTrue(d, t),
           \A i \in 1 .. s : Lists(Declarations(t, i), DeclarationHandles(d, t.services[i])),
           \A j \in 1 .. Len(t.characteristics) :
              TrueValue(d, t.characteristics[j]) /\ TrueEnd(d, t.characteristics[j]),
           NEW r, \A j \in 1 .. Len(r) : ~Carries(r[j]),
           NEW u, u = [t EXCEPT !.services[s + 1].first = Len(t.characteristics)],
           NEW p, p # NoProc,
           p = [kind |-> "characteristics", next |-> t.services[s + 1].start, last |-> t.services[s + 1].end]
    PROVE  CharacteristicsPhase(d, u, s, r, p)
<1> DEFINE ss == t.services
           x == [ss[s + 1] EXCEPT !.first = Len(t.characteristics)]
           us == [ss EXCEPT ![s + 1] = x]
           D == DeclarationHandles(d, ss[s + 1])
<1>1. /\ ss \in Seq(Svcs) /\ Len(t.characteristics) \in Nat /\ Len(ss) \in Nat /\ Len(d) \in Nat
      /\ s + 1 \in 1 .. Len(ss) /\ ss[s + 1] \in Svcs
    BY TableParts, Device
<1>2. x \in Svcs /\ x.start = ss[s + 1].start /\ x.end = ss[s + 1].end /\ x.count = ss[s + 1].count
  <2> DEFINE y == ss[s + 1]
  <2>1. y \in Svcs
    BY <1>1
  <2> HIDE DEF y
  <2>2. [y EXCEPT !.first = Len(t.characteristics)] \in Svcs
    BY <1>1, <2>1 DEF Svcs
  <2>3. /\ [y EXCEPT !.first = Len(t.characteristics)].start = y.start
        /\ [y EXCEPT !.first = Len(t.characteristics)].end = y.end
        /\ [y EXCEPT !.first = Len(t.characteristics)].count = y.count
    BY <2>1 DEF Svcs
  <2>4. QED
    BY <2>2, <2>3 DEF y
<1>3. u = [t EXCEPT !.services = us]
    OBVIOUS
<1> HIDE DEF x
<1>4. us \in Seq(Svcs) /\ Len(us) = Len(ss) /\ \A j \in 1 .. Len(ss) : us[j] = IF j = s + 1 THEN x ELSE ss[j]
    BY <1>1, <1>2, ExceptSeq
<1> HIDE DEF us
<1>5. u.services = us /\ u.characteristics = t.characteristics
    BY <1>3 DEF Tables
<1> HIDE DEF ss
<1>6. \A i \in 1 .. Len(ss) : us[i].start = ss[i].start /\ us[i].end = ss[i].end
    BY <1>2, <1>4
<1>7. ServicesTrue(d, u)
    BY <1>4, <1>5, <1>6, ServicesAgree DEF ss
<1>8. ASSUME NEW i \in 1 .. s
      PROVE  Lists(Declarations(u, i), DeclarationHandles(d, u.services[i]))
  <2>1. i \in 1 .. Len(ss) /\ i # s + 1
    BY <1>1 DEF ss
  <2>2. u.services[i] = t.services[i]
    BY <1>4, <1>5, <2>1 DEF ss
  <2>3. Declarations(u, i) = Declarations(t, i)
    BY <1>5, <2>2 DEF Declarations
  <2>4. QED
    BY <2>2, <2>3
<1>9. /\ u.services[s + 1].start = ss[s + 1].start /\ u.services[s + 1].end = ss[s + 1].end
      /\ u.services[s + 1].count = 0
    BY <1>1, <1>2, <1>4, <1>5 DEF ss
<1>10. DeclarationHandles(d, u.services[s + 1]) = D
    BY <1>9 DEF DeclarationHandles, D
<1>11. DOMAIN Declarations(u, s + 1) = {}
    BY <1>9 DEF Declarations
<1>12. /\ ss[s + 1].start \in Nat /\ ss[s + 1].end \in Int /\ ss[s + 1].end <= Len(d)
       /\ p.next = ss[s + 1].start /\ p.last = ss[s + 1].end /\ p.kind = "characteristics"
  <2>1. TrueService(d, ss[s + 1]) /\ ss[s + 1] \in Svcs
    BY <1>1 DEF ServicesTrue, ss
  <2>2. ss[s + 1].start \in 1 .. Len(d) /\ ss[s + 1].end \in ss[s + 1].start .. Len(d)
    BY <2>1, ServiceSpans DEF TrueService
  <2>3. p.next = ss[s + 1].start /\ p.last = ss[s + 1].end /\ p.kind = "characteristics"
    BY DEF ss
  <2>4. QED
    BY <1>1, <2>2, <2>3
<1>13. \A h \in D : h >= ss[s + 1].start /\ ~(h < ss[s + 1].start)
    BY <1>12 DEF D, DeclarationHandles
<1>14. LeftOf(d, p) = {h \in D : h >= p.next}
  <2>1. LeftOf(d, p) = D
    BY <1>1, <1>12 DEF LeftOf, D, DeclarationHandles
  <2>2. QED
    BY <1>12, <1>13, <2>1
<1>15. Tracks(Declarations(u, s + 1), r, D, p.next)
    BY <1>11, <1>12, <1>13, Unreported
<1>16. Follows(d, Declarations(u, s + 1), D, r, p)
    BY <1>14, <1>15 DEF Follows, Bound
<1>17. QED
    BY <1>5, <1>7, <1>8, <1>10, <1>16 DEF CharacteristicsPhase

\* start_next_service_chr_discovery_().
LEMMA CharacteristicsContinue ==
    ASSUME proc = NoProc, db \in Databases, ~released => outcome # "complete",
           NEW t \in Tables, Fit(t), NEW s \in Nat, Bare(t.services, s), Bare(t.characteristics, 0),
           s <= Len(t.services), ServicesTrue(db, t),
           \A i \in 1 .. s : Lists(Declarations(t, i), DeclarationHandles(db, t.services[i])),
           \A j \in 1 .. Len(t.characteristics) :
              TrueValue(db, t.characteristics[j]) /\ TrueEnd(db, t.characteristics[j]),
           NEW r, \A j \in 1 .. Len(r) : ~Carries(r[j]),
           StartNextCharacteristics(t, s)
    PROVE  Continues(r)
<1>1. Len(t.services) \in Nat /\ \A i \in 1 .. Len(t.services) : t.services[i] \in Svcs
    BY TableParts
<1>2. CASE s >= Len(t.services) /\ StartNextDescriptors(t, 0)
  <2>1. s = Len(t.services)
    BY <1>1, <1>2
  <2>2. CharacteristicsTrue(db, t)
    BY <2>1 DEF CharacteristicsTrue
  <2>3. DescriptorsTrue(db, t, 0)
    BY DEF DescriptorsTrue
  <2>4. QED
    BY <1>2, <2>2, <2>3, DescriptorsContinue
<1>3. CASE ~(s >= Len(t.services) /\ StartNextDescriptors(t, 0))
  <2> DEFINE u == [t EXCEPT !.services[s + 1].first = Len(t.characteristics)]
             x == t.services[s + 1]
             p == [kind |-> "characteristics", next |-> x.start, last |-> x.end]
  <2>1. s < Len(t.services) /\ Explore(u, "characteristics", x.start, x.end) /\ svcIndex' = s
    BY <1>3 DEF StartNextCharacteristics
  <2>2. s + 1 \in 1 .. Len(t.services) /\ s + 1 > s /\ x \in Svcs
    BY <1>1, <2>1
  <2>3. x.count = 0
    BY <2>2 DEF Bare
  <2>4. p # NoProc
    <3>1. x.start \in Nat /\ x.end \in Int
        BY <2>2 DEF Svcs
    <3>2. QED
        BY <3>1, NoProcAssumption
  <2>5. CharacteristicsPhase(db, u, s, r, p)
    BY <2>1, <2>3, <2>4, CharacteristicsBegin
  <2> HIDE DEF u
  <2>6. Phase(db, "characteristics", u, svcIndex', chrIndex', r, p)
    BY <2>1, <2>5 DEF Phase
  <2>7. QED
    BY <2>1, <2>6, ExploreContinues
<1>4. QED
    BY <1>2, <1>3

\* The characteristics of the service at the cursor are all there, and the last one
\* learns its end.
LEMMA ServiceClosed ==
    ASSUME NEW d \in Databases, NEW t \in Tables, Fit(t), NEW n \in Nat, n < Len(t.services),
           CharacteristicsGrow(t, n), NEW q, \A i \in 1 .. Len(q) : ~Carries(q[i]),
           CharacteristicsPhase(d, t, n, q, NoProc), NEW u, u = EndService(t, n + 1)
    PROVE  /\ ServicesTrue(d, u)
           /\ \A i \in 1 .. n + 1 : Lists(Declarations(u, i), DeclarationHandles(d, u.services[i]))
           /\ \A j \in 1 .. Len(u.characteristics) :
                 TrueValue(d, u.characteristics[j]) /\ TrueEnd(d, u.characteristics[j])
<1> DEFINE cs == t.characteristics
           m == Len(cs)
           sv == t.services[n + 1]
           c == sv.count
           D == DeclarationHandles(d, sv)
           ds == Declarations(t, n + 1)
<1>1. /\ m \in Nat /\ \A j \in 1 .. m : cs[j] \in Chrs
      /\ n + 1 \in 1 .. Len(t.services) /\ sv \in Svcs /\ Len(d) \in Nat /\ Len(t.services) \in Nat
    BY TableParts, Device
<1>2. c \in Nat /\ sv.end \in Int
    BY <1>1 DEF Svcs
<1>3. c > 0 => /\ cs # <<>> /\ m \in 1 .. m /\ c \in DOMAIN ds /\ ds[c] = cs[m].value - 1
               /\ Increasing(ds) => \A i \in DOMAIN ds : ds[i] <= ds[c]
    BY LastDeclared
<1>4. /\ ServicesTrue(d, t)
      /\ \A i \in 1 .. n : Lists(Declarations(t, i), DeclarationHandles(d, t.services[i]))
      /\ \A j \in 1 .. m : TrueValue(d, cs[j]) /\ (j < m \/ c = 0 => TrueEnd(d, cs[j]))
      /\ Tracks(ds, q, D, Len(d) + 1)
    BY DEF CharacteristicsPhase, Follows, Bound
<1>5. TrueService(d, sv)
    BY <1>1, <1>4 DEF ServicesTrue
<1>6. D \subseteq 1 .. Len(d)
    BY <1>5, HandlesInside
<1> HIDE DEF D, ds
<1>7. Lists(ds, D)
  <2>1. \A h \in D : h < Len(d) + 1
    BY <1>1, <1>6
  <2>2. QED
    BY <1>4, <2>1, Listed
<1>8. \A i \in 1 .. n + 1 : Lists(Declarations(t, i), DeclarationHandles(d, t.services[i]))
  <2>1. ASSUME NEW i \in 1 .. n + 1 PROVE Lists(Declarations(t, i), DeclarationHandles(d, t.services[i]))
    <3>1. CASE i = n + 1
        BY <1>7, <3>1 DEF D, ds
    <3>2. CASE i # n + 1
        BY <1>4, <3>2
    <3>3. QED
        BY <3>1, <3>2
  <2>2. QED
    BY <2>1
<1>9. CASE ~(c > 0)
  <2>1. u = t
    BY <1>9 DEF EndService
  <2>2. c = 0
    BY <1>2, <1>9
  <2>3. QED
    BY <1>4, <1>8, <2>1, <2>2
<1>10. CASE c > 0
  <2>1. u = EndLast(t, sv.end) /\ t.characteristics # <<>>
    BY <1>3, <1>10 DEF EndService
  <2>2. u.services = t.services /\ Len(u.characteristics) = m
    BY <1>2, <2>1, EndsLast
  <2>3. \A j \in 1 .. m : /\ u.characteristics[j].value = cs[j].value
                          /\ u.characteristics[j].end = IF j = m THEN sv.end ELSE cs[j].end
    BY <1>2, <2>1, LastEnded
  <2> HIDE DEF c, m, cs
  <2>4. ServicesTrue(d, u)
    BY <1>4, <2>2, ServicesAgree
  <2>5. ASSUME NEW i \in 1 .. n + 1
        PROVE  Lists(Declarations(u, i), DeclarationHandles(d, u.services[i]))
    <3>1. i \in 1 .. Len(t.services)
        BY <1>1
    <3>2. Declarations(u, i) = Declarations(t, i)
        BY <2>2, <2>3, <3>1, DeclarationsAgree DEF m, cs
    <3>3. QED
        BY <1>8, <2>2, <3>2
  <2>6. ASSUME NEW j \in 1 .. m
        PROVE  TrueValue(d, u.characteristics[j]) /\ TrueEnd(d, u.characteristics[j])
    <3>1. TrueValue(d, cs[j]) /\ u.characteristics[j].value = cs[j].value
        BY <1>4, <2>3
    <3>2. TrueValue(d, u.characteristics[j])
        BY <3>1 DEF TrueValue
    <3>3. CASE j = m
        <4> DEFINE v == cs[m].value
                   x == u.characteristics[m]
        <4>1. x.value = v /\ x.end = sv.end /\ v \in Nat /\ v \in 2 .. Len(d)
            BY <1>1, <2>3, <3>1, <3>3 DEF Chrs, TrueValue
        <4>2. v - 1 \in D /\ \A h \in D : h <= v - 1
            BY <1>3, <1>7, <1>10 DEF Lists
        <4> HIDE DEF x, v
        <4>3. TrueEnd(d, x)
            BY <1>2, <1>5, <4>1, <4>2, Closes, Zenon DEF D
        <4>4. QED
            BY <3>2, <3>3, <4>3 DEF x
    <3>4. CASE j # m
        <4>1. j < m /\ u.characteristics[j].end = cs[j].end
            BY <1>1, <2>3, <3>4
        <4>2. TrueEnd(d, cs[j])
            BY <1>4, <4>1
        <4>3. QED
            BY <3>1, <3>2, <4>1, <4>2 DEF TrueEnd
    <3>5. QED
        BY <3>3, <3>4
  <2>7. QED
    BY <2>2, <2>4, <2>5, <2>6
<1>11. QED
    BY <1>9, <1>10

-----------------------------------------------------------------------------
(* The table mirrors the device.                                           *)

\* The events that remain tell the truth.
LEMMA TailTrue ==
    ASSUME NEW d, NEW q \in Seq(Events), q # <<>>, TrueEvents(d, q)
    PROVE  TrueEvents(d, Tail(q))
<1>1. \A i \in 1 .. Len(Tail(q)) : i + 1 \in 1 .. Len(q) /\ Tail(q)[i] = q[i + 1]
    BY TailOf
<1>2. QED
    BY <1>1 DEF TrueEvents

\* When a procedure's end is next, nothing found waits.
LEMMA NothingWaits ==
    ASSUME NEW q \in Seq(Events), q # <<>>, NEW l, NEW p, Ordered(q, l, p),
           Head(q).type # "disconnect", Head(q).handle = NoAttribute
    PROVE  /\ \A i \in 1 .. Len(q) : ~Carries(q[i])
           /\ \A i \in 1 .. Len(Tail(q)) : ~Carries(Tail(q)[i])
<1>1. /\ Len(q) \in Nat /\ Head(q) = q[1] /\ 1 \in 1 .. Len(q)
      /\ \A i \in 1 .. Len(Tail(q)) : i + 1 \in 1 .. Len(q) /\ Tail(q)[i] = q[i + 1]
    BY TailOf
<1>2. \A j \in 1 .. Len(q) : 1 < j => q[j].type = "disconnect"
    BY <1>1 DEF Ordered
<1>3. ASSUME NEW i \in 1 .. Len(q) PROVE ~Carries(q[i])
  <2>1. CASE i = 1
    BY <1>1, <2>1 DEF Carries
  <2>2. CASE i # 1
    <3>1. 1 < i
        BY <1>1, <2>2
    <3>2. QED
        BY <1>2, <3>1 DEF Carries
  <2>3. QED
    BY <2>1, <2>2
<1>4. QED
    BY <1>1, <1>3

\* The first phase begins with nothing in the table and everything left.
LEMMA ServicesBegin ==
    ASSUME NEW d \in Databases, NEW q, Len(q) = 0,
           NEW p, p # NoProc, p = [kind |-> "services", next |-> 1, last |-> MaxHandle]
    PROVE  ServicesPhase(d, EmptyTable, q, p)
<1>1. Len(d) \in Nat /\ Len(d) <= MaxHandle /\ MaxHandle \in Nat
    BY Device, MaxHandleAssumption
<1>2. Len(EmptyTable.services) = 0 /\ Len(EmptyTable.characteristics) = 0
    BY Nothing
<1>3. DOMAIN Starts(EmptyTable) = {}
    BY <1>2 DEF Starts
<1>4. \A h \in ServiceHandles(d) : h >= 1 /\ ~(h < 1)
    BY <1>1 DEF ServiceHandles
<1>5. p.next = 1 /\ p.last = MaxHandle /\ p.kind = "services"
    OBVIOUS
<1>6. \A i \in 1 .. Len(q) : ~Carries(q[i])
    OBVIOUS
<1>7. Tracks(Starts(EmptyTable), q, ServiceHandles(d), p.next)
    BY <1>3, <1>4, <1>5, <1>6, Unreported
<1>8. LeftOf(d, p) = ServiceHandles(d)
    BY <1>1, <1>5 DEF LeftOf, ServiceHandles
<1>9. LeftOf(d, p) = {h \in ServiceHandles(d) : h >= p.next}
    BY <1>4, <1>5, <1>8
<1>10. Follows(d, Starts(EmptyTable), ServiceHandles(d), q, p)
    BY <1>7, <1>9 DEF Follows, Bound
<1>11. QED
    BY <1>2, <1>10 DEF ServicesPhase

\* A device without attributes is a device.
LEMMA NoDevice == <<>> \in Databases
<1>1. 0 \in 0 .. MaxHandle
    BY MaxHandleAssumption
<1>2. <<>> \in [1 .. 0 -> Roles]
    OBVIOUS
<1>3. WellFormed(<<>>)
    BY DEF WellFormed
<1>4. QED
    BY <1>1, <1>2, <1>3 DEF Databases

\* The table mirrors the device at first.
LEMMA MirrorBegins ==
    ASSUME Init
    PROVE  MirrorInv
<1>1. db = <<>> /\ queue = <<>> /\ Len(queue) = 0 /\ proc = NoProc /\ outcome = "none"
    BY DEF Init
<1>2. QED
    BY <1>1, NoDevice DEF MirrorInv, TrueEvents, Busy

\* What was found is stored.
LEMMA MirrorStays ==
    ASSUME DiscoveryInv, MirrorInv, queue # <<>>, queue' = Tail(queue), UNCHANGED <<db, whole>>,
           Head(queue).type \in Kinds, NEW t, Stores(t),
           whole /\ ~released =>
              Phase(db, Head(queue).type, t, svcIndex, chrIndex, Tail(queue), proc)
    PROVE  MirrorInv'
<1> DEFINE m == Head(queue).type
<1>1. queue \in Seq(Events) /\ Ordered(queue, linked, proc) /\ Head(queue) = queue[1] /\ 1 \in 1 .. Len(queue)
    BY TailOf DEF DiscoveryInv, TypeInv, QueueInv
<1>2. table' = t /\ UNCHANGED <<proc, svcIndex, chrIndex, outcome, released>>
    BY DEF Stores
<1>3. Busy(queue, proc, m)
    BY <1>1 DEF Busy
<1>4. ASSUME NEW k \in Kinds, Busy(Tail(queue), proc, k) PROVE k = m
  <2>1. Busy(queue, proc, k)
    BY <1>1, <1>4, Leaves
  <2>2. QED
    BY <1>1, <1>3, <2>1, OnePhase
<1>5. TrueEvents(db, Tail(queue)) /\ db \in Databases
    BY <1>1, TailTrue DEF MirrorInv
<1>6. whole /\ ~released => outcome # "complete"
    BY <1>3 DEF MirrorInv
<1>7. QED
    BY <1>2, <1>4, <1>5, <1>6 DEF MirrorInv

\* A procedure's end begins the next phase.
LEMMA MirrorPasses ==
    ASSUME DiscoveryInv, DiscoveryInv', MirrorInv, queue # <<>>, queue' = Tail(queue),
           UNCHANGED <<linked, db, whole>>, Head(queue).type \in Kinds, Head(queue).handle = NoAttribute,
           released => released', whole /\ ~released => Continues(Tail(queue))
    PROVE  MirrorInv'
<1>1. queue \in Seq(Events) /\ Ordered(queue, linked, proc) /\ linked \in BOOLEAN
      /\ Head(queue).type # "disconnect"
    BY DEF DiscoveryInv, TypeInv, QueueInv, Kinds
<1>2. proc' # NoProc => linked
    BY DEF DiscoveryInv, QueueInv, Ordered
<1>3. \A k \in Kinds : Busy(Tail(queue), proc', k) => proc' # NoProc /\ proc'.kind = k
    BY <1>1, <1>2, PhaseEnds
<1>4. TrueEvents(db, Tail(queue)) /\ db \in Databases
    BY <1>1, TailTrue DEF MirrorInv
<1>5. ASSUME whole, ~released'
      PROVE  /\ \A k \in Kinds : Busy(Tail(queue), proc', k) =>
                   Phase(db, k, table', svcIndex', chrIndex', Tail(queue), proc')
             /\ outcome' = "complete" => Mirrors(db, table') /\ \A k \in Kinds : ~Busy(Tail(queue), proc', k)
    BY <1>3, <1>5 DEF Continues
<1>6. QED
    BY <1>4, <1>5 DEF MirrorInv

\* A released table stays released.
LEMMA FinishKeeps ==
    ASSUME NEW t, NEW result, FinishDiscovery(t, result)
    PROVE  released => released'
BY DEF FinishDiscovery

\* Also when the next procedure is started.
LEMMA StartKeeps ==
    ASSUME NEW t, NEW n, StartNextDescriptors(t, n) \/ StartNextCharacteristics(t, n)
    PROVE  released => released'
BY FinishKeeps DEF StartNextDescriptors, StartNextCharacteristics, Explore

\* The table stays the device's as far as it goes when an event is handled,
LEMMA MirrorHandle ==
    ASSUME DiscoveryInv, DiscoveryInv', MirrorInv, HandleEvent
    PROVE  MirrorInv'
<1> DEFINE e == Head(queue)
           r == Tail(queue)
<1>1. queue # <<>> /\ AtEntry(e) /\ queue' = r /\ UNCHANGED linked
    BY DEF HandleEvent
<1>2. /\ queue \in Seq(Events) /\ e \in Events /\ e = queue[1] /\ 1 \in 1 .. Len(queue)
      /\ table \in Tables /\ Fit(table) /\ svcIndex \in Nat /\ chrIndex \in Nat
      /\ Ordered(queue, linked, proc) /\ linked \in BOOLEAN
      /\ proc # NoProc => proc \in Procs
      /\ db \in Databases /\ TrueEvents(db, queue)
    BY <1>1, TailOf DEF DiscoveryInv, TypeInv, TableInv, QueueInv, MirrorInv
<1>3. ASSUME e.type \in Kinds
      PROVE  /\ Grows(e.type, table, svcIndex, chrIndex, released)
             /\ whole /\ ~released => /\ Phase(db, e.type, table, svcIndex, chrIndex, queue, proc)
                                      /\ outcome # "complete"
  <2>1. Busy(queue, proc, e.type)
    BY <1>2 DEF Busy
  <2>2. QED
    BY <1>3, <2>1 DEF DiscoveryInv, TableInv, MirrorInv
<1>4. ASSUME e.type # "disconnect", e.handle = NoAttribute
      PROVE  /\ proc = NoProc
             /\ \A i \in 1 .. Len(queue) : ~Carries(queue[i])
             /\ \A i \in 1 .. Len(r) : ~Carries(r[i])
  <2>1. proc = NoProc
    BY <1>2, <1>4 DEF Ordered
  <2>2. QED
    BY <1>1, <1>2, <1>4, <2>1, NothingWaits
<1>5. ASSUME e.type # "disconnect", e.handle # NoAttribute
      PROVE  /\ Carries(e)
             /\ e.type = "services" => e.handle2 = ServiceEnd(db, e.handle)
             /\ e.type = "characteristics" => e.handle2 = e.handle + 1
    BY <1>2, <1>5 DEF TrueEvents, Carries
<1> HIDE DEF e, r
<1>6. CASE e.type = "disconnect" /\ Disconnected
  <2>1. outcome' = "none" /\ db' = <<>> /\ UNCHANGED proc
    BY <1>6 DEF Disconnected
  <2>2. \A k \in Kinds : ~Busy(r, proc, k)
    BY <1>1, <1>2, <1>6, ConnectionEnds DEF e, r
  <2>3. ASSUME NEW i \in 1 .. Len(r) PROVE ~Carries(r[i])
    <3>1. i + 1 \in 1 .. Len(queue) /\ r[i] = queue[i + 1]
        BY <1>1, <1>2, TailOf DEF r
    <3>2. r[i] \in Events
        BY <1>2, <3>1, ElementOfSeq
    <3>3. r[i].type \in Kinds \/ r[i].type = "disconnect"
        BY <3>2 DEF Events
    <3>4. r[i].type \notin Kinds
        BY <2>2 DEF Busy
    <3>5. QED
        BY <3>3, <3>4 DEF Carries
  <2>4. TrueEvents(<<>>, r)
    BY <2>3 DEF TrueEvents
  <2>5. QED
    BY <1>1, <2>1, <2>2, <2>4, NoDevice DEF MirrorInv
<1>7. CASE e.type # "disconnect" /\ UNCHANGED <<whole, db>>
  <2>1. CASE e.type = "services" /\ e.handle # NoAttribute /\ Stores(AddService(table, e))
    <3>1. e.type \in Kinds /\ Carries(e) /\ e.handle2 = ServiceEnd(db, e.handle)
        BY <1>5, <2>1 DEF Kinds
    <3>2. ASSUME whole, ~released PROVE Phase(db, e.type, AddService(table, e), svcIndex, chrIndex, r, proc)
        <4>1. ServicesPhase(db, table, queue, proc)
            BY <1>3, <2>1, <3>1, <3>2 DEF Phase
        <4>2. ServicesPhase(db, AddService(table, e), r, proc)
            BY <1>1, <1>2, <2>1, <3>1, <4>1, ServiceStored DEF e, r
        <4>3. QED
            BY <2>1, <4>2 DEF Phase
    <3>3. QED
        BY <1>1, <1>7, <2>1, <3>1, <3>2, MirrorStays DEF e, r
  <2>2. CASE e.type = "services" /\ e.handle = NoAttribute /\ StartNextCharacteristics(table, 0)
    <3>1. e.type \in Kinds /\ ServicesGrow(table) /\ proc = NoProc
        BY <1>3, <1>4, <2>2 DEF Kinds, Grows
    <3>2. ASSUME whole, ~released PROVE Continues(r)
        <4>1. ServicesPhase(db, table, queue, NoProc) /\ outcome # "complete"
            BY <1>3, <2>2, <3>1, <3>2 DEF Phase
        <4>2. /\ \A i \in 1 .. Len(table.services) : TrueService(db, table.services[i])
              /\ Len(table.characteristics) = 0
              /\ Tracks(Starts(table), queue, ServiceHandles(db), Len(db) + 1)
            BY <4>1 DEF ServicesPhase, Follows, Bound
        <4>3. \A h \in ServiceHandles(db) : h < Len(db) + 1
            BY <1>2, Device DEF ServiceHandles
        <4>4. \A i \in 1 .. Len(queue) : ~Carries(queue[i])
            BY <1>4, <2>2
        <4>5. Lists(Starts(table), ServiceHandles(db))
            BY <4>2, <4>3, <4>4, Listed
        <4>6. ServicesTrue(db, table) /\ 0 <= Len(table.services)
            BY <1>2, <4>2, <4>5, TableParts DEF ServicesTrue
        <4>7. /\ \A i \in 1 .. 0 : Lists(Declarations(table, i), DeclarationHandles(db, table.services[i]))
              /\ \A j \in 1 .. Len(table.characteristics) :
                    TrueValue(db, table.characteristics[j]) /\ TrueEnd(db, table.characteristics[j])
            BY <4>2
        <4>8. Bare(table.services, 0) /\ Bare(table.characteristics, 0) /\ \A j \in 1 .. Len(r) : ~Carries(r[j])
            BY <1>4, <2>2, <3>1 DEF ServicesGrow
        <4>9. QED
            BY <1>2, <2>2, <3>1, <4>1, <4>6, <4>7, <4>8, CharacteristicsContinue
    <3>3. released => released'
        BY <2>2, StartKeeps
    <3>4. QED
        BY <1>1, <1>7, <2>2, <3>1, <3>2, <3>3, MirrorPasses DEF e, r
  <2>3. CASE e.type = "characteristics" /\ e.handle # NoAttribute
             /\ Stores(AddCharacteristic(table, svcIndex + 1, e))
    <3> DEFINE t == AddCharacteristic(table, svcIndex + 1, e)
    <3>1. /\ e.type \in Kinds /\ Carries(e) /\ e.handle2 = e.handle + 1
          /\ CharacteristicsGrow(table, svcIndex) /\ svcIndex < Len(table.services)
        BY <1>1, <1>3, <1>5, <2>3 DEF Kinds, Grows, AtEntry
    <3>2. ASSUME whole, ~released PROVE Phase(db, e.type, t, svcIndex, chrIndex, r, proc)
        <4>1. CharacteristicsPhase(db, table, svcIndex, queue, proc)
            BY <1>3, <2>3, <3>1, <3>2 DEF Phase
        <4>2. CharacteristicsPhase(db, t, svcIndex, r, proc)
            BY <1>1, <1>2, <2>3, <3>1, <4>1, CharacteristicStored DEF e, r
        <4>3. QED
            BY <2>3, <4>2 DEF Phase
    <3> HIDE DEF t
    <3>3. Stores(t)
        BY <2>3 DEF t
    <3>4. QED
        BY <1>1, <1>7, <3>1, <3>2, <3>3, MirrorStays DEF e, r
  <2>4. CASE e.type = "characteristics" /\ e.handle = NoAttribute
             /\ StartNextCharacteristics(EndService(table, svcIndex + 1), svcIndex + 1)
    <3> DEFINE t == EndService(table, svcIndex + 1)
               n == svcIndex + 1
    <3>1. /\ e.type \in Kinds /\ proc = NoProc /\ n \in Nat
          /\ CharacteristicsGrow(table, svcIndex) /\ svcIndex < Len(table.services)
        BY <1>1, <1>2, <1>3, <1>4, <2>4 DEF Kinds, Grows, AtEntry
    <3>2. t \in Tables /\ Fit(t) /\ CharacteristicsGrow(t, svcIndex) /\ Len(t.services) = Len(table.services)
        BY <1>2, <3>1, EndsService
    <3>3. StartNextCharacteristics(t, n)
        BY <2>4
    <3>4. ASSUME whole, ~released PROVE Continues(r)
        <4>1. CharacteristicsPhase(db, table, svcIndex, queue, NoProc) /\ outcome # "complete"
            BY <1>3, <2>4, <3>1, <3>4 DEF Phase
        <4>2. \A i \in 1 .. Len(queue) : ~Carries(queue[i])
            BY <1>4, <2>4
        <4>3. /\ ServicesTrue(db, t)
              /\ \A i \in 1 .. n : Lists(Declarations(t, i), DeclarationHandles(db, t.services[i]))
              /\ \A j \in 1 .. Len(t.characteristics) :
                    TrueValue(db, t.characteristics[j]) /\ TrueEnd(db, t.characteristics[j])
            BY <1>2, <3>1, <4>1, <4>2, ServiceClosed
        <4> HIDE DEF t
        <4>4. Bare(t.services, n) /\ Bare(t.characteristics, 0) /\ n <= Len(t.services)
            BY <1>2, <3>1, <3>2, TableParts DEF CharacteristicsGrow
        <4>5. \A j \in 1 .. Len(r) : ~Carries(r[j])
            BY <1>4, <2>4
        <4> HIDE DEF n
        <4>6. QED
            BY <1>2, <3>1, <3>2, <3>3, <4>1, <4>3, <4>4, <4>5, CharacteristicsContinue
    <3> HIDE DEF t, n
    <3>5. released => released'
        BY <3>3, StartKeeps
    <3>6. QED
        BY <1>1, <1>7, <2>4, <3>1, <3>4, <3>5, MirrorPasses DEF e, r
  <2>5. CASE e.type = "descriptors" /\ e.handle # NoAttribute
             /\ Stores(AddDescriptor(table, chrIndex + 1, e))
    <3> DEFINE t == AddDescriptor(table, chrIndex + 1, e)
    <3>1. /\ e.type \in Kinds /\ Carries(e)
          /\ DescriptorsGrow(table, chrIndex) /\ chrIndex < Len(table.characteristics)
        BY <1>1, <1>3, <1>5, <2>5 DEF Kinds, Grows, AtEntry
    <3>2. ASSUME whole, ~released PROVE Phase(db, e.type, t, svcIndex, chrIndex, r, proc)
        <4>1. DescriptorsPhase(db, table, chrIndex, queue, proc)
            BY <1>3, <2>5, <3>1, <3>2 DEF Phase
        <4>2. DescriptorsPhase(db, t, chrIndex, r, proc)
            BY <1>1, <1>2, <3>1, <4>1, DescriptorStored DEF e, r
        <4>3. QED
            BY <2>5, <4>2 DEF Phase
    <3> HIDE DEF t
    <3>3. Stores(t)
        BY <2>5 DEF t
    <3>4. QED
        BY <1>1, <1>7, <3>1, <3>2, <3>3, MirrorStays DEF e, r
  <2>6. CASE e.type = "descriptors" /\ e.handle = NoAttribute
             /\ StartNextDescriptors(table, chrIndex + 1) /\ UNCHANGED svcIndex
    <3> DEFINE n == chrIndex + 1
    <3>1. e.type \in Kinds /\ proc = NoProc /\ n \in Nat /\ DescriptorsGrow(table, chrIndex)
        BY <1>2, <1>3, <1>4, <2>6 DEF Kinds, Grows
    <3>2. ASSUME whole, ~released PROVE Continues(r)
        <4>1. /\ DescriptorsPhase(db, table, chrIndex, queue, NoProc) /\ outcome # "complete"
              /\ chrIndex < Len(table.characteristics)
            BY <1>3, <2>6, <3>1, <3>2 DEF Phase, Grows
        <4> DEFINE D == DescriptorHandles(db, table.characteristics[n])
        <4>2. /\ ServicesTrue(db, table) /\ CharacteristicsTrue(db, table) /\ DescriptorsTrue(db, table, chrIndex)
              /\ Tracks(Descriptors(table, n), queue, D, Len(db) + 1)
            BY <4>1 DEF DescriptorsPhase, Follows, Bound
        <4>3. n \in 1 .. Len(table.characteristics)
            BY <1>2, <4>1, TableParts
        <4>4. D \subseteq 1 .. Len(db)
            BY <1>2, <4>2, <4>3, HandlesInside DEF CharacteristicsTrue
        <4>5. \A i \in 1 .. Len(queue) : ~Carries(queue[i])
            BY <1>4, <2>6
        <4> HIDE DEF D
        <4>6. Lists(Descriptors(table, n), D)
            <5>1. \A h \in D : h < Len(db) + 1
                BY <1>2, <4>4, Device
            <5>2. QED
                BY <4>2, <4>5, <5>1, Listed
        <4>7. ASSUME NEW j \in 1 .. n
              PROVE  Lists(Descriptors(table, j), DescriptorHandles(db, table.characteristics[j]))
            <5>1. CASE j = n
                BY <4>6, <5>1 DEF D
            <5>2. CASE j # n
                <6>1. j \in 1 .. chrIndex
                    BY <1>2, <4>7, <5>2
                <6>2. QED
                    BY <4>2, <6>1 DEF DescriptorsTrue
            <5>3. QED
                BY <5>1, <5>2
        <4>8. DescriptorsTrue(db, table, n)
            BY <4>7 DEF DescriptorsTrue
        <4>9. Bare(table.characteristics, n) /\ \A j \in 1 .. Len(r) : ~Carries(r[j])
            BY <1>4, <2>6, <3>1 DEF DescriptorsGrow
        <4>10. StartNextDescriptors(table, n)
            BY <2>6
        <4> HIDE DEF n
        <4>11. QED
            BY <1>2, <3>1, <4>1, <4>2, <4>8, <4>9, <4>10, DescriptorsContinue
    <3>3. released => released'
        BY <2>6, StartKeeps
    <3>4. QED
        BY <1>1, <1>7, <2>6, <3>1, <3>2, <3>3, MirrorPasses DEF e, r
  <2>7. \/ e.type = "services" /\ e.handle # NoAttribute /\ Stores(AddService(table, e))
        \/ e.type = "services" /\ e.handle = NoAttribute /\ StartNextCharacteristics(table, 0)
        \/ e.type = "characteristics" /\ e.handle # NoAttribute
              /\ Stores(AddCharacteristic(table, svcIndex + 1, e))
        \/ e.type = "characteristics" /\ e.handle = NoAttribute
              /\ StartNextCharacteristics(EndService(table, svcIndex + 1), svcIndex + 1)
        \/ e.type = "descriptors" /\ e.handle # NoAttribute
              /\ Stores(AddDescriptor(table, chrIndex + 1, e))
        \/ e.type = "descriptors" /\ e.handle = NoAttribute
              /\ StartNextDescriptors(table, chrIndex + 1) /\ UNCHANGED svcIndex
    BY <1>7 DEF HandleEvent, e
  <2>8. QED
    BY <2>1, <2>2, <2>3, <2>4, <2>5, <2>6, <2>7
<1>8. QED
    BY <1>6, <1>7 DEF HandleEvent, e

\* The queue stays, and the table does unless it is released.
LEMMA MirrorKept ==
    ASSUME MirrorInv, UNCHANGED <<db, queue, proc, whole, svcIndex, chrIndex>>, released => released',
           ~released' => UNCHANGED table, outcome' = outcome \/ outcome' # "complete"
    PROVE  MirrorInv'
<1>1. ASSUME whole, ~released'
      PROVE  /\ \A k \in Kinds : Busy(queue, proc, k) => Phase(db, k, table', svcIndex, chrIndex, queue, proc)
             /\ outcome' = "complete" => Mirrors(db, table') /\ \A k \in Kinds : ~Busy(queue, proc, k)
    BY <1>1 DEF MirrorInv
<1>2. QED
    BY <1>1 DEF MirrorInv

\* and so in every step.
LEMMA MirrorStep ==
    ASSUME DiscoveryInv, MirrorInv, [Next]_vars
    PROVE  MirrorInv'
<1>1. DiscoveryInv'
    BY DiscoveryStep
<1>2. CASE Host
    BY <1>2, MirrorHost
<1>3. CASE HandleEvent
    BY <1>1, <1>3, MirrorHandle
<1>4. CASE MissEntry
  <2>1. UNCHANGED <<db, queue, proc, whole, svcIndex, chrIndex, table, released, outcome>>
    BY <1>4 DEF MissEntry, hostVars
  <2>2. QED
    BY <2>1, MirrorKept
<1>5. CASE DeadlinePasses
  <2>1. /\ UNCHANGED <<db, queue, proc, whole, svcIndex, chrIndex>> /\ outcome' = "failed"
        /\ (released => released') /\ (~released' => UNCHANGED table)
    BY <1>5 DEF DeadlinePasses, FinishDiscovery, hostVars
  <2>2. QED
    BY <2>1, MirrorKept
<1>6. CASE ReleaseServices
  <2>1. UNCHANGED <<db, queue, proc, whole, svcIndex, chrIndex, outcome>> /\ released'
    BY <1>6 DEF ReleaseServices, hostVars
  <2>2. QED
    BY <2>1, MirrorKept
<1>7. CASE Discover
  <2> DEFINE p == [kind |-> "services", next |-> 1, last |-> MaxHandle]
  <2>1. /\ db' \in Databases /\ queue' = <<>> /\ Len(queue') = 0 /\ table' = EmptyTable
        /\ outcome' = "none" /\ (proc' = p \/ proc' = NoProc)
    BY <1>7 DEF Discover
  <2>2. ASSUME NEW k \in Kinds, Busy(queue', proc', k)
        PROVE  Phase(db', k, table', svcIndex', chrIndex', queue', proc')
    <3>1. proc' # NoProc /\ proc'.kind = k
        BY <2>1, <2>2 DEF Busy
    <3>2. proc' = p /\ k = "services"
        BY <2>1, <3>1
    <3>3. ServicesPhase(db', EmptyTable, queue', proc')
        BY <2>1, <3>1, <3>2, ServicesBegin
    <3>4. QED
        BY <2>1, <3>2, <3>3 DEF Phase
  <2>3. TrueEvents(db', queue')
    BY <2>1 DEF TrueEvents
  <2>4. QED
    BY <2>1, <2>2, <2>3 DEF MirrorInv
<1>8. CASE UNCHANGED vars
  <2>1. UNCHANGED <<db, queue, proc, whole, svcIndex, chrIndex, table, released, outcome>>
    BY <1>8 DEF vars, hostVars, engineVars
  <2>2. QED
    BY <2>1, MirrorKept
<1>9. QED
    BY <1>2, <1>3, <1>4, <1>5, <1>6, <1>7, <1>8 DEF Next, Engine

\* TableIsDatabase: whatever the device, the queue's capacity and the user, a table
\* reported complete reads as the device's database, unless an event of its discovery
\* was dropped or cut short (what the proxy streams to its clients,
\* bluetooth_connection_hub.cpp, and get_characteristic() searches).
THEOREM TableMirrorsDevice == Spec => []TableIsDatabase
<1>1. Init => DiscoveryInv /\ MirrorInv
    BY InitDiscovery, MirrorBegins
<1>2. DiscoveryInv /\ MirrorInv /\ [Next]_vars => DiscoveryInv' /\ MirrorInv'
    BY DiscoveryStep, MirrorStep
<1>3. DiscoveryInv /\ MirrorInv => TableIsDatabase
  <2> SUFFICES ASSUME DiscoveryInv, MirrorInv, outcome = "complete", whole, ~released
               PROVE  ReadTable = Database
    BY DEF TableIsDatabase
  <2>1. table \in Tables /\ Fit(table)
    BY DEF DiscoveryInv, TypeInv, TableInv
  <2>2. db \in Databases /\ Mirrors(db, table)
    BY DEF MirrorInv
  <2>3. QED
    BY <2>1, <2>2, MirrorIsRead
<1>4. QED
    BY <1>1, <1>2, <1>3, PTL DEF Spec
=============================================================================
