-------------------------- MODULE ScanResponseMerger --------------------------
(***************************************************************************)
(* ScanResponseMerger: scannable advertisements wait in a small table for  *)
(* the scan response that follows them, and the pair goes to the listeners *)
(* as one frame.                                                           *)
(*                                                                         *)
(* Listeners run automations, which may start or stop the scan from inside *)
(* the delivery, and so call the merger again.  agenda is the main         *)
(* thread's call stack: what remains to be done, the innermost call first. *)
(*                                                                         *)
(* An advertisement is known by its number; a scan response carries the    *)
(* number of the advertisement it was sent for, which the code cannot see. *)
(***************************************************************************)
EXTENDS Naturals, Sequences, FiniteSets

CONSTANTS
    Devices,        \* addresses
    MaxAdverts,     \* bound: advertisements in a behaviour
    MaxPendingAdv   \* MAX_PENDING_ADV, 8 in the firmware

ASSUME MergerAssumption == MaxAdverts \in Nat /\ MaxPendingAdv \in Nat \ {0}

VARIABLES
    held,       \* the used entries of pending_adv_
    given,      \* history: for each advertisement, what it was merged with
                \* each time listeners were given it
    agenda      \* what the main thread has still to do before it returns

mergerVars == <<held, given, agenda>>

AdvertIds == 1 .. MaxAdverts
Adverts == [id : AdvertIds, device : Devices]
NoResponse == 0

Op(what) == [what |-> what]
Keep(adv) == [what |-> "keep", adv |-> adv]

Ops == {Op(w) : w \in {"listeners", "flush", "sweep", "idle", "stop", "start", "again"}}
          \cup {Keep(adv) : adv \in Adverts}

MergerTypeOK ==
    /\ held \subseteq Adverts
    /\ Cardinality(held) <= MaxPendingAdv
    /\ given \in [AdvertIds -> Seq(0 .. MaxAdverts)]
    /\ agenda \in Seq(Ops)

MergerInit ==
    /\ held = {}
    /\ given = [i \in AdvertIds |-> <<>>]

\* The main thread is about to do what.
Doing(what) == agenda # <<>> /\ Head(agenda).what = what

\* deliver_ to the listeners, and rest after they return.
Deliver(adv, response, rest) ==
    /\ given' = [given EXCEPT ![adv.id] = Append(@, response)]
    /\ agenda' = <<Op("listeners")>> \o rest

-----------------------------------------------------------------------------

\* Variant: an entry is found without comparing addresses.
AnyHeld(device) == held

HeldFor(device) == {adv \in held : adv.device = device}

\* Variant: one entry too many.
HasSlotForOneMore == Cardinality(held) <= MaxPendingAdv

HasSlot == Cardinality(held) < MaxPendingAdv

\* Variant: the entry is reused and what it held forgotten.
ReplaceUndelivered(old, adv) ==
    /\ held' = (held \ {old}) \cup {adv}
    /\ UNCHANGED <<given, agenda>>

\* The device advertises again: the response to what is held is not coming.  The
\* entry is used again once the listeners have returned.
Replace(old, adv) ==
    /\ held' = held \ {old}
    /\ Deliver(old, NoResponse, <<Keep(adv)>>)

StashAdv(adv) ==
    \/ \E old \in HeldFor(adv.device) : Replace(old, adv)
    \/ /\ HeldFor(adv.device) = {} /\ HasSlot
       /\ held' = held \cup {adv}
       /\ UNCHANGED <<given, agenda>>
    \/ /\ HeldFor(adv.device) = {} /\ ~HasSlot
       /\ Deliver(adv, NoResponse, <<>>)
       /\ UNCHANGED held

KeepAdv ==
    /\ Doing("keep")
    /\ held' = held \cup {Head(agenda).adv}
    /\ agenda' = Tail(agenda)
    /\ UNCHANGED given

\* A response that nothing is held for goes to the raw callback only.
SubmitScanRsp(rsp) ==
    \/ \E adv \in HeldFor(rsp.device) :
          held' = held \ {adv} /\ Deliver(adv, rsp.id, <<>>)
    \/ HeldFor(rsp.device) = {} /\ UNCHANGED mergerVars

\* Deliver what is held, one entry after the other, and stay at it.
DeliverHeld(adv) ==
    /\ adv \in held
    /\ held' = held \ {adv}
    /\ Deliver(adv, NoResponse, agenda)

\* Variant: sweep() finds nothing old enough.
NeverDue(adv) == FALSE

\* An entry may be older than PENDING_ADV_TIMEOUT_MS.
MayBeDue(adv) == adv \in held

Sweep ==
    /\ Doing("sweep")
    /\ \/ \E adv \in held : MayBeDue(adv) /\ DeliverHeld(adv)
       \/ agenda' = Tail(agenda) /\ UNCHANGED <<held, given>>

\* Variant: flush() delivers without releasing the entry.
FlushAndHold ==
    /\ Doing("flush")
    /\ \/ \E adv \in held : Deliver(adv, NoResponse, Tail(agenda)) /\ UNCHANGED held
       \/ held = {} /\ agenda' = Tail(agenda) /\ UNCHANGED <<held, given>>

Flush ==
    /\ Doing("flush")
    /\ \/ \E adv \in held : DeliverHeld(adv)
       \/ held = {} /\ agenda' = Tail(agenda) /\ UNCHANGED <<held, given>>
=============================================================================
