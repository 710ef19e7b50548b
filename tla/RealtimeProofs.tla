-------------------------- MODULE RealtimeProofs --------------------------
(***************************************************************************)
(* Everybody who listens listens to the channel that is published to, and  *)
(* a receiver that falls behind keeps the last event.                      *)
(*                                                                         *)
(* The channel is shared because a lookup and the subscription it leads to *)
(* are one step, and because the count that lets a channel go is of the    *)
(* receivers that are there: both are needed, and so is the type of the    *)
(* receivers, since a queue that overflows is cut at its other end.        *)
(***************************************************************************)
EXTENDS Realtime, FiniteSetTheorems, TLAPS

Changes == 0..MaxChanges
Places == {"closed", "subscribe", "idlecheck", "idleinsert", "ensure", "open", "stop",
           "cleanup"}
BudgetSet == [change : Changes, open : Nat, push : Nat, fault : Nat, split : Nat]
Receivers == [ch : Channels \cup {None}, q : Seq(Changes), lagged : BOOLEAN, last : Changes]

\* The changes that have been made and those that are left are within the bound.
CountType ==
    /\ ver \in Nat /\ cache \in 0..ver /\ left \in BudgetSet
    /\ ver + left.change <= MaxChanges
WorkType ==
    /\ worker \in [Workers -> {"wait", "due", "sync", "new", "done"}]
    /\ base \in [Workers -> Nat] /\ (\A w \in Workers : base[w] <= ver)
    /\ permit \in [Workers -> BOOLEAN]
MapType ==
    /\ bells \in Workers \cup {None} /\ tasks \in Workers \cup {None}
    /\ call \in [Callers -> [at : {"no", "spawn", "got"}, w : Workers \cup {None}]]
IdleType ==
    /\ idle \in [Idles -> {"none", "away", "listen", "told", "data", "last"}]
    /\ idleMap \in Idles \cup {None}
PageType == pc \in [Pages -> Places] /\ bellOf \in [Conns -> Workers \cup {None}]
BusType ==
    /\ chan \in Channels \cup {None}
    /\ rcv \in [Pages -> Receivers] /\ got \in [Pages -> Changes]
    /\ \A p \in Pages : Len(rcv[p].q) <= Capacity

Typed == CountType /\ WorkType /\ MapType /\ IdleType /\ PageType /\ BusType

\* The queue of a receiver ends with the last event that was sent to it, and a
\* page that has emptied its queue was given that one.
LastKept ==
    \A p \in Pages : rcv[p].ch # None =>
        IF rcv[p].q = <<>> THEN got[p] = rcv[p].last
        ELSE rcv[p].q[Len(rcv[p].q)] = rcv[p].last

RealtimeInv == Typed /\ ChannelShared /\ LastKept

-----------------------------------------------------------------------------
(* The event bus                                                           *)

LEMMA EmptyLength == ASSUME NEW s, s = <<>> PROVE Len(s) = 0
  OBVIOUS

LEMMA NoReceiverType == NoReceiver \in Receivers
  BY RealtimeAssumption DEF NoReceiver, Receivers, Changes

\* An event put into a queue: it is the last one there, and the queue does not grow
\* past its capacity.
LEMMA AppendKeeps ==
    ASSUME NEW r \in Receivers, Len(r.q) <= Capacity, ver \in Changes
    PROVE  /\ Append1(r) \in Receivers /\ Append1(r).ch = r.ch
           /\ Len(Append1(r).q) <= Capacity
           /\ Append1(r).q # <<>>
           /\ Append1(r).q[Len(Append1(r).q)] = Append1(r).last
<1>1. Capacity \in Nat \ {0} /\ r.q \in Seq(Changes) /\ Len(r.q) \in Nat
  BY RealtimeAssumption DEF Receivers
<1>2. CASE Len(r.q) < Capacity
  <2>1. Append1(r) = [r EXCEPT !.q = Append(r.q, ver), !.last = ver]
    BY <1>2 DEF Append1, Latest
  <2>2. Append(r.q, ver) \in Seq(Changes) /\ Len(Append(r.q, ver)) = Len(r.q) + 1
        /\ Append(r.q, ver)[Len(r.q) + 1] = ver
    BY <1>1
  <2> DEFINE Q == Append(r.q, ver)
  <2>3. Append1(r) = [r EXCEPT !.q = Q, !.last = ver]
    BY <2>1
  <2>4. Q \in Seq(Changes) /\ Q # <<>> /\ Len(Q) <= Capacity /\ Q[Len(Q)] = ver
    BY <1>1, <1>2, <2>2
  <2> HIDE DEF Q
  <2> QED BY <2>3, <2>4 DEF Receivers
<1>3. CASE ~(Len(r.q) < Capacity)
  <2>1. Append1(r) = [r EXCEPT !.q = Append(Tail(r.q), ver), !.lagged = TRUE, !.last = ver]
    BY <1>3 DEF Append1, Latest
  <2>2. r.q # <<>>
    BY <1>1, <1>3
  <2>3. Tail(r.q) \in Seq(Changes) /\ Len(Tail(r.q)) = Len(r.q) - 1
    BY <1>1, <2>2
  <2>4. Append(Tail(r.q), ver) \in Seq(Changes) /\ Len(Append(Tail(r.q), ver)) = Len(r.q)
        /\ Append(Tail(r.q), ver)[Len(r.q)] = ver
    BY <1>1, <2>3
  <2> DEFINE Q == Append(Tail(r.q), ver)
  <2>5. Append1(r) = [r EXCEPT !.q = Q, !.lagged = TRUE, !.last = ver]
    BY <2>1
  <2>6. Q \in Seq(Changes) /\ Q # <<>> /\ Len(Q) <= Capacity /\ Q[Len(Q)] = ver
    BY <1>1, <2>2, <2>4
  <2> HIDE DEF Q
  <2> QED BY <2>5, <2>6 DEF Receivers
<1> QED BY <1>2, <1>3

\* What a step of the bus must keep: the three parts of the invariant about it.
Bus == BusType /\ ChannelShared /\ LastKept

LEMMA PublishKeeps ==
    ASSUME Bus, ver \in Changes, publish, UNCHANGED <<chan, got>>
    PROVE  Bus'
<1> DEFINE hit(p) == chan # None /\ rcv[p].ch = chan
<1>1. rcv' = [p \in Pages |-> IF hit(p) THEN Append1(rcv[p]) ELSE rcv[p]]
  BY DEF publish
<1>2. \A p \in Pages : /\ rcv'[p] \in Receivers /\ rcv'[p].ch = rcv[p].ch
                       /\ Len(rcv'[p].q) <= Capacity
                       /\ ~hit(p) => rcv'[p] = rcv[p]
                       /\ hit(p) => /\ rcv'[p].q # <<>>
                                    /\ rcv'[p].q[Len(rcv'[p].q)] = rcv'[p].last
  <2> SUFFICES ASSUME NEW p \in Pages
               PROVE  /\ rcv'[p] \in Receivers /\ rcv'[p].ch = rcv[p].ch
                      /\ Len(rcv'[p].q) <= Capacity
                      /\ ~hit(p) => rcv'[p] = rcv[p]
                      /\ hit(p) => /\ rcv'[p].q # <<>>
                                   /\ rcv'[p].q[Len(rcv'[p].q)] = rcv'[p].last
    OBVIOUS
  <2>1. rcv[p] \in Receivers /\ Len(rcv[p].q) <= Capacity
    BY DEF Bus, BusType
  <2>2. CASE hit(p)
    <3>1. rcv'[p] = Append1(rcv[p])
      BY <1>1, <2>2
    <3> HIDE DEF hit
    <3> QED BY <2>1, <2>2, <3>1, AppendKeeps
  <2>3. CASE ~hit(p)
    <3>1. rcv'[p] = rcv[p]
      BY <1>1, <2>3
    <3> HIDE DEF hit
    <3> QED BY <2>1, <2>3, <3>1
  <2> QED BY <2>2, <2>3
<1>3. DOMAIN rcv' = Pages /\ rcv' = [p \in Pages |-> rcv'[p]]
  BY <1>1
<1>4. BusType'
  BY <1>2, <1>3 DEF Bus, BusType
<1>5. ChannelShared'
  BY <1>2 DEF Bus, ChannelShared
<1>6. LastKept'
  <2> SUFFICES ASSUME NEW p \in Pages, rcv'[p].ch # None
               PROVE  IF rcv'[p].q = <<>> THEN got'[p] = rcv'[p].last
                      ELSE rcv'[p].q[Len(rcv'[p].q)] = rcv'[p].last
    BY DEF LastKept
  <2>1. CASE hit(p)
    BY <1>2, <2>1
  <2>2. CASE ~hit(p)
    BY <1>2, <2>2 DEF Bus, LastKept
  <2> QED BY <2>1, <2>2
<1> QED BY <1>4, <1>5, <1>6 DEF Bus

\* Who subscribes finds the channel of the others, or there are no others.
LEMMA SubscribeKeeps ==
    ASSUME Bus, NEW p \in Pages, Subscribe(p)
    PROVE  Bus'
<1>1. chan' \in Channels /\ (chan # None => chan' = chan)
  <2>1. CASE chan # None
    BY <2>1 DEF Subscribe, Bus, BusType
  <2>2. CASE chan = None
    <3>1. \A q \in Pages : rcv[q].ch = None
      BY <2>2 DEF Bus, ChannelShared
    <3>2. \A ch \in Channels : Idle(ch)
      BY <2>2, <3>1, RealtimeAssumption DEF Idle
    <3>3. \E ch \in Channels : Idle(ch)
      BY <3>2, RealtimeAssumption
    <3>4. chan' = CHOOSE ch \in Channels : Idle(ch)
      BY <2>2 DEF Subscribe
    <3> QED BY <2>2, <3>3, <3>4
  <2> QED BY <2>1, <2>2
<1> DEFINE new == [NoReceiver EXCEPT !.ch = chan']
<1>2. rcv' = [rcv EXCEPT ![p] = new] /\ got' = [got EXCEPT ![p] = 0]
  BY DEF Subscribe
<1>3. /\ new \in Receivers /\ new.ch = chan' /\ new.q = <<>> /\ new.last = 0
      /\ Len(new.q) = 0
  <2>1. <<>> \in Seq(Changes) /\ 0 \in Changes /\ Len(<<>>) = 0
    BY RealtimeAssumption DEF Changes
  <2> DEFINE E == <<>>
  <2>2. new = [[ch |-> None, q |-> E, lagged |-> FALSE, last |-> 0] EXCEPT !.ch = chan']
    BY DEF NoReceiver
  <2>3. E \in Seq(Changes) /\ Len(E) = 0
    BY <2>1
  <2> HIDE DEF E, new
  <2>4. new \in Receivers /\ new.ch = chan' /\ new.q = E /\ new.last = 0
    BY <1>1, <2>1, <2>2, <2>3 DEF Receivers
  <2> QED BY <2>3, <2>4 DEF E
<1> HIDE DEF new
<1>4. /\ rcv'[p] = new /\ got'[p] = 0
      /\ \A q \in Pages : q # p => rcv'[q] = rcv[q] /\ got'[q] = got[q]
  BY <1>2 DEF Bus, BusType
<1>5. BusType'
  <2>1. rcv' \in [Pages -> Receivers] /\ got' \in [Pages -> Changes]
    BY <1>2, <1>3, RealtimeAssumption DEF Bus, BusType, Changes
  <2>2. \A q \in Pages : Len(rcv'[q].q) <= Capacity
    BY <1>3, <1>4, RealtimeAssumption DEF Bus, BusType
  <2> QED BY <1>1, <2>1, <2>2 DEF BusType
<1>6. ChannelShared'
  BY <1>1, <1>3, <1>4, RealtimeAssumption DEF Bus, ChannelShared
<1>7. LastKept'
  BY <1>3, <1>4 DEF Bus, LastKept
<1> QED BY <1>5, <1>6, <1>7 DEF Bus

\* A page takes the oldest event, or learns that it lags.
LEMMA ForwardKeeps ==
    ASSUME Bus, NEW p \in Pages, Forward(p)
    PROVE  Bus'
<1>1. /\ rcv[p] \in Receivers /\ rcv[p].q \in Seq(Changes) /\ rcv[p].q # <<>>
      /\ Len(rcv[p].q) <= Capacity /\ Len(rcv[p].q) \in Nat \ {0} /\ Capacity \in Nat
      /\ chan' = chan
  BY RealtimeAssumption DEF Bus, BusType, Receivers, Forward
<1>2. CASE rcv[p].lagged
  <2> DEFINE new == [rcv[p] EXCEPT !.lagged = FALSE]
  <2>1. rcv' = [rcv EXCEPT ![p] = new] /\ got' = got
    BY <1>2 DEF Forward
  <2>2. new \in Receivers /\ new.ch = rcv[p].ch /\ new.q = rcv[p].q /\ new.last = rcv[p].last
    BY <1>1 DEF Receivers
  <2> HIDE DEF new
  <2>3. rcv'[p] = new /\ \A q \in Pages : q # p => rcv'[q] = rcv[q]
    BY <2>1 DEF Bus, BusType
  <2>4. BusType'
    BY <1>1, <2>1, <2>2, <2>3 DEF Bus, BusType
  <2>5. ChannelShared' /\ LastKept'
    BY <1>1, <2>1, <2>2, <2>3 DEF Bus, ChannelShared, LastKept
  <2> QED BY <2>4, <2>5 DEF Bus
<1>3. CASE ~rcv[p].lagged
  <2> DEFINE new == [rcv[p] EXCEPT !.q = Tail(rcv[p].q)]
  <2>1. rcv' = [rcv EXCEPT ![p] = new] /\ got' = [got EXCEPT ![p] = Head(rcv[p].q)]
    BY <1>3 DEF Forward
  <2>2. /\ new \in Receivers /\ new.ch = rcv[p].ch /\ new.last = rcv[p].last
        /\ new.q = Tail(rcv[p].q) /\ Len(new.q) = Len(rcv[p].q) - 1
        /\ Head(rcv[p].q) \in Changes
    <3>1. /\ Tail(rcv[p].q) \in Seq(Changes) /\ Len(Tail(rcv[p].q)) = Len(rcv[p].q) - 1
          /\ Head(rcv[p].q) \in Changes
      BY <1>1
    <3>2. /\ new.ch = rcv[p].ch /\ new.last = rcv[p].last /\ new.q = Tail(rcv[p].q)
          /\ new \in Receivers
      BY <1>1, <3>1 DEF Receivers
    <3> QED BY <3>1, <3>2
  <2>3. new.q = <<>> => Head(rcv[p].q) = rcv[p].q[Len(rcv[p].q)]
    <3>1. new.q = <<>> => Len(new.q) = 0
      BY EmptyLength
    <3>2. Len(new.q) = 0 => Len(rcv[p].q) = 1
      BY <1>1, <2>2
    <3>3. Len(rcv[p].q) = 1 => Head(rcv[p].q) = rcv[p].q[Len(rcv[p].q)]
      BY <1>1
    <3> QED BY <3>1, <3>2, <3>3
  <2>4. new.q # <<>> => new.q[Len(new.q)] = rcv[p].q[Len(rcv[p].q)]
    BY <1>1, <2>2
  <2> HIDE DEF new
  <2>5. /\ rcv'[p] = new /\ got'[p] = Head(rcv[p].q)
        /\ \A q \in Pages : q # p => rcv'[q] = rcv[q] /\ got'[q] = got[q]
    BY <2>1 DEF Bus, BusType
  <2>6. BusType'
    <3>1. rcv' \in [Pages -> Receivers] /\ got' \in [Pages -> Changes]
      BY <2>1, <2>2 DEF Bus, BusType
    <3>2. Len(new.q) <= Capacity
      BY <1>1, <2>2
    <3> QED BY <1>1, <2>5, <3>1, <3>2 DEF Bus, BusType
  <2>7. ChannelShared'
    BY <1>1, <2>2, <2>5 DEF Bus, ChannelShared
  <2>8. LastKept'
    BY <1>1, <2>2, <2>3, <2>4, <2>5 DEF Bus, LastKept
  <2> QED BY <2>6, <2>7, <2>8 DEF Bus
<1> QED BY <1>2, <1>3

\* A channel is let go only when nobody listens to it.
LEMMA CleanupKeeps ==
    ASSUME Bus, NEW c \in Conns, Cleanup(c)
    PROVE  Bus'
<1> DEFINE listening == {p \in Pages : rcv[p].ch = chan}
<1>1. IsFiniteSet(Pages)
  BY RealtimeAssumption, FS_AddElement DEF Pages
<1>2. IsFiniteSet(listening)
  BY <1>1, FS_Subset
<1>3. receiver_count = 0 => listening = {}
  BY <1>2, FS_EmptySet DEF receiver_count
<1>4. CASE receiver_count = 0
  <2>1. chan' = None /\ rcv' = rcv /\ got' = got
    BY <1>4 DEF Cleanup
  <2>2. \A p \in Pages : rcv[p].ch = None
    BY <1>3, <1>4 DEF Bus, ChannelShared
  <2> QED BY <2>1, <2>2 DEF Bus, BusType, ChannelShared, LastKept
<1>5. CASE receiver_count # 0
  BY <1>5 DEF Cleanup, Bus, BusType, ChannelShared, LastKept
<1> QED BY <1>4, <1>5

\* An aborted forwarder drops its receiver.
LEMMA GoneKeeps ==
    ASSUME Bus, NEW c \in Conns, ForwarderGone(c)
    PROVE  Bus'
<1>1. rcv' = [rcv EXCEPT ![c] = NoReceiver] /\ c \in Pages /\ chan' = chan /\ got' = got
  BY DEF ForwarderGone, Pages
<1>2. rcv'[c] = NoReceiver /\ \A q \in Pages : q # c => rcv'[q] = rcv[q]
  BY <1>1 DEF Bus, BusType
<1>3. NoReceiver.ch = None /\ Len(NoReceiver.q) = 0
  BY DEF NoReceiver
<1>4. BusType'
  BY <1>1, <1>2, <1>3, NoReceiverType, RealtimeAssumption DEF Bus, BusType
<1> QED BY <1>1, <1>2, <1>3, <1>4 DEF Bus, ChannelShared, LastKept

LEMMA BusSame == ASSUME Bus, UNCHANGED bus PROVE Bus'
  BY DEF bus, Bus, BusType, ChannelShared, LastKept

-----------------------------------------------------------------------------
(* The counters, and the steps of the other actors                         *)

LEMMA SpendKeeps ==
    ASSUME CountType, NEW k \in {"open", "push", "fault", "split"}, Spend(k)
    PROVE  left' \in BudgetSet /\ left'.change = left.change
<1>1. left \in BudgetSet /\ left[k] \in Nat /\ left[k] > 0
      /\ left' = [left EXCEPT ![k] = left[k] - 1]
  BY DEF CountType, Spend, BudgetSet
<1>2. left[k] - 1 \in Nat
  BY <1>1
<1> QED BY <1>1, <1>2 DEF BudgetSet

\* The counters when the server does not change and the cache stays.
LEMMA CountKept ==
    ASSUME CountType, UNCHANGED <<ver, cache>>,
           \/ left' = left
           \/ \E k \in {"open", "push", "fault", "split"} : Spend(k)
    PROVE  CountType'
<1>1. left' \in BudgetSet /\ left'.change = left.change
  BY SpendKeeps DEF CountType
<1> QED BY <1>1 DEF CountType

LEMMA EnsureKeeps ==
    ASSUME MapType, WorkType, CountType, NEW k \in Callers, EnsureCheck(k),
           UNCHANGED <<ver, cache, base, permit>>
    PROVE  MapType' /\ WorkType' /\ CountType'
<1>1. CASE Registered /\ Calling(k, "got", bells) /\ UNCHANGED <<bells, tasks, worker, left>>
  <2>1. MapType'
    BY <1>1 DEF MapType, Calling
  <2> QED BY <1>1, <2>1, CountKept DEF WorkType
<1>2. CASE ~(Registered /\ Calling(k, "got", bells) /\ UNCHANGED <<bells, tasks, worker, left>>)
  <2> DEFINE w == CHOOSE w \in Workers : Unused(w)
  <2>1. w \in Workers
    BY <1>2 DEF EnsureCheck
  <2>2. /\ bells' = w
        /\ \/ /\ tasks' = w /\ worker' = [worker EXCEPT ![w] = "wait"]
              /\ Calling(k, "got", w) /\ left' = left
           \/ /\ tasks' = tasks /\ worker' = [worker EXCEPT ![w] = "new"]
              /\ Calling(k, "spawn", w) /\ Spend("split")
    BY <1>2 DEF EnsureCheck
  <2> HIDE DEF w
  <2>3. MapType'
    BY <2>1, <2>2 DEF MapType, Calling
  <2>4. WorkType'
    BY <2>1, <2>2 DEF WorkType
  <2>5. CountType'
    BY <2>2, CountKept
  <2> QED BY <2>3, <2>4, <2>5
<1> QED BY <1>1, <1>2

LEMMA RingKeeps ==
    ASSUME WorkType, NEW w, Ring(w), UNCHANGED <<ver, worker, base>>
    PROVE  WorkType'
<1>1. (worker[w] # "done") \in BOOLEAN
  OBVIOUS
<1> QED BY <1>1 DEF WorkType, Ring

\* A cycle that ends: what it saw is no newer than the server, and the event says
\* so to everybody who listens.
LEMMA SyncEndKeeps ==
    ASSUME Typed, Bus, NEW w \in Workers, SyncEnd(w)
    PROVE  CountType' /\ WorkType' /\ Bus'
<1>1. /\ ver \in Nat /\ cache \in 0..ver /\ base[w] \in Nat /\ base[w] <= ver
      /\ left \in BudgetSet /\ ver' = ver
  BY DEF Typed, CountType, WorkType, SyncEnd
<1>2. WorkType'
  BY <1>1 DEF Typed, WorkType, SyncEnd
<1>3. ver \in Changes
  BY <1>1, RealtimeAssumption DEF Typed, CountType, Changes, BudgetSet
<1>4. CASE /\ cache' = IF base[w] > cache THEN base[w] ELSE cache
           /\ IF base[w] > cache THEN publish ELSE rcv' = rcv
           /\ left' = left
  <2>1. CountType'
    BY <1>1, <1>4 DEF Typed, CountType
  <2>2. CASE base[w] > cache
    BY <1>2, <1>3, <1>4, <2>1, <2>2, PublishKeeps DEF SyncEnd
  <2>3. CASE ~(base[w] > cache)
    <3>1. UNCHANGED bus
      BY <1>4, <2>3 DEF bus, SyncEnd
    <3> QED BY <1>2, <2>1, <3>1, BusSame
  <2> QED BY <2>2, <2>3
<1>5. CASE Spend("fault") /\ UNCHANGED <<cache, rcv>>
  <2>1. UNCHANGED bus
    BY <1>5 DEF bus, SyncEnd
  <2> QED BY <1>1, <1>2, <1>5, <2>1, BusSame, CountKept DEF Typed
<1> QED BY <1>4, <1>5 DEF SyncEnd

\* No step of the workers moves a page.
LEMMA WorkStep ==
    ASSUME RealtimeInv, NEW w \in Workers, Work(w)
    PROVE  RealtimeInv'
<1>1. Bus
  BY DEF RealtimeInv, Typed, Bus
<1>2. CASE SyncStart(w)
  <2>1. WorkType'
    BY <1>2 DEF RealtimeInv, Typed, WorkType, CountType, SyncStart
  <2>2. CountType' /\ MapType' /\ IdleType' /\ PageType' /\ UNCHANGED bus
    BY <1>2 DEF RealtimeInv, Typed, CountType, MapType, IdleType, PageType, SyncStart, maps,
       idling, bus
  <2> QED BY <1>1, <2>1, <2>2, BusSame DEF RealtimeInv, Typed, Bus
<1>3. CASE SyncEnd(w)
  <2>1. MapType' /\ IdleType' /\ PageType'
    BY <1>3 DEF RealtimeInv, Typed, MapType, IdleType, PageType, SyncEnd, maps, idling
  <2> QED BY <1>1, <1>3, <2>1, SyncEndKeeps DEF RealtimeInv, Typed, Bus
<1>4. CASE AlmostOver(w)
  <2>1. WorkType'
    BY <1>4 DEF RealtimeInv, Typed, WorkType, AlmostOver
  <2>2. CountType' /\ MapType' /\ IdleType' /\ PageType' /\ UNCHANGED bus
    BY <1>4 DEF RealtimeInv, Typed, CountType, MapType, IdleType, PageType, AlmostOver, maps,
       idling, bus
  <2> QED BY <1>1, <2>1, <2>2, BusSame DEF RealtimeInv, Typed, Bus
<1>5. CASE IdleExit(w)
  <2>1. WorkType'
    BY <1>5 DEF RealtimeInv, Typed, WorkType, IdleExit
  <2>2. CountType' /\ MapType' /\ IdleType' /\ PageType' /\ UNCHANGED bus
    BY <1>5 DEF RealtimeInv, Typed, CountType, MapType, IdleType, PageType, IdleExit, maps,
       idling, bus
  <2> QED BY <1>1, <2>1, <2>2, BusSame DEF RealtimeInv, Typed, Bus
<1> QED BY <1>2, <1>3, <1>4, <1>5 DEF Work

\* The server changes, and the views and IDLE tasks poke.
LEMMA ChangeStep ==
    ASSUME RealtimeInv, Change
    PROVE  RealtimeInv'
<1>1. left \in BudgetSet /\ left.change \in Nat /\ left.change > 0
      /\ left' = [left EXCEPT !.change = left.change - 1]
  <2>1. left \in BudgetSet /\ left.change \in Changes
    BY DEF RealtimeInv, Typed, CountType, BudgetSet
  <2>2. left.change \in Nat
    BY <2>1, RealtimeAssumption DEF Changes
  <2>3. left.change > 0 /\ left' = [left EXCEPT !.change = left.change - 1]
    BY DEF Change, Spend
  <2> QED BY <2>1, <2>2, <2>3
<1>2. left' \in BudgetSet /\ left'.change = left.change - 1
  BY <1>1, RealtimeAssumption DEF BudgetSet, Changes
<1>3. CountType'
  BY <1>1, <1>2 DEF RealtimeInv, Typed, CountType, Change
<1>4. WorkType'
  BY DEF RealtimeInv, Typed, CountType, WorkType, Change, work
<1>5. IdleType'
  BY DEF RealtimeInv, Typed, IdleType, Change
<1>6. MapType' /\ PageType' /\ UNCHANGED bus
  BY DEF RealtimeInv, Typed, MapType, PageType, Change, maps, bus
<1> QED BY <1>3, <1>4, <1>5, <1>6, BusSame DEF RealtimeInv, Typed, Bus

\* The folder is invalidated.
LEMMA InvalidateStep ==
    ASSUME RealtimeInv, Invalidate
    PROVE  RealtimeInv'
<1>1. CountType'
  BY CountKept DEF RealtimeInv, Typed, Invalidate
<1>2. WorkType' /\ MapType' /\ IdleType' /\ PageType' /\ UNCHANGED bus
  BY DEF RealtimeInv, Typed, WorkType, MapType, IdleType, PageType, Invalidate, work, maps,
     idling, bus
<1> QED BY <1>1, <1>2, BusSame DEF RealtimeInv, Typed, Bus

LEMMA SpawnStep ==
    ASSUME RealtimeInv, NEW k \in Callers, SpawnWorker(k)
    PROVE  RealtimeInv'
<1>1. call[k].w \in Workers \cup {None}
  BY DEF RealtimeInv, Typed, MapType
<1>2. MapType'
  BY <1>1 DEF RealtimeInv, Typed, MapType, SpawnWorker, Calling
<1>3. WorkType'
  BY DEF RealtimeInv, Typed, WorkType, SpawnWorker
<1>4. CountType' /\ IdleType' /\ PageType' /\ UNCHANGED bus
  BY DEF RealtimeInv, Typed, CountType, IdleType, PageType, SpawnWorker, idling, bus
<1> QED BY <1>2, <1>3, <1>4, BusSame DEF RealtimeInv, Typed, Bus

LEMMA ViewStep ==
    ASSUME RealtimeInv, Look \/ Poke
    PROVE  RealtimeInv'
<1>1. View \in Callers
  BY DEF Callers
<1>2. CASE Look
  <2>1. MapType' /\ WorkType' /\ CountType'
    BY <1>1, <1>2, EnsureKeeps DEF RealtimeInv, Typed, Look
  <2>2. IdleType' /\ PageType' /\ UNCHANGED bus
    BY <1>2 DEF RealtimeInv, Typed, IdleType, PageType, Look, idling, bus
  <2> QED BY <2>1, <2>2, BusSame DEF RealtimeInv, Typed, Bus
<1>3. CASE Poke
  <2>1. WorkType'
    BY <1>3, RingKeeps DEF RealtimeInv, Typed, Poke
  <2>2. MapType'
    BY <1>3 DEF RealtimeInv, Typed, MapType, Poke, Return, NoCall
  <2>3. CountType' /\ IdleType' /\ PageType' /\ UNCHANGED bus
    BY <1>3 DEF RealtimeInv, Typed, CountType, IdleType, PageType, Poke, idling, bus
  <2> QED BY <2>1, <2>2, <2>3, BusSame DEF RealtimeInv, Typed, Bus
<1> QED BY <1>2, <1>3

LEMMA IdleStep ==
    ASSUME RealtimeInv, NEW i \in Idles, IdleTask(i) \/ IdleBreaks(i)
    PROVE  RealtimeInv'
<1>1. i \in Callers
  BY DEF Callers
<1>2. CASE Listen(i)
  <2>1. IdleType'
    BY <1>2 DEF RealtimeInv, Typed, IdleType, Listen
  <2>2. CountType' /\ WorkType' /\ MapType' /\ PageType' /\ UNCHANGED bus
    BY <1>2 DEF RealtimeInv, Typed, CountType, WorkType, MapType, PageType, Listen, work,
       maps, bus
  <2> QED BY <2>1, <2>2, BusSame DEF RealtimeInv, Typed, Bus
<1>3. CASE NewData(i)
  <2>1. MapType' /\ WorkType' /\ CountType'
    BY <1>1, <1>3, EnsureKeeps DEF RealtimeInv, Typed, NewData
  <2>2. IdleType' /\ PageType' /\ UNCHANGED bus
    BY <1>3 DEF RealtimeInv, Typed, IdleType, PageType, NewData, bus
  <2> QED BY <2>1, <2>2, BusSame DEF RealtimeInv, Typed, Bus
<1>4. CASE IdleRing(i)
  <2>1. WorkType'
    BY <1>4, RingKeeps DEF RealtimeInv, Typed, IdleRing
  <2>2. MapType' /\ IdleType'
    BY <1>4 DEF RealtimeInv, Typed, MapType, IdleType, IdleRing, Return, NoCall
  <2>3. CountType' /\ PageType' /\ UNCHANGED bus
    BY <1>4 DEF RealtimeInv, Typed, CountType, PageType, IdleRing, bus
  <2> QED BY <2>1, <2>2, <2>3, BusSame DEF RealtimeInv, Typed, Bus
<1>5. CASE IdleBreaks(i)
  <2>1. CountType'
    BY <1>5, CountKept DEF RealtimeInv, Typed, IdleBreaks
  <2>2. IdleType'
    BY <1>5 DEF RealtimeInv, Typed, IdleType, IdleBreaks
  <2>3. WorkType' /\ MapType' /\ PageType' /\ UNCHANGED bus
    BY <1>5 DEF RealtimeInv, Typed, WorkType, MapType, PageType, IdleBreaks, work, maps, bus
  <2> QED BY <2>1, <2>2, <2>3, BusSame DEF RealtimeInv, Typed, Bus
<1> QED BY <1>2, <1>3, <1>4, <1>5 DEF IdleTask

-----------------------------------------------------------------------------
(* The pages                                                               *)

\* A page goes to a place that pages have.
LEMMA PlaceKept ==
    ASSUME PageType, NEW p \in Pages, NEW l \in Places, To(p, l), UNCHANGED bellOf
    PROVE  PageType'
  BY DEF PageType, To

LEMMA AfterIsPlace ==
    \A p \in Pages : \A step \in {"subscribe", "idle", "ensure"} : After(p, step) \in Places
  BY DEF After, Places

LEMMA OpenStep ==
    ASSUME RealtimeInv, NEW p \in Pages, Open(p)
    PROVE  RealtimeInv'
<1>1. PageType'
  BY PlaceKept DEF RealtimeInv, Typed, Open, Places
<1>2. CountType'
  BY CountKept DEF RealtimeInv, Typed, Open, PageFrame
<1>3. WorkType' /\ MapType' /\ IdleType' /\ UNCHANGED bus
  BY DEF RealtimeInv, Typed, CountType, WorkType, MapType, IdleType, Open, PageFrame, maps,
     idling, bus
<1> QED BY <1>1, <1>2, <1>3, BusSame DEF RealtimeInv, Typed, Bus

LEMMA StartStep ==
    ASSUME RealtimeInv, NEW p \in Pages, Start(p)
    PROVE  RealtimeInv'
<1>1. CASE Subscribe(p)
  <2>1. PageType'
    BY <1>1, PlaceKept, AfterIsPlace DEF RealtimeInv, Typed, Subscribe
  <2>2. CountType' /\ WorkType' /\ MapType' /\ IdleType'
    BY <1>1 DEF RealtimeInv, Typed, CountType, WorkType, MapType, IdleType, Subscribe,
       PageFrame, maps, idling
  <2> QED BY <1>1, <2>1, <2>2, SubscribeKeeps DEF RealtimeInv, Typed, Bus
<1>2. CASE IdleCheck(p)
  <2>1. PageType'
    BY <1>2, PlaceKept, AfterIsPlace DEF RealtimeInv, Typed, IdleCheck, Places
  <2>2. CountType' /\ WorkType' /\ MapType' /\ IdleType' /\ UNCHANGED bus
    BY <1>2 DEF RealtimeInv, Typed, CountType, WorkType, MapType, IdleType, IdleCheck,
       PageFrame, maps, idling, bus
  <2> QED BY <2>1, <2>2, BusSame DEF RealtimeInv, Typed, Bus
<1>3. CASE IdleInsert(p)
  <2>1. PageType'
    BY <1>3, PlaceKept, AfterIsPlace DEF RealtimeInv, Typed, IdleInsert
  <2>2. IdleType'
    <3> DEFINE i == CHOOSE i \in Idles : idle[i] = "none"
    <3>1. i \in Idles /\ idleMap' = i /\ idle' = [idle EXCEPT ![i] = "away"]
      BY <1>3 DEF IdleInsert
    <3> HIDE DEF i
    <3> QED BY <3>1 DEF RealtimeInv, Typed, IdleType
  <2>3. CountType' /\ WorkType' /\ MapType' /\ UNCHANGED bus
    BY <1>3 DEF RealtimeInv, Typed, CountType, WorkType, MapType, IdleInsert, PageFrame,
       maps, bus
  <2> QED BY <2>1, <2>2, <2>3, BusSame DEF RealtimeInv, Typed, Bus
<1>4. CASE Ensure(p)
  <2>1. p \in Callers
    BY DEF Callers
  <2>2. MapType' /\ WorkType' /\ CountType'
    BY <1>4, <2>1, EnsureKeeps DEF RealtimeInv, Typed, Ensure
  <2>3. IdleType' /\ PageType' /\ UNCHANGED bus
    BY <1>4 DEF RealtimeInv, Typed, IdleType, PageType, Ensure, idling, bus
  <2> QED BY <2>2, <2>3, BusSame DEF RealtimeInv, Typed, Bus
<1>5. CASE Ensured(p)
  <2>1. MapType'
    BY <1>5 DEF RealtimeInv, Typed, MapType, Ensured, Return, NoCall
  <2>2. PageType'
    <3>1. call[p].w \in Workers \cup {None}
      BY DEF RealtimeInv, Typed, MapType, Callers
    <3>2. bellOf' \in [Conns -> Workers \cup {None}]
      BY <1>5, <3>1 DEF RealtimeInv, Typed, PageType, Ensured
    <3>3. After(p, "ensure") \in Places
      BY AfterIsPlace
    <3>4. pc' = [pc EXCEPT ![p] = After(p, "ensure")]
      BY <1>5 DEF Ensured, To
    <3> QED BY <3>2, <3>3, <3>4 DEF RealtimeInv, Typed, PageType
  <2>3. CountType' /\ WorkType' /\ IdleType' /\ UNCHANGED bus
    BY <1>5 DEF RealtimeInv, Typed, CountType, WorkType, IdleType, Ensured, PageFrame,
       idling, bus
  <2> QED BY <2>1, <2>2, <2>3, BusSame DEF RealtimeInv, Typed, Bus
<1> QED BY <1>1, <1>2, <1>3, <1>4, <1>5 DEF Start

LEMMA ForwardStep ==
    ASSUME RealtimeInv, NEW p \in Pages, Forward(p)
    PROVE  RealtimeInv'
<1>1. CountType' /\ WorkType' /\ MapType' /\ IdleType' /\ PageType'
  BY DEF RealtimeInv, Typed, CountType, WorkType, MapType, IdleType, PageType, Forward,
     PageFrame, maps, idling
<1> QED BY <1>1, ForwardKeeps DEF RealtimeInv, Typed, Bus

LEMMA SocketStep ==
    ASSUME RealtimeInv, NEW c \in Conns,
           Tick(c) \/ Disconnect(c) \/ Close(c) \/ ForwarderGone(c)
    PROVE  RealtimeInv'
<1>1. c \in Pages
  BY DEF Pages
<1>2. CASE Tick(c)
  <2>1. WorkType'
    BY <1>2, RingKeeps DEF RealtimeInv, Typed, Tick, PageFrame
  <2>2. CountType' /\ MapType' /\ IdleType' /\ PageType' /\ UNCHANGED bus
    BY <1>2 DEF RealtimeInv, Typed, CountType, MapType, IdleType, PageType, Tick, PageFrame,
       maps, idling, bus
  <2> QED BY <2>1, <2>2, BusSame DEF RealtimeInv, Typed, Bus
<1>3. CASE Disconnect(c)
  <2>1. PageType'
    BY <1>1, <1>3 DEF RealtimeInv, Typed, PageType, Disconnect, To, Places
  <2>2. CountType' /\ WorkType' /\ MapType' /\ IdleType' /\ UNCHANGED bus
    BY <1>3 DEF RealtimeInv, Typed, CountType, WorkType, MapType, IdleType, Disconnect,
       PageFrame, maps, idling, bus
  <2> QED BY <2>1, <2>2, BusSame DEF RealtimeInv, Typed, Bus
<1>4. CASE StopAll(c)
  <2>1. PageType'
    BY <1>1, <1>4, PlaceKept DEF RealtimeInv, Typed, StopAll, Places
  <2>2. IdleType'
    BY <1>4 DEF RealtimeInv, Typed, IdleType, StopAll
  <2>3. CountType' /\ WorkType' /\ MapType' /\ UNCHANGED bus
    BY <1>4 DEF RealtimeInv, Typed, CountType, WorkType, MapType, StopAll, PageFrame, maps,
       bus
  <2> QED BY <2>1, <2>2, <2>3, BusSame DEF RealtimeInv, Typed, Bus
<1>5. CASE Cleanup(c)
  <2>1. PageType'
    BY <1>1, <1>5, PlaceKept DEF RealtimeInv, Typed, Cleanup, Places
  <2>2. CountType' /\ WorkType' /\ MapType' /\ IdleType'
    BY <1>5 DEF RealtimeInv, Typed, CountType, WorkType, MapType, IdleType, Cleanup,
       PageFrame, maps, idling
  <2> QED BY <1>5, <2>1, <2>2, CleanupKeeps DEF RealtimeInv, Typed, Bus
<1>6. CASE ForwarderGone(c)
  <2>1. CountType' /\ WorkType' /\ MapType' /\ IdleType' /\ PageType'
    BY <1>6 DEF RealtimeInv, Typed, CountType, WorkType, MapType, IdleType, PageType,
       ForwarderGone, PageFrame, maps, idling
  <2> QED BY <1>6, <2>1, GoneKeeps DEF RealtimeInv, Typed, Bus
<1> QED BY <1>2, <1>3, <1>4, <1>5, <1>6 DEF Close

-----------------------------------------------------------------------------
(* The theorems                                                            *)

LEMMA InitHolds == Init => RealtimeInv
<1> SUFFICES ASSUME Init PROVE RealtimeInv
  OBVIOUS
<1>1. CountType /\ WorkType /\ MapType /\ IdleType /\ PageType
  BY RealtimeAssumption DEF Init, CountType, WorkType, MapType, IdleType, PageType, BudgetSet,
     Changes, NoCall, Places
<1>2. \A p \in Pages : rcv[p] = NoReceiver
  BY DEF Init
<1>3. NoReceiver.ch = None /\ Len(NoReceiver.q) = 0
  BY DEF NoReceiver
<1>4. BusType
  BY <1>2, <1>3, NoReceiverType, RealtimeAssumption DEF Init, BusType, Changes
<1>5. ChannelShared /\ LastKept
  BY <1>2, <1>3 DEF ChannelShared, LastKept
<1> QED BY <1>1, <1>4, <1>5 DEF RealtimeInv, Typed

LEMMA NextHolds == RealtimeInv /\ [Next]_vars => RealtimeInv'
<1> SUFFICES ASSUME RealtimeInv, [Next]_vars PROVE RealtimeInv'
  OBVIOUS
<1>1. CASE Next
  BY <1>1, ChangeStep, InvalidateStep, SpawnStep, WorkStep, ViewStep, IdleStep, OpenStep, StartStep,
     ForwardStep, SocketStep DEF Next
<1>2. CASE UNCHANGED vars
  <2>1. CountType' /\ WorkType' /\ MapType' /\ IdleType' /\ PageType' /\ UNCHANGED bus
    BY <1>2 DEF vars, work, maps, idling, bus, RealtimeInv, Typed, CountType, WorkType,
       MapType, IdleType, PageType
  <2> QED BY <2>1, BusSame DEF RealtimeInv, Typed, Bus
<1> QED BY <1>1, <1>2

\* What list_messages compares: nothing but the server changes EXISTS.
ViewType == exists \in [0..MaxChanges -> Counts] /\ stale \in BOOLEAN

LEMMA ViewKept == ViewType /\ [Next]_vars => ViewType'
<1> SUFFICES ASSUME ViewType, [Next]_vars PROVE ViewType'
  OBVIOUS
<1>1. CASE Change
  BY <1>1 DEF ViewType, Change
<1>2. CASE ~Change
  <2>1. CASE \E w \in Workers : Work(w)
    BY <2>1 DEF ViewType, Work, SyncStart, SyncEnd, AlmostOver, IdleExit
  <2>2. CASE Invalidate \/ Look \/ Poke \/ \E k \in Callers : SpawnWorker(k)
    BY <2>2 DEF ViewType, Invalidate, Look, Poke, SpawnWorker
  <2>3. CASE \E i \in Idles : IdleTask(i) \/ IdleBreaks(i)
    BY <2>3 DEF ViewType, IdleTask, Listen, NewData, IdleRing, IdleBreaks
  <2>4. CASE \E p \in Pages : Open(p) \/ Start(p) \/ Forward(p)
    BY <2>4 DEF ViewType, Open, Start, Subscribe, IdleCheck, IdleInsert, Ensure, Ensured,
       Forward, PageFrame
  <2>5. CASE \E c \in Conns : Tick(c) \/ Disconnect(c) \/ Close(c) \/ ForwarderGone(c)
    BY <2>5 DEF ViewType, Tick, Disconnect, Close, StopAll, Cleanup, ForwarderGone, PageFrame
  <2>6. CASE UNCHANGED vars
    BY <2>6 DEF ViewType, vars
  <2>7. ~Next => UNCHANGED vars
    OBVIOUS
  <2> QED BY <1>2, <2>1, <2>2, <2>3, <2>4, <2>5, <2>6, <2>7 DEF Next
<1> QED BY <1>1, <1>2

LEMMA RealtimeInvariant == Spec => []RealtimeInv
  BY InitHolds, NextHolds, PTL DEF Spec

LEMMA TypedIsTypeOK == RealtimeInv /\ ViewType => TypeOK
<1> SUFFICES ASSUME RealtimeInv, ViewType PROVE TypeOK
  OBVIOUS
<1>1. ver \in Nat /\ left \in BudgetSet /\ left.change \in Nat /\ ver + left.change <= MaxChanges
      /\ MaxChanges \in Nat
  BY RealtimeAssumption DEF RealtimeInv, Typed, CountType, BudgetSet, Changes
<1>2. ver \in 0..MaxChanges
  BY <1>1
<1>3. base \in [Workers -> 0..MaxChanges]
  <2>1. \A w \in Workers : base[w] \in 0..MaxChanges
    BY <1>1, <1>2 DEF RealtimeInv, Typed, WorkType
  <2> QED BY <2>1 DEF RealtimeInv, Typed, WorkType
<1>4. \A p \in Pages : /\ rcv[p].ch \in Channels \cup {None}
                       /\ Len(rcv[p].q) <= Capacity
                       /\ got[p] \in 0..MaxChanges
  BY DEF RealtimeInv, Typed, BusType, Receivers, Changes
<1> QED BY <1>2, <1>3, <1>4 DEF RealtimeInv, Typed, CountType, WorkType, MapType, IdleType,
        PageType, BusType, ViewType, Places, BudgetSet, Changes, TypeOK

(***************************************************************************)
(* Every variable of the workers, IDLE tasks, pages and the bus has the    *)
(* values the code gives it, and no queue outgrows the broadcast channel.  *)
(***************************************************************************)
THEOREM RealtimeTypeCorrect == Spec => []TypeOK
<1>1. Init => ViewType
  <2>1. 1 \in Counts
    BY DEF Counts
  <2>2. Init => exists = [v \in 0..MaxChanges |-> 1] /\ stale = FALSE
    BY DEF Init
  <2> QED BY <2>1, <2>2 DEF ViewType
<1> QED BY <1>1, ViewKept, RealtimeInvariant, TypedIsTypeOK, PTL DEF Spec

(***************************************************************************)
(* EventBus::subscribe and cleanup: whoever listens listens to the channel *)
(* that is published to, however lookups, subscriptions, closing sockets   *)
(* and forwarders that end late are interleaved.                           *)
(***************************************************************************)
THEOREM ChannelStaysShared == Spec => []ChannelShared
<1>1. RealtimeInv => ChannelShared
  BY DEF RealtimeInv
<1> QED BY <1>1, RealtimeInvariant, PTL

(***************************************************************************)
(* A broadcast channel drops the oldest event of a receiver that is full:  *)
(* whatever a page misses, the last event waits for it or was given to it. *)
(***************************************************************************)
THEOREM LastEventKept == Spec => []LastKept
<1>1. RealtimeInv => LastKept
  BY DEF RealtimeInv
<1> QED BY <1>1, RealtimeInvariant, PTL
=============================================================================
