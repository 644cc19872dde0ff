------------------------- MODULE CronDeliveryProofs -------------------------
(* Proofs about CronDelivery, for every set of messages, runs and routes   *)
(* and every bound.                                                        *)
EXTENDS CronDelivery, FiniteSetTheorems, TLAPS

USE DeliveryAssumption

Types ==
    /\ bus \in Seq(Copies) /\ (hand = Idle \/ hand.copy \in Copies)
    /\ stage \in [Copies -> Stages] /\ result \in [Copies -> Results]
    /\ tries \in [Copies -> Nat] /\ tasks \subseteq Copies
    /\ asked \in Range(Alternatives) \cup {Nothing} /\ reached \subseteq Copies

(* A copy is in the bus once, and then it is nowhere else.                 *)
BusHolds ==
    /\ \A i \in DOMAIN bus : stage[bus[i]] = "bus"
    /\ \A i, j \in DOMAIN bus : bus[i] = bus[j] => i = j

TasksWork == \A c \in tasks : stage[c] \in Waiting \cup {"reports", "asks"}

(* One report holds the lock, and only of a refusal.                       *)
OneAsks ==
    \A c \in Copies : stage[c] = "asks" =>
        /\ asked # Nothing /\ result[c] = "unavailable"
        /\ \A d \in Copies : stage[d] = "asks" => d = c

Open(c) == stage[c] \notin {"none", "over"}

(* While a copy is open or put off, no other copy of its message is, and   *)
(* none has arrived.                                                       *)
Alone ==
    \A c, d \in Copies : Msg(c) = Msg(d) /\ c # d /\ Open(c) => ~Open(d) /\ d \notin reached

(* What may have arrived is being tried again, or is not reported refused. *)
Arrived(c) ==
    \/ stage[c] \in {"sending", "backoff"} /\ tries[c] > 0
    \/ stage[c] \in {"reports", "over"} /\ result[c] \in {"delivered", "unknown"}
ArrivedHold == \A c \in reached : Arrived(c)

(* A message starts on the route of its job.                               *)
Begun == \A c \in Copies : stage[c] # "none" => stage[<<Msg(c), Origin>>] # "none"

IInv ==
    /\ Begun /\ Types /\ BusHolds /\ TasksWork /\ OneAsks /\ Alone /\ ArrivedHold /\ OneRoute

-----------------------------------------------------------------------------
LEMMA TailHolds ==
    ASSUME NEW S, NEW q \in Seq(S), q # <<>>,
           \A i, j \in DOMAIN q : q[i] = q[j] => i = j
    PROVE  /\ Head(q) \in S /\ Tail(q) \in Seq(S) /\ 1 \in DOMAIN q /\ Head(q) = q[1]
           /\ \A i \in DOMAIN Tail(q) :
                  i \in Nat /\ i + 1 \in DOMAIN q /\ Tail(q)[i] = q[i + 1] /\ Tail(q)[i] # Head(q)
<1>1. /\ Head(q) = q[1] /\ 1 \in DOMAIN q /\ Tail(q) \in Seq(S) /\ Head(q) \in S
  OBVIOUS
<1>2. \A i \in DOMAIN Tail(q) : i \in Nat /\ i # 0 /\ i + 1 \in DOMAIN q /\ Tail(q)[i] = q[i + 1]
  OBVIOUS
<1> QED BY <1>1, <1>2

LEMMA AppendHolds ==
    ASSUME NEW S, NEW q \in Seq(S), NEW m \in S
    PROVE  /\ Append(q, m) \in Seq(S)
           /\ \A i \in DOMAIN Append(q, m) :
                 \/ i \in DOMAIN q /\ Append(q, m)[i] = q[i]
                 \/ i = Len(q) + 1 /\ Append(q, m)[i] = m
OBVIOUS

LEMMA CopyTypes ==
    /\ \A r \in Range(Alternatives) : r \in Routes /\ r # Nothing /\ r # Origin
    /\ \A c \in Copies : Msg(c) \in Msgs /\ Route(c) \in Routes /\ Run(c) \in Runs
    /\ \A c \in Copies, r \in Routes : <<Msg(c), r>> \in Copies /\ Msg(<<Msg(c), r>>) = Msg(c)
    /\ \A m \in Msgs : <<m, Origin>> \in Copies /\ Msg(<<m, Origin>>) = m
    /\ Origin \in Routes
BY DEF Copies, Msg, Route, Run, Routes

-----------------------------------------------------------------------------
(* A step that moves one copy which is open already.                       *)
Shift(c, to) ==
    /\ stage' = [stage EXCEPT ![c] = to]
    /\ \/ bus' = bus /\ stage[c] # "bus"
       \/ bus # <<>> /\ c = Head(bus) /\ bus' = Tail(bus)
    /\ result' \in [Copies -> Results] /\ tries' \in [Copies -> Nat]
    /\ \A d \in Copies \ {c} : result'[d] = result[d] /\ tries'[d] = tries[d]
    /\ tasks' \subseteq tasks \cup {c}
    /\ reached' \subseteq reached \cup {c}

LEMMA Shifts ==
    ASSUME IInv, NEW c \in Copies, Open(c),
           NEW to \in Stages \ {"none", "bus", "parked", "asks"}, Shift(c, to),
           hand' = Idle \/ hand'.copy \in Copies,
           asked' = asked, stage[c] # "asks",
           c \in tasks' => to \in Waiting \cup {"reports"},
           c \in reached' => Arrived(c)'
    PROVE  IInv'
<1> USE DEF IInv, Types, Shift
<1>1. stage' \in [Copies -> Stages] /\ stage'[c] = to /\ \A d \in Copies \ {c} : stage'[d] = stage[d]
  OBVIOUS
<1>2. bus' \in Seq(Copies) /\ BusHolds'
  <2>1. CASE bus' = bus /\ stage[c] # "bus"
    <3>1. \A i \in DOMAIN bus : bus[i] \in Copies
      OBVIOUS
    <3> QED BY <2>1, <3>1, <1>1 DEF BusHolds
  <2>2. CASE bus # <<>> /\ c = Head(bus) /\ bus' = Tail(bus)
    <3>1. \A i \in DOMAIN bus : bus[i] \in Copies
      OBVIOUS
    <3>2. /\ Tail(bus) \in Seq(Copies) /\ 1 \in DOMAIN bus /\ c = bus[1]
          /\ \A i \in DOMAIN Tail(bus) :
                 i \in Nat /\ i + 1 \in DOMAIN bus /\ Tail(bus)[i] = bus[i + 1] /\ Tail(bus)[i] # c
      <4>1. bus \in Seq(Copies) /\ bus # <<>> /\ \A i, j \in DOMAIN bus : bus[i] = bus[j] => i = j
        BY <2>2 DEF BusHolds
      <4> QED BY <2>2, <4>1, TailHolds
    <3>3. stage'[c] = to /\ \A i \in DOMAIN bus' : bus'[i] \in Copies \ {c} /\ stage[bus'[i]] = "bus"
      BY <2>2, <3>1, <3>2, <1>1 DEF BusHolds
    <3>4. \A i, j \in DOMAIN bus' : bus'[i] = bus'[j] => i = j
      BY <2>2, <3>2 DEF BusHolds
    <3> QED BY <2>2, <3>2, <3>3, <3>4, <1>1 DEF BusHolds
  <2> QED BY <2>1, <2>2
<1>3. Types'
  BY <1>1, <1>2
<1>4. TasksWork'
  BY <1>1 DEF TasksWork
<1>5. OneAsks'
  BY <1>1 DEF OneAsks
<1>6. Alone'
  BY <1>1 DEF Alone, Open
<1>7. ArrivedHold'
  BY <1>1 DEF ArrivedHold, Arrived
<1>8. OneRoute'
  BY ZenonT(60) DEF OneRoute, Alone
<1>9. Begun'
  BY <1>1, CopyTypes DEF Begun, Open
<1> QED BY <1>9, <1>2, <1>3, <1>4, <1>5, <1>6, <1>7, <1>8

-----------------------------------------------------------------------------
LEMMA QueuesShift ==
    ASSUME IInv, NEW c \in Copies, NEW o, stage[c] \in {"bus", "hand"}, Queues(c, o),
           \/ bus' = bus /\ stage[c] = "hand"
           \/ bus # <<>> /\ c = Head(bus) /\ bus' = Tail(bus),
           UNCHANGED <<tries, reached, asked>>
    PROVE  IInv'
<1>1. c \notin reached
  BY DEF IInv, ArrivedHold, Arrived
<1>2. CASE channel[Route(c)] = "up" /\ object[Route(c)] = o
  <2>1. Shift(c, "made")
    BY <1>2 DEF IInv, Types, Queues, Shift
  <2> QED BY <1>1, <1>2, <2>1, Shifts DEF IInv, Types, Queues, Open, Stages, Waiting
<1>3. CASE ~(channel[Route(c)] = "up" /\ object[Route(c)] = o)
  <2>1. Shift(c, "reports")
    BY <1>3 DEF IInv, Types, Queues, Comes, Shift, Results
  <2>2. hand'.copy = c
    BY <1>3 DEF Queues
  <2> QED BY <1>1, <1>3, <2>1, <2>2, Shifts DEF IInv, Types, Open, Stages, Waiting
<1> QED BY <1>2, <1>3

LEMMA TakesKeeps == ASSUME IInv, Takes PROVE IInv'
<1> DEFINE c == Head(bus)
<1>1. c \in Copies /\ bus # <<>> /\ bus' = Tail(bus) /\ stage[c] = "bus" /\ c \notin reached
  <2>1. bus # <<>> /\ bus' = Tail(bus) /\ bus \in Seq(Copies)
    BY DEF IInv, Types, Takes
  <2>2. c \in Copies /\ 1 \in DOMAIN bus /\ c = bus[1]
    BY <2>1
  <2> QED BY <2>1, <2>2 DEF IInv, Types, BusHolds, ArrivedHold, Arrived
<1>2. UNCHANGED <<tries, reached, asked>>
  BY DEF Takes, observer, history
<1>3. CASE channel[Route(c)] # "off" /\ Queues(c, object[Route(c)])
  BY <1>1, <1>2, <1>3, QueuesShift
<1>4. CASE Comes(c, "unavailable") /\ hand' = [copy |-> c, object |-> object[Route(c)]]
           /\ UNCHANGED <<tasks, tail, previous>>
  <2>1. Shift(c, "reports")
    BY <1>1, <1>2, <1>4 DEF IInv, Types, Comes, Shift, Results
  <2>2. hand'.copy = c
    BY <1>4
  <2> QED BY <1>1, <1>2, <2>1, <2>2, Shifts DEF Open, Stages, Waiting
<1>5. CASE stage' = [stage EXCEPT ![c] = "hand"] /\ hand' = [copy |-> c, object |-> object[Route(c)]]
           /\ UNCHANGED <<tasks, tail, previous, result>>
  <2>1. Shift(c, "hand")
    BY <1>1, <1>2, <1>5 DEF IInv, Types, Shift
  <2>2. hand'.copy = c /\ c \notin tasks'
    BY <1>1, <1>5 DEF IInv, TasksWork, Waiting
  <2> QED BY <1>1, <1>2, <2>1, <2>2, Shifts DEF Open, Stages, Waiting
<1> QED BY <1>3, <1>4, <1>5 DEF Takes

LEMMA GetsSlotKeeps == ASSUME IInv, GetsSlot PROVE IInv'
<1>1. hand.copy \in Copies
  BY DEF IInv, Types, GetsSlot
<1> QED BY <1>1, QueuesShift DEF GetsSlot, queue, observer, history

LEMMA SendsKeep == ASSUME IInv, NEW c \in Copies, Sends(c) PROVE IInv'
<1> USE DEF IInv, Types, queue, manager, observer, history, Waiting, Stages, Results
<1>1. CASE TaskBegins(c)
  <2>1. Shift(c, "behind") /\ (c \in reached' => Arrived(c)')
    BY <1>1 DEF TaskBegins, Shift, ArrivedHold, Arrived
  <2> QED BY <1>1, <2>1, Shifts DEF TaskBegins, Open
<1>2. CASE Attempts(c)
  <2>1. Shift(c, "sending") /\ (c \in reached' => Arrived(c)')
    BY <1>2 DEF Attempts, NextInLine, Shift, ArrivedHold, Arrived
  <2> QED BY <1>2, <2>1, Shifts DEF Attempts, NextInLine, Open
<1>3. CASE Delivered(c)
  <2>1. Shift(c, "reports") /\ (c \in reached' => Arrived(c)')
    BY <1>3 DEF Delivered, Comes, Shift, Arrived
  <2> QED BY <1>3, <2>1, Shifts DEF Delivered, Open
<1>4. CASE Rejected(c)
  <2>1. /\ stage[c] = "sending" /\ stage'[c] = "reports" /\ result'[c] = Refusal(c)
        /\ UNCHANGED <<bus, tasks, tries, reached>>
    BY <1>4 DEF Rejected, Comes
  <2>2. Shift(c, "reports")
    BY <1>4, <2>1 DEF Rejected, Refusal, Comes, Shift
  <2>3. c \in reached' => Arrived(c)'
    BY <2>1 DEF Refusal, ArrivedHold, Arrived
  <2> QED BY <1>4, <2>1, <2>2, <2>3, Shifts DEF Rejected, Open
<1>5. CASE Breaks(c)
  <2>1. tries' \in [Copies -> Nat] /\ tries'[c] > 0 /\ stage[c] = "sending"
    BY <1>5 DEF Breaks
  <2>2. CASE Comes(c, "unknown")
    <3>1. Shift(c, "reports") /\ (c \in reached' => Arrived(c)')
      BY <1>5, <2>1, <2>2 DEF Breaks, Comes, Shift, Arrived
    <3> QED BY <1>5, <2>1, <3>1, Shifts DEF Breaks, Open
  <2>3. CASE stage' = [stage EXCEPT ![c] = "backoff"] /\ UNCHANGED result
    <3>1. Shift(c, "backoff") /\ (c \in reached' => Arrived(c)')
      BY <1>5, <2>1, <2>3 DEF Breaks, Shift, Arrived
    <3> QED BY <1>5, <2>1, <3>1, Shifts DEF Breaks, Open
  <2> QED BY <1>5, <2>2, <2>3 DEF Breaks
<1> QED BY <1>1, <1>2, <1>3, <1>4, <1>5 DEF Sends

-----------------------------------------------------------------------------
(* The observer.                                                           *)
LEMMA ReportEnds ==
    ASSUME IInv, NEW c \in Copies, stage[c] = "reports",
           stage' = [stage EXCEPT ![c] = "over"], Leaves(c),
           UNCHANGED <<bus, result, tries, asked, reached>>
    PROVE  IInv'
<1>1. Shift(c, "over") /\ (c \in reached' => Arrived(c)')
  BY DEF IInv, Types, Leaves, Shift, ArrivedHold, Arrived
<1>2. c \notin tasks' /\ (hand' = Idle \/ hand'.copy \in Copies)
  BY DEF IInv, Types, Leaves
<1> QED BY <1>1, <1>2, Shifts DEF Open, Stages, Waiting

LEMMA FallsBackKeeps == ASSUME IInv, NEW c \in Copies, FallsBack(c) PROVE IInv'
<1> USE DEF IInv, Types, FallsBack, queue, manager, history
<1>1. /\ stage' \in [Copies -> Stages] /\ stage'[c] = "asks"
      /\ \A d \in Copies \ {c} : stage'[d] = stage[d]
      /\ asked = Nothing /\ asked' \in Range(Alternatives) /\ asked' # Nothing
      /\ \A d \in Copies : stage[d] # "asks"
      /\ stage[c] = "reports" /\ result[c] = "unavailable" /\ c \notin reached
  <2>1. PICK i \in DOMAIN Alternatives : asked' = Alternatives[i]
    BY DEF Spots
  <2>2. asked' \in Range(Alternatives)
    BY <2>1 DEF Range
  <2> QED BY <2>2, CopyTypes DEF Stages, Locked, OneAsks, ArrivedHold, Arrived
<1>2. UNCHANGED <<bus, hand, tasks, result, tries, reached>>
  OBVIOUS
<1>3. Types' /\ TasksWork' /\ OneAsks' /\ OneRoute'
  BY <1>1, <1>2 DEF TasksWork, OneAsks, OneRoute
<1>4. BusHolds'
  <2>1. \A i \in DOMAIN bus : bus[i] \in Copies
    OBVIOUS
  <2> QED BY <1>1, <1>2, <2>1 DEF BusHolds
<1>5. Alone' /\ ArrivedHold'
  BY <1>1, <1>2 DEF Alone, Open, ArrivedHold, Arrived
<1>6. Begun'
  BY <1>1, CopyTypes DEF Begun
<1> QED BY <1>3, <1>4, <1>5, <1>6

(* A copy of the message of c goes to a place where it is not being sent   *)
(* yet, and c is over.                                                     *)
LEMMA Replaces ==
    ASSUME IInv, NEW c \in Copies, stage[c] = "asks", NEW d \in Copies, Msg(d) = Msg(c),
           d # <<Msg(c), Origin>>, NEW to \in {"none", "parked", "bus"},
           stage' = [stage EXCEPT ![c] = "over", ![d] = to], Leaves(c), asked' = Nothing,
           bus' = IF to = "bus" THEN Append(bus, d) ELSE bus,
           UNCHANGED <<result, tries, reached>>
    PROVE  IInv'
<1> USE DEF IInv, Types
<1>1. /\ stage' \in [Copies -> Stages] /\ stage'[d] = to /\ (c # d => stage'[c] = "over")
      /\ \A e \in Copies \ {c, d} : stage'[e] = stage[e]
  BY DEF Stages
<1>2. c \notin reached /\ d \notin reached /\ (d # c => stage[d] \in {"none", "over"})
  BY DEF ArrivedHold, Arrived, OneAsks, Alone, Open
<1>3. /\ tasks' = tasks \ {c} /\ (hand' = Idle \/ hand'.copy \in Copies)
      /\ \A i \in DOMAIN bus : bus[i] \in Copies /\ bus[i] # c /\ bus[i] # d
  <2>1. \A i \in DOMAIN bus : bus[i] \in Copies
    OBVIOUS
  <2> QED BY <1>2, <2>1 DEF Leaves, BusHolds
<1>4. bus' \in Seq(Copies) /\ BusHolds'
  <2>1. CASE to = "bus"
    BY <1>1, <1>3, <2>1, AppendHolds DEF BusHolds
  <2>2. CASE to # "bus"
    BY <1>1, <1>3, <2>2 DEF BusHolds
  <2> QED BY <2>1, <2>2
<1>5. Types' /\ OneRoute'
  BY <1>1, <1>3, <1>4 DEF OneRoute
<1>6. TasksWork' /\ OneAsks'
  <2>1. d # c => d \notin tasks
    BY <1>2 DEF TasksWork, Waiting
  <2>2. TasksWork'
    BY <1>1, <1>3, <2>1 DEF TasksWork
  <2>3. \A e \in Copies : stage'[e] # "asks"
    BY <1>1 DEF OneAsks
  <2> QED BY <2>2, <2>3 DEF OneAsks
<1>7. Alone'
  BY <1>1, <1>2 DEF Alone, Open
<1>8. ArrivedHold'
  BY <1>1, <1>2 DEF ArrivedHold, Arrived
<1>9. Begun'
  <2> SUFFICES ASSUME NEW e \in Copies, stage'[e] # "none" PROVE stage'[<<Msg(e), Origin>>] # "none"
    BY DEF Begun
  <2>1. <<Msg(e), Origin>> \in Copies /\ (Msg(e) = Msg(c) => <<Msg(e), Origin>> # d)
    BY CopyTypes
  <2>2. <<Msg(e), Origin>> # d
    BY <2>1, CopyTypes
  <2>3. stage[<<Msg(e), Origin>>] # "none"
    BY <1>1 DEF Begun
  <2> QED BY <1>1, <2>1, <2>2, <2>3
<1> QED BY <1>9, <1>4, <1>5, <1>6, <1>7, <1>8

LEMMA ObservesKeeps == ASSUME IInv, NEW c \in Copies, Observes(c) PROVE IInv'
<1>1. CASE Ignores(c)
  BY <1>1, ReportEnds DEF Ignores, queue, history
<1>2. CASE Finishes(c)
  BY <1>2, ReportEnds DEF Finishes, queue, history
<1>3. CASE FallsBack(c)
  BY <1>3, FallsBackKeeps
<1> DEFINE d == <<Msg(c), asked>>
<1>4. stage[c] = "asks" => d \in Copies /\ Msg(d) = Msg(c) /\ d # <<Msg(c), Origin>>
  BY CopyTypes DEF IInv, Types, OneAsks
<1>5. CASE Allowed(c)
  <2>1. /\ stage[c] = "asks" /\ stage' = [stage EXCEPT ![c] = "over", ![d] = "bus"]
        /\ Leaves(c) /\ asked' = Nothing /\ bus' = Append(bus, d)
        /\ UNCHANGED <<result, tries, reached>>
    BY <1>5 DEF Allowed, Publishes, history
  <2> QED BY <1>4, <2>1, Replaces
<1>6. CASE Refused(c)
  <2>1. PICK s \in {"none", "parked"} : stage' = [stage EXCEPT ![c] = "over", ![d] = s]
    BY <1>6 DEF Refused
  <2>2. /\ stage[c] = "asks" /\ Leaves(c) /\ asked' = Nothing /\ bus' = bus
        /\ UNCHANGED <<result, tries, reached>>
    BY <1>6 DEF Refused, queue
  <2> QED BY <1>4, <2>1, <2>2, Replaces
<1> QED BY <1>1, <1>2, <1>3, <1>5, <1>6 DEF Observes

-----------------------------------------------------------------------------
(* A copy enters the bus.                                                  *)
LEMMA Enters ==
    ASSUME IInv, NEW c \in Copies, stage[c] \in {"none", "parked"},
           stage[c] = "none" => c = <<Msg(c), Origin>>,
           Publishes(c), stage' = [stage EXCEPT ![c] = "bus"],
           UNCHANGED <<manager, result, tries, asked, reached>>
    PROVE  IInv'
<1> USE DEF IInv, Types, manager
<1>1. /\ stage' \in [Copies -> Stages] /\ stage'[c] = "bus" /\ bus' = Append(bus, c)
      /\ \A e \in Copies \ {c} : stage'[e] = stage[e]
  BY DEF Stages, Publishes
<1>2. \A i \in DOMAIN bus : bus[i] \in Copies /\ bus[i] # c
  <2>1. \A i \in DOMAIN bus : bus[i] \in Copies
    OBVIOUS
  <2> QED BY <2>1 DEF BusHolds
<1>3. bus' \in Seq(Copies) /\ BusHolds'
  BY <1>1, <1>2, AppendHolds DEF BusHolds
<1>4. c \notin reached
  BY DEF ArrivedHold, Arrived
<1>5. \A d \in Copies : Msg(d) = Msg(c) /\ d # c => ~Open(d) /\ d \notin reached
  <2>1. CASE stage[c] = "parked"
    BY <2>1 DEF Alone, Open
  <2>2. CASE stage[c] = "none"
    BY <2>2 DEF Begun, Open, ArrivedHold, Arrived
  <2> QED BY <2>1, <2>2
<1>6. Types' /\ OneRoute' /\ Begun'
  BY <1>1, <1>3, CopyTypes DEF OneRoute, Begun
<1>7. TasksWork' /\ OneAsks'
  BY <1>1 DEF TasksWork, OneAsks, Waiting
<1>8. Alone' /\ ArrivedHold'
  BY <1>1, <1>4, <1>5 DEF Alone, Open, ArrivedHold, Arrived
<1> QED BY <1>3, <1>6, <1>7, <1>8

LEMMA StopKeeps == ASSUME IInv, NEW r \in Routes, StopChannel(r) PROVE IInv'
<1> USE DEF IInv, Types
<1> DEFINE hit == {c \in tasks : Route(c) = r}
<1>1. /\ \A c \in Copies : stage'[c] = IF c \in hit THEN CancelledTo(c) ELSE stage[c]
      /\ \A c \in Copies : result'[c] = IF c \in hit /\ stage[c] \in Waiting THEN "unknown"
                                         ELSE result[c]
      /\ \A c \in hit : stage[c] \in Waiting \cup {"reports", "asks"}
      /\ tasks' = tasks \ {c \in hit : stage[c] \in {"made", "reports", "asks"}}
      /\ reached' = reached \cup {c \in hit : stage[c] = "sending"}
      /\ hit \subseteq Copies /\ UNCHANGED <<bus, hand, tries>>
      /\ asked' = IF \E c \in hit : stage[c] = "asks" THEN Nothing ELSE asked
  BY DEF StopChannel, TasksWork, queue
<1>2. /\ stage' \in [Copies -> Stages] /\ result' \in [Copies -> Results]
  BY DEF StopChannel, CancelledTo, Stages, Results
<1>3. Types'
  BY <1>1, <1>2
<1>9. Begun'
  <2>1. \A c \in Copies : stage'[c] = "none" <=> stage[c] = "none"
    BY <1>1 DEF CancelledTo, Waiting
  <2> QED BY <2>1, CopyTypes DEF Begun
<1>4. BusHolds'
  <2>1. \A i \in DOMAIN bus : bus[i] \in Copies /\ bus[i] \notin hit
    <3>1. \A i \in DOMAIN bus : bus[i] \in Copies
      OBVIOUS
    <3> QED BY <1>1, <3>1 DEF BusHolds, Waiting
  <2> QED BY <1>1, <2>1 DEF BusHolds
<1>5. TasksWork' /\ OneAsks'
  BY <1>1 DEF TasksWork, OneAsks, CancelledTo, Waiting
<1>6. Alone'
  BY <1>1 DEF Alone, Open, CancelledTo, Waiting
<1>7. ArrivedHold'
  BY <1>1 DEF ArrivedHold, Arrived, CancelledTo, Waiting
<1>8. OneRoute'
  BY <1>1 DEF OneRoute, Alone, Open
<1> QED BY <1>3, <1>4, <1>5, <1>6, <1>7, <1>8, <1>9

LEMMA SameKeeps ==
    ASSUME IInv, UNCHANGED <<bus, hand, stage, result, tries, tasks, asked, reached>>
    PROVE  IInv'
BY DEF IInv, Types, BusHolds, TasksWork, OneAsks, Alone, Open, ArrivedHold, Arrived, OneRoute, Begun

THEOREM Inductive == Spec => []IInv
<1>1. Init => IInv
  <2> SUFFICES ASSUME Init PROVE IInv
    OBVIOUS
  <2>1. Types
    BY DEF Init, Types, Stages, Results
  <2> QED BY <2>1, CopyTypes DEF Init, IInv, BusHolds, TasksWork, OneAsks, Alone, Open, ArrivedHold,
                                 OneRoute, Begun
<1>2. IInv /\ [Next]_vars => IInv'
  <2> SUFFICES ASSUME IInv, [Next]_vars PROVE IInv'
    OBVIOUS
  <2>1. CASE \E u \in Runs : Submit(u)
    BY <2>1, SameKeeps DEF Submit, queue, manager, history
  <2>2. CASE \E m \in Msgs : Answer(m)
    <3>1. PICK m \in Msgs : Answer(m)
      BY <2>2
    <3>2. <<m, Origin>> \in Copies /\ Msg(<<m, Origin>>) = m
      BY CopyTypes
    <3> QED BY <3>1, <3>2, Enters DEF Answer, observer, history
  <2>3. CASE Takes
    BY <2>3, TakesKeeps
  <2>4. CASE GetsSlot
    BY <2>4, GetsSlotKeeps
  <2>5. CASE \E c \in Copies : Approved(c)
    BY <2>5, Enters DEF Approved, observer, history
  <2>6. CASE \E c \in Copies : Sends(c)
    BY <2>6, SendsKeep
  <2>7. CASE \E c \in Copies : Observes(c)
    BY <2>7, ObservesKeeps
  <2>8. CASE \E r \in Routes : StopChannel(r)
    BY <2>8, StopKeeps
  <2>9. CASE \E r \in Routes : ChannelStopped(r) \/ StartChannel(r)
    BY <2>9, SameKeeps DEF ChannelStopped, StartChannel, queue, observer, history
  <2>10. CASE UNCHANGED vars
    BY <2>10, SameKeeps DEF vars, queue, manager, observer, history
  <2> QED BY <2>1, <2>2, <2>3, <2>4, <2>5, <2>6, <2>7, <2>8, <2>9, <2>10 DEF Next
<1> QED BY <1>1, <1>2, PTL DEF Spec

(* A message of a scheduled run arrives on one route at most, whatever     *)
(* channels stop, sends break, reports cross and approvers press.          *)
THEOREM ArrivesOnce == Spec => []OneRoute
<1>1. IInv => OneRoute
  BY DEF IInv
<1> QED BY <1>1, Inductive, PTL

-----------------------------------------------------------------------------
(* Why sends keep the order of publication: the bus, the dispatcher's hand *)
(* and the waiting tasks hold the copies of a route from the youngest to   *)
(* the oldest, and each waiting task but the oldest has a waiting one      *)
(* before it.                                                              *)
Waits(c) == stage[c] \in Waiting
Same(c, d) == Route(c) = Route(d)

LineTypes ==
    /\ tail \in [Routes -> Copies \cup {Nothing}]
    /\ previous \in [Copies -> Copies \cup {Nothing}]
    /\ count \in [Routes -> Nat] /\ number \in [Copies -> Nat]

Numbered ==
    /\ \A c \in Copies : number[c] <= count[Route(c)]
    /\ \A c \in Copies : Waits(c) \/ stage[c] \in {"bus", "hand"} => number[c] > 0
    /\ \A c, d \in Copies : Same(c, d) /\ number[c] = number[d] /\ number[c] > 0 => c = d

Places ==
    /\ \A c \in Copies : Waits(c) => c \in tasks
    /\ \A c \in Copies : stage[c] = "hand" => hand.copy = c
    /\ \A c \in Copies : stage[c] = "bus" => \E i \in DOMAIN bus : bus[i] = c

BusOrder ==
    \A i, j \in DOMAIN bus : i < j /\ Same(bus[i], bus[j]) => number[bus[i]] < number[bus[j]]

Ahead ==
    \A c, d \in Copies : Same(c, d) =>
        /\ stage[c] = "bus" /\ (stage[d] = "hand" \/ Waits(d)) => number[d] < number[c]
        /\ stage[c] = "hand" /\ Waits(d) => number[d] < number[c]

Chain ==
    \A c, d \in Copies : Same(c, d) /\ Waits(c) /\ Waits(d) /\ number[c] < number[d] =>
        /\ stage[d] \in {"made", "behind"} /\ previous[d] \in Copies
        /\ Waits(previous[d]) /\ Same(previous[d], d)
        /\ number[c] <= number[previous[d]] /\ number[previous[d]] < number[d]

Tails ==
    \A c \in Copies : Waits(c) =>
        LET t == tail[Route(c)] IN
        t \in Copies /\ Waits(t) /\ Same(c, t) /\ number[c] <= number[t]

Lines == LineTypes /\ Numbered /\ Places /\ BusOrder /\ Ahead /\ Chain /\ Tails

LEMMA LinesInOrder == ASSUME IInv, Lines PROVE InOrder
<1> SUFFICES ASSUME NEW c \in Copies, NEW d \in Copies, Route(c) = Route(d),
                    number[c] < number[d], stage[d] \in {"sending", "backoff"}
             PROVE  stage[c] \notin {"bus", "hand"} \cup Waiting
  BY DEF InOrder
<1>1. number[c] \in Nat /\ number[d] \in Nat /\ Waits(d) /\ Same(c, d)
  BY DEF Lines, LineTypes, Waits, Waiting, Same
<1>2. stage[c] \notin {"bus", "hand"}
  BY <1>1 DEF Lines, Ahead
<1>3. ~Waits(c)
  BY <1>1 DEF Lines, Chain
<1> QED BY <1>2, <1>3 DEF Waits

(* A waiting task gets on.                                                 *)
LEMMA WorksOn ==
    ASSUME IInv, Lines, NEW c \in Copies, Waits(c), NEW to \in Waiting,
           stage' = [stage EXCEPT ![c] = to], UNCHANGED <<queue, manager>>,
           to = "behind" \/ (to \in {"sending", "backoff"} /\
                            (stage[c] \in {"sending", "backoff"} \/ previous[c] = Nothing))
    PROVE  Lines'
<1> USE DEF IInv, Types, Lines, queue, manager, Waiting
<1>1. /\ stage'[c] = to /\ \A d \in Copies \ {c} : stage'[d] = stage[d]
      /\ UNCHANGED <<bus, count, number, hand, tasks, tail, previous>>
      /\ Nothing \notin Copies
  OBVIOUS
<1>2. /\ \A d \in Copies : Waits(d)' <=> Waits(d)
      /\ \A d \in Copies : stage'[d] = "bus" <=> stage[d] = "bus"
      /\ \A d \in Copies : stage'[d] = "hand" <=> stage[d] = "hand"
      /\ \A d, e : Same(d, e)' <=> Same(d, e)
  BY <1>1 DEF Waits, Same
<1>3. LineTypes' /\ Numbered'
  BY <1>1, <1>2 DEF LineTypes, Numbered
<1>4. Places' /\ BusOrder'
  BY <1>1, <1>2 DEF Places, BusOrder
<1>5. Ahead' /\ Tails'
  BY <1>1, <1>2 DEF Ahead, Tails
<1>6. Chain'
  BY <1>1, <1>2 DEF Chain
<1> QED BY <1>3, <1>4, <1>5, <1>6

(* Copies that were last sent, or not waiting, go on to their report or    *)
(* out: nothing waits behind what does not wait.                           *)
LEMMA Fades ==
    ASSUME IInv, Lines, NEW c \in Copies, stage[c] \in {"sending", "reports", "asks"},
           stage'[c] \in {"reports", "asks", "over"},
           \A d \in Copies \ {c} : stage'[d] = stage[d],
           UNCHANGED queue,
           \/ UNCHANGED manager
           \/ stage[c] \in {"reports", "asks"} /\ Leaves(c)
    PROVE  Lines'
<1> USE DEF IInv, Types, Lines, queue
<1>1. /\ UNCHANGED <<bus, count, number>> /\ Nothing \notin Copies
      /\ stage'[c] \notin Waiting \cup {"bus", "hand"} /\ stage[c] \notin {"bus", "hand"}
      /\ \A d \in Copies : Waits(d)' <=> Waits(d) /\ d # c
      /\ \A d, e : Same(d, e)' <=> Same(d, e)
  BY DEF Waits, Same, Waiting
<1>2. /\ tail' \in [Routes -> Copies \cup {Nothing}]
      /\ previous' \in [Copies -> Copies \cup {Nothing}]
      /\ \A r \in Routes : tail'[r] = tail[r] \/ (tail[r] = c /\ ~Waits(c))
      /\ \A d \in Copies : previous'[d] = previous[d] \/ (previous[d] = c /\ ~Waits(c))
      /\ \A d \in tasks : d # c => d \in tasks'
      /\ \A d \in Copies : d # c /\ hand.copy = d => hand'.copy = d
  <2>1. CASE UNCHANGED manager
    BY <2>1 DEF manager, LineTypes
  <2>2. CASE stage[c] \in {"reports", "asks"} /\ Leaves(c)
    <3>1. ~Waits(c) /\ Route(c) \in Routes
      BY <2>2, CopyTypes DEF Waits, Waiting
    <3> QED BY <2>2, <3>1 DEF Leaves, LineTypes
  <2> QED BY <2>1, <2>2
<1>3. LineTypes' /\ Numbered'
  BY <1>1, <1>2 DEF LineTypes, Numbered
<1>4. Places'
  <2>1. \A d \in Copies : stage'[d] \in {"bus", "hand"} => stage'[d] = stage[d] /\ d # c
    BY <1>1
  <2> QED BY <1>1, <1>2, <2>1 DEF Places
<1>9. BusOrder'
  BY <1>1 DEF BusOrder
<1>5. Ahead'
  BY <1>1 DEF Ahead
<1>6. \A d \in Copies : Waits(c) /\ Waits(d) /\ Same(c, d) /\ d # c => number[c] < number[d]
  <2> SUFFICES ASSUME NEW d \in Copies, Waits(c), Waits(d), Same(c, d), d # c
               PROVE  number[c] < number[d]
    OBVIOUS
  <2>1. stage[c] \notin {"made", "behind"} /\ number[c] \in Nat /\ number[d] \in Nat /\ Same(d, c)
    BY DEF Waits, Waiting, LineTypes, Same
  <2>2. number[d] # number[c]
    BY <2>1 DEF Numbered
  <2>3. ~(number[d] < number[c])
    BY <2>1 DEF Chain
  <2> QED BY <2>1, <2>2, <2>3
<1>7. Chain'
  <2> SUFFICES ASSUME NEW d \in Copies, NEW e \in Copies, Same(d, e), Waits(d), Waits(e),
                      d # c, e # c, number[d] < number[e]
               PROVE  /\ stage'[e] \in {"made", "behind"} /\ previous'[e] \in Copies
                      /\ stage'[previous'[e]] \in Waiting /\ Same(previous'[e], e)
                      /\ number[d] <= number[previous'[e]] /\ number[previous'[e]] < number[e]
    BY <1>1 DEF Chain, Same, Waits
  <2>1. /\ stage[e] \in {"made", "behind"} /\ previous[e] \in Copies
        /\ Waits(previous[e]) /\ Same(previous[e], e)
        /\ number[d] <= number[previous[e]] /\ number[previous[e]] < number[e]
    BY DEF Chain
  <2>2. previous[e] # c
    <3> SUFFICES ASSUME previous[e] = c PROVE FALSE
      OBVIOUS
    <3>1. number[c] < number[d]
      BY <1>6, <2>1 DEF Same
    <3> QED BY <2>1, <3>1 DEF LineTypes
  <2>3. previous'[e] = previous[e] /\ stage'[previous[e]] = stage[previous[e]] /\ stage'[e] = stage[e]
    BY <1>2, <2>1, <2>2
  <2> QED BY <2>1, <2>3 DEF Waits
<1>8. Tails'
  <2> SUFFICES ASSUME NEW d \in Copies, Waits(d), d # c
               PROVE  /\ tail'[Route(d)] \in Copies /\ stage'[tail'[Route(d)]] \in Waiting
                      /\ Same(d, tail'[Route(d)]) /\ number[d] <= number[tail'[Route(d)]]
    BY <1>1 DEF Tails, Same, Waits
  <2>1. /\ tail[Route(d)] \in Copies /\ Waits(tail[Route(d)]) /\ Route(d) \in Routes
        /\ Same(d, tail[Route(d)]) /\ number[d] <= number[tail[Route(d)]]
    BY CopyTypes DEF Tails
  <2>2. tail[Route(d)] # c
    <3> SUFFICES ASSUME tail[Route(d)] = c PROVE FALSE
      OBVIOUS
    <3>1. number[c] < number[d]
      BY <1>6, <2>1 DEF Same
    <3> QED BY <2>1, <3>1 DEF LineTypes
  <2>3. tail'[Route(d)] = tail[Route(d)] /\ stage'[tail[Route(d)]] = stage[tail[Route(d)]]
    BY <1>2, <2>1, <2>2
  <2> QED BY <2>1, <2>3 DEF Waits
<1> QED BY <1>3, <1>4, <1>5, <1>7, <1>8, <1>9

Unlined(p) == p \notin {"bus", "hand"} \cup Waiting

(* A report ends, and perhaps another copy enters the bus: behind all the  *)
(* others of its route.                                                    *)
LEMMA Outside ==
    ASSUME IInv, Lines, NEW c \in Copies, NEW d \in Copies,
           Unlined(stage[c]), Unlined(stage[d]),
           \A e \in Copies \ {c, d} : stage'[e] = stage[e],
           c = d \/ Unlined(stage'[c]),
           \/ UNCHANGED queue /\ Unlined(stage'[d])
           \/ Publishes(d) /\ stage'[d] = "bus",
           UNCHANGED manager \/ Leaves(c)
    PROVE  Lines'
<1> USE DEF IInv, Types, Lines
<1>1. /\ ~Waits(c) /\ ~Waits(d) /\ Nothing \notin Copies
      /\ \A e \in Copies : Waits(e)' <=> Waits(e)
      /\ \A e \in Copies : Waits(e) => e # c /\ e # d /\ stage'[e] = stage[e]
      /\ \A e \in Copies : stage'[e] = "hand" => stage[e] = "hand" /\ e # c
      /\ \A e \in Copies \ {d} : stage'[e] = "bus" => stage[e] = "bus"
  BY DEF Waits, Waiting, Unlined
<1>2. /\ tail' \in [Routes -> Copies \cup {Nothing}]
      /\ previous' \in [Copies -> Copies \cup {Nothing}]
      /\ \A r \in Routes : tail'[r] = tail[r] \/ tail[r] = c
      /\ \A e \in Copies : previous'[e] = previous[e] \/ previous[e] = c
      /\ \A e \in tasks : e # c => e \in tasks'
      /\ \A e \in Copies : e # c /\ hand.copy = e => hand'.copy = e
  <2>1. CASE UNCHANGED manager
    BY <2>1 DEF manager, LineTypes
  <2>2. CASE Leaves(c)
    <3>1. Route(c) \in Routes
      BY CopyTypes
    <3> QED BY <2>2, <3>1 DEF Leaves, LineTypes
  <2> QED BY <2>1, <2>2
<1>3. /\ count' \in [Routes -> Nat] /\ number' \in [Copies -> Nat]
      /\ \A e \in Copies \ {d} : number'[e] = number[e]
      /\ \/ UNCHANGED queue /\ Unlined(stage'[d])
         \/ /\ bus' = Append(bus, d) /\ stage'[d] = "bus" /\ number'[d] = count[Route(d)] + 1
            /\ count'[Route(d)] = count[Route(d)] + 1
            /\ \A r \in Routes \ {Route(d)} : count'[r] = count[r]
            /\ Route(d) \in Routes
  <2>1. Route(d) \in Routes
    BY CopyTypes
  <2>2. CASE UNCHANGED queue /\ Unlined(stage'[d])
    BY <2>2 DEF queue, LineTypes
  <2>3. CASE Publishes(d) /\ stage'[d] = "bus"
    <3>1. /\ bus' = Append(bus, d) /\ count' = [count EXCEPT ![Route(d)] = count[Route(d)] + 1]
          /\ number' = [number EXCEPT ![d] = count[Route(d)] + 1]
      BY <2>3 DEF Publishes
    <3>2. /\ count \in [Routes -> Nat] /\ number \in [Copies -> Nat] /\ count[Route(d)] + 1 \in Nat
      BY <2>1 DEF LineTypes
    <3>3. /\ count'[Route(d)] = count[Route(d)] + 1 /\ number'[d] = count[Route(d)] + 1
          /\ \A r \in Routes \ {Route(d)} : count'[r] = count[r]
          /\ \A e \in Copies \ {d} : number'[e] = number[e]
          /\ count' \in [Routes -> Nat] /\ number' \in [Copies -> Nat]
      BY <2>1, <3>1, <3>2
    <3> QED BY <2>1, <2>3, <3>1, <3>3
  <2> QED BY <2>2, <2>3
<1>4. \A e \in Copies \ {d} : Same(e, d) /\ stage'[d] = "bus" => number'[e] < number'[d]
  BY <1>3, CopyTypes DEF Numbered, Same, LineTypes, Unlined
<1>5. LineTypes'
  BY <1>2, <1>3 DEF LineTypes
<1>6. Numbered'
  <2>1. \A e \in Copies : number'[e] <= count'[Route(e)]
    <3>1. CASE UNCHANGED queue
      BY <3>1 DEF queue, Numbered
    <3>2. CASE stage'[d] = "bus"
      <4> SUFFICES ASSUME NEW e \in Copies PROVE number'[e] <= count'[Route(e)]
        OBVIOUS
      <4>1. number[e] <= count[Route(e)] /\ Route(e) \in Routes /\ number[e] \in Nat
            /\ count[Route(e)] \in Nat
        BY CopyTypes DEF Numbered, LineTypes
      <4>2. CASE e = d
        BY <1>3, <3>2, <4>2 DEF Unlined
      <4>3. CASE e # d /\ Route(e) = Route(d)
        BY <1>3, <3>2, <4>1, <4>3 DEF Unlined
      <4>4. CASE e # d /\ Route(e) # Route(d)
        BY <1>3, <3>2, <4>1, <4>4 DEF Unlined
      <4> QED BY <4>2, <4>3, <4>4
    <3> QED BY <1>3, <3>1, <3>2
  <2>2. \A e \in Copies : Waits(e)' \/ stage'[e] \in {"bus", "hand"} => number'[e] > 0
    <3> SUFFICES ASSUME NEW e \in Copies, Waits(e)' \/ stage'[e] \in {"bus", "hand"}
                 PROVE  number'[e] > 0
      OBVIOUS
    <3>1. CASE e # d
      <4>1. Waits(e) \/ stage[e] \in {"bus", "hand"}
        BY <1>1, <3>1
      <4>2. number[e] > 0
        BY <4>1 DEF Numbered
      <4> QED BY <1>3, <3>1, <4>2
    <3>2. CASE e = d
      <4>1. stage'[d] = "bus"
        BY <1>1, <3>2 DEF Unlined
      <4>2. number'[d] = count[Route(d)] + 1 /\ Route(d) \in Routes
        BY <1>3, <4>1 DEF Unlined
      <4>3. count[Route(d)] \in Nat
        BY <4>2 DEF LineTypes
      <4> QED BY <3>2, <4>2, <4>3
    <3> QED BY <3>1, <3>2
  <2>3. \A e, f \in Copies : Same(e, f) /\ number'[e] = number'[f] /\ number'[e] > 0 => e = f
    <3>1. CASE UNCHANGED queue
      BY <3>1 DEF queue, Numbered
    <3>2. CASE stage'[d] = "bus"
      <4>1. \A e, f : Same(e, f) => Same(f, e)
        BY DEF Same
      <4> SUFFICES ASSUME NEW e \in Copies, NEW f \in Copies, Same(e, f),
                          number'[e] = number'[f], number'[e] > 0
                   PROVE  e = f
        OBVIOUS
      <4>2. number'[e] \in Nat /\ number'[f] \in Nat
        BY <1>3
      <4>3. CASE e = d \/ f = d
        BY <1>4, <3>2, <4>1, <4>2, <4>3
      <4>4. CASE e # d /\ f # d
        BY <1>3, <4>4 DEF Numbered
      <4> QED BY <4>3, <4>4
    <3> QED BY <1>3, <3>1, <3>2
  <2> QED BY <2>1, <2>2, <2>3 DEF Numbered, Same
<1>7. Places'
  <2>1. \A e \in Copies : stage'[e] = "bus" => \E i \in DOMAIN bus' : bus'[i] = e
    <3>1. CASE UNCHANGED queue /\ Unlined(stage'[d])
      BY <1>1, <3>1 DEF Places, queue, Unlined
    <3>2. CASE bus' = Append(bus, d)
      <4>1. /\ \A i \in DOMAIN bus : i \in DOMAIN bus' /\ bus'[i] = bus[i]
            /\ Len(bus) + 1 \in DOMAIN bus' /\ bus'[Len(bus) + 1] = d
        BY <3>2
      <4> QED BY <1>1, <4>1 DEF Places
    <3> QED BY <1>3, <3>1, <3>2
  <2> QED BY <1>1, <1>2, <2>1 DEF Places
<1>8. BusOrder'
  <2>1. \A i \in DOMAIN bus : bus[i] \in Copies /\ bus[i] # d
    <3>1. \A i \in DOMAIN bus : bus[i] \in Copies
      OBVIOUS
    <3> QED BY <3>1 DEF BusHolds, Unlined
  <2>2. CASE UNCHANGED queue
    BY <2>2 DEF queue, BusOrder, Same
  <2>3. CASE bus' = Append(bus, d) /\ stage'[d] = "bus"
    <3> SUFFICES ASSUME NEW i \in DOMAIN bus', NEW j \in DOMAIN bus', i < j,
                        Same(bus'[i], bus'[j])
                 PROVE  number'[bus'[i]] < number'[bus'[j]]
      BY DEF BusOrder, Same
    <3>1. /\ i \in DOMAIN bus /\ bus'[i] = bus[i]
          /\ \/ j \in DOMAIN bus /\ bus'[j] = bus[j]
             \/ bus'[j] = d
      BY <2>3
    <3>2. bus[i] \in Copies /\ bus[i] # d
      BY <2>1, <3>1
    <3>3. CASE bus'[j] = d
      BY <1>4, <2>3, <3>1, <3>2, <3>3
    <3>4. CASE j \in DOMAIN bus /\ bus'[j] = bus[j]
      <4>1. bus[j] \in Copies /\ bus[j] # d /\ Same(bus[i], bus[j])
        BY <2>1, <3>1, <3>4
      <4>2. number[bus[i]] < number[bus[j]]
        BY <3>1, <3>4, <4>1 DEF BusOrder
      <4> QED BY <1>3, <3>1, <3>2, <3>4, <4>1, <4>2
    <3> QED BY <3>1, <3>3, <3>4
  <2> QED BY <1>3, <2>2, <2>3
<1>9. Ahead'
  BY <1>1, <1>3, <1>4 DEF Ahead, Same, Unlined
<1>10. Chain'
  <2> SUFFICES ASSUME NEW e \in Copies, NEW f \in Copies, Same(e, f), Waits(e), Waits(f),
                      number[e] < number[f]
               PROVE  /\ stage'[f] \in {"made", "behind"} /\ previous'[f] \in Copies
                      /\ stage'[previous'[f]] \in Waiting /\ Same(previous'[f], f)
                      /\ number'[e] <= number'[previous'[f]] /\ number'[previous'[f]] < number'[f]
    BY <1>1, <1>3 DEF Chain, Same, Waits
  <2>1. /\ stage[f] \in {"made", "behind"} /\ previous[f] \in Copies
        /\ Waits(previous[f]) /\ Same(previous[f], f)
        /\ number[e] <= number[previous[f]] /\ number[previous[f]] < number[f]
    BY DEF Chain
  <2> QED BY <1>1, <1>2, <1>3, <2>1 DEF Waits
<1>11. Tails'
  <2> SUFFICES ASSUME NEW e \in Copies, Waits(e)
               PROVE  /\ tail'[Route(e)] \in Copies /\ stage'[tail'[Route(e)]] \in Waiting
                      /\ Same(e, tail'[Route(e)]) /\ number'[e] <= number'[tail'[Route(e)]]
    BY <1>1 DEF Tails, Same, Waits
  <2>1. /\ tail[Route(e)] \in Copies /\ Waits(tail[Route(e)]) /\ Route(e) \in Routes
        /\ Same(e, tail[Route(e)]) /\ number[e] <= number[tail[Route(e)]]
    BY CopyTypes DEF Tails
  <2> QED BY <1>1, <1>2, <1>3, <2>1 DEF Waits
<1> QED BY <1>5, <1>6, <1>7, <1>8, <1>9, <1>10, <1>11

(* The dispatcher takes the oldest copy of the bus, or goes on with the    *)
(* one in its hand: younger than all that wait, older than all in the bus. *)
LEMMA Dispatches ==
    ASSUME IInv, Lines, NEW c \in Copies, NEW to \in {"hand", "made", "reports"},
           \/ bus' = bus /\ stage[c] = "hand"
           \/ bus # <<>> /\ c = Head(bus) /\ bus' = Tail(bus) /\ stage[c] = "bus" /\ hand = Idle,
           stage' = [stage EXCEPT ![c] = to], UNCHANGED <<count, number>>,
           to = "made" => /\ tasks' = tasks \cup {c}
                          /\ previous' = [previous EXCEPT ![c] = tail[Route(c)]]
                          /\ tail' = [tail EXCEPT ![Route(c)] = c],
           to # "made" => UNCHANGED <<tasks, tail, previous>>,
           to = "hand" => hand'.copy = c
    PROVE  Lines'
<1> USE DEF IInv, Types, Lines
<1>1. /\ stage'[c] = to /\ \A d \in Copies \ {c} : stage'[d] = stage[d]
      /\ ~Waits(c) /\ Nothing \notin Copies /\ Route(c) \in Routes
      /\ \A d \in Copies \ {c} : stage[d] # "hand"
      /\ stage[c] \in {"bus", "hand"}
  <2>1. Idle.copy \notin Copies
    BY DEF Idle
  <2> QED BY <2>1, CopyTypes DEF Places, Waits, Waiting
<1>2. /\ \A d \in Copies : Waits(d) => d # c /\ stage'[d] = stage[d] /\ stage'[d] \in Waiting
      /\ \A d \in Copies : stage'[d] \in Waiting => Waits(d) \/ (d = c /\ to = "made")
      /\ \A d \in Copies : stage'[d] = "bus" => stage[d] = "bus" /\ d # c
  BY <1>1 DEF Waits, Waiting
<1>3. \A d \in Copies : Same(c, d) /\ Waits(d) => number[d] < number[c]
  BY <1>1 DEF Ahead
<1>4. /\ \A i \in DOMAIN bus' : bus'[i] \in Copies
      /\ \A d \in Copies : stage'[d] = "bus" => \E i \in DOMAIN bus' : bus'[i] = d
      /\ \A d \in Copies : stage'[d] = "bus" /\ Same(d, c) => number[c] < number[d]
      /\ \A i, j \in DOMAIN bus' :
             i < j /\ Same(bus'[i], bus'[j]) => number[bus'[i]] < number[bus'[j]]
  <2>1. CASE bus' = bus /\ stage[c] = "hand"
    <3>1. \A i \in DOMAIN bus : bus[i] \in Copies
      OBVIOUS
    <3>2. \A d \in Copies : stage'[d] = "bus" /\ Same(d, c) => number[c] < number[d]
      BY <1>2, <2>1 DEF Ahead
    <3> QED BY <1>2, <2>1, <3>1, <3>2 DEF Places, BusOrder
  <2>2. CASE bus # <<>> /\ c = Head(bus) /\ bus' = Tail(bus)
    <3>1. /\ \A i \in DOMAIN bus' : i \in Nat /\ i + 1 \in DOMAIN bus /\ bus'[i] = bus[i + 1]
          /\ \A i \in DOMAIN bus : i \in Nat /\ (i = 1 \/ (i - 1 \in DOMAIN bus' /\ bus'[i - 1] = bus[i]))
          /\ 1 \in DOMAIN bus /\ c = bus[1] /\ \A i \in DOMAIN bus : bus[i] \in Copies
      BY <2>2, SMTT(60)
    <3>2. \A i \in DOMAIN bus' : bus'[i] \in Copies
      BY <3>1
    <3>3. \A d \in Copies : stage'[d] = "bus" => \E i \in DOMAIN bus : i # 1 /\ bus[i] = d
      BY <1>2, <3>1 DEF Places
    <3>4. \A d \in Copies : stage'[d] = "bus" => \E i \in DOMAIN bus' : bus'[i] = d
      BY <3>1, <3>3
    <3>5. ASSUME NEW d \in Copies, stage'[d] = "bus", Same(d, c) PROVE number[c] < number[d]
      <4>1. PICK i \in DOMAIN bus : i # 1 /\ bus[i] = d
        BY <3>3, <3>5
      <4>2. 1 < i /\ Same(bus[1], bus[i])
        BY <3>1, <3>5, <4>1 DEF Same
      <4> QED BY <3>1, <4>1, <4>2 DEF BusOrder
    <3>6. \A i, j \in DOMAIN bus' :
             i < j /\ Same(bus'[i], bus'[j]) => number[bus'[i]] < number[bus'[j]]
      <4> SUFFICES ASSUME NEW i \in DOMAIN bus', NEW j \in DOMAIN bus', i < j, Same(bus'[i], bus'[j])
                   PROVE  number[bus'[i]] < number[bus'[j]]
        OBVIOUS
      <4>1. i + 1 < j + 1 /\ i + 1 \in DOMAIN bus /\ j + 1 \in DOMAIN bus
            /\ Same(bus[i + 1], bus[j + 1])
        BY <3>1
      <4> QED BY <3>1, <4>1, ZenonT(60) DEF BusOrder
    <3> QED BY <3>2, <3>4, <3>5, <3>6
  <2> QED BY <2>1, <2>2
<1>5. LineTypes'
  <2>1. /\ tail \in [Routes -> Copies \cup {Nothing}] /\ tail[Route(c)] \in Copies \cup {Nothing}
        /\ previous \in [Copies -> Copies \cup {Nothing}]
        /\ count' \in [Routes -> Nat] /\ number' \in [Copies -> Nat]
    BY <1>1 DEF LineTypes
  <2>2. /\ tail' \in [Routes -> Copies \cup {Nothing}]
        /\ previous' \in [Copies -> Copies \cup {Nothing}]
    <3>1. CASE to = "made"
      <4>1. /\ previous' = [previous EXCEPT ![c] = tail[Route(c)]]
            /\ tail' = [tail EXCEPT ![Route(c)] = c] /\ c \in Copies
        BY <3>1
      <4>2. tail' \in [Routes -> Copies \cup {Nothing}]
        BY <2>1, <4>1
      <4>3. previous' \in [Copies -> Copies \cup {Nothing}]
        BY <2>1, <4>1
      <4> QED BY <4>2, <4>3
    <3>2. CASE to # "made"
      BY <2>1, <3>2
    <3> QED BY <3>1, <3>2
  <2> QED BY <2>1, <2>2 DEF LineTypes
<1>6. Numbered'
  BY <1>1, <1>2 DEF Numbered, Waits, Same
<1>7. Places'
  BY <1>1, <1>2, <1>4 DEF Places, Waits
<1>8. BusOrder'
  BY <1>4 DEF BusOrder, Same
<1>9. Ahead'
  <2>1. \A d \in Copies : Same(d, c) <=> Same(c, d)
    BY DEF Same
  <2> QED BY <1>1, <1>2, <1>3, <1>4, <2>1 DEF Ahead, Waits, Same, Waiting
<1>10. Chain'
  <2> SUFFICES ASSUME NEW e \in Copies, NEW f \in Copies, Same(e, f), stage'[e] \in Waiting,
                      stage'[f] \in Waiting, number[e] < number[f]
               PROVE  /\ stage'[f] \in {"made", "behind"} /\ previous'[f] \in Copies
                      /\ stage'[previous'[f]] \in Waiting /\ Same(previous'[f], f)
                      /\ number[e] <= number[previous'[f]] /\ number[previous'[f]] < number[f]
    BY DEF Chain, Same, Waits
  <2>1. CASE f = c
    <3>1. to = "made" /\ e # c /\ Waits(e) /\ previous'[c] = tail[Route(e)]
      BY <1>1, <1>2, <2>1 DEF Waits, LineTypes, Same
    <3>2. /\ tail[Route(e)] \in Copies /\ Waits(tail[Route(e)])
          /\ Same(e, tail[Route(e)]) /\ number[e] <= number[tail[Route(e)]]
      BY <3>1 DEF Tails
    <3>3. Same(c, tail[Route(e)]) /\ Same(tail[Route(e)], c)
      BY <2>1, <3>2 DEF Same
    <3> QED BY <1>1, <1>2, <1>3, <2>1, <3>1, <3>2, <3>3
  <2>2. CASE e = c /\ f # c
    <3>1. Waits(f) /\ Same(c, f) /\ number[c] \in Nat /\ number[f] \in Nat
      BY <1>2, <2>2 DEF LineTypes
    <3> QED BY <1>3, <2>2, <3>1
  <2>3. CASE e # c /\ f # c
    <3>1. /\ Waits(e) /\ Waits(f)
      BY <1>2, <2>3
    <3>2. /\ stage[f] \in {"made", "behind"} /\ previous[f] \in Copies
          /\ Waits(previous[f]) /\ Same(previous[f], f)
          /\ number[e] <= number[previous[f]] /\ number[previous[f]] < number[f]
      BY <3>1 DEF Chain
    <3>3. previous'[f] = previous[f]
      BY <2>3 DEF LineTypes
    <3> QED BY <1>1, <1>2, <2>3, <3>2, <3>3
  <2> QED BY <2>1, <2>2, <2>3
<1>11. Tails'
  <2> SUFFICES ASSUME NEW e \in Copies, stage'[e] \in Waiting
               PROVE  /\ tail'[Route(e)] \in Copies /\ stage'[tail'[Route(e)]] \in Waiting
                      /\ Same(e, tail'[Route(e)]) /\ number[e] <= number[tail'[Route(e)]]
    BY DEF Tails, Same, Waits
  <2>1. Route(e) \in Routes /\ number[e] \in Nat /\ number[c] \in Nat
    BY CopyTypes DEF LineTypes
  <2>2. CASE to = "made" /\ Route(e) = Route(c)
    <3>1. tail'[Route(e)] = c /\ Same(e, c) /\ Same(c, e)
      BY <1>1, <2>1, <2>2 DEF LineTypes, Same
    <3>2. e = c \/ Waits(e)
      BY <1>2
    <3> QED BY <1>1, <1>3, <2>1, <2>2, <3>1, <3>2 DEF Waiting
  <2>3. CASE ~(to = "made" /\ Route(e) = Route(c))
    <3>1. Waits(e)
      BY <1>2, <2>3
    <3>2. tail'[Route(e)] = tail[Route(e)]
      BY <1>1, <2>1, <2>3 DEF LineTypes
    <3> QED BY <1>2, <3>1, <3>2 DEF Tails
  <2> QED BY <2>2, <2>3
<1> QED BY <1>5, <1>6, <1>7, <1>8, <1>9, <1>10, <1>11

(* Where nothing of the lines changes.                                     *)
LEMMA SameLines ==
    ASSUME Lines,
           UNCHANGED <<bus, count, number, stage, tasks, tail, previous, hand>>
    PROVE  Lines'
BY DEF Lines, LineTypes, Numbered, Places, BusOrder, Ahead, Chain, Tails, Waits, Same

LEMMA SendsLines == ASSUME IInv, Lines, NEW c \in Copies, Sends(c) PROVE Lines'
<1> USE DEF observer, history
<1>1. CASE TaskBegins(c)
  BY <1>1, WorksOn DEF TaskBegins, Waits, Waiting
<1>2. CASE Attempts(c)
  BY <1>2, WorksOn DEF Attempts, NextInLine, Waits, Waiting
<1>3. stage \in [Copies -> Stages]
  BY DEF IInv, Types
<1>4. CASE Delivered(c)
  BY <1>3, <1>4, Fades DEF Delivered, Comes
<1>5. CASE Rejected(c)
  BY <1>3, <1>5, Fades DEF Rejected, Comes
<1>6. CASE Breaks(c)
  <2>1. CASE Comes(c, "unknown")
    BY <1>3, <1>6, <2>1, Fades DEF Breaks, Comes
  <2>2. CASE stage' = [stage EXCEPT ![c] = "backoff"]
    BY <1>6, <2>2, WorksOn DEF Breaks, Waits, Waiting
  <2> QED BY <1>6, <2>1, <2>2 DEF Breaks
<1> QED BY <1>1, <1>2, <1>4, <1>5, <1>6 DEF Sends

LEMMA QueuesLines ==
    ASSUME IInv, Lines, NEW c \in Copies, NEW o, Queues(c, o),
           \/ bus' = bus /\ stage[c] = "hand"
           \/ bus # <<>> /\ c = Head(bus) /\ bus' = Tail(bus) /\ stage[c] = "bus" /\ hand = Idle,
           UNCHANGED <<count, number>>
    PROVE  Lines'
<1>1. CASE channel[Route(c)] = "up" /\ object[Route(c)] = o
  <2>1. /\ stage' = [stage EXCEPT ![c] = "made"] /\ tasks' = tasks \cup {c}
        /\ previous' = [previous EXCEPT ![c] = tail[Route(c)]]
        /\ tail' = [tail EXCEPT ![Route(c)] = c]
    BY <1>1 DEF Queues
  <2> QED BY <2>1, Dispatches
<1>2. CASE ~(channel[Route(c)] = "up" /\ object[Route(c)] = o)
  <2>1. stage' = [stage EXCEPT ![c] = "reports"] /\ UNCHANGED <<tasks, tail, previous>>
    BY <1>2 DEF Queues, Comes
  <2> QED BY <2>1, Dispatches
<1> QED BY <1>1, <1>2

LEMMA TakesLines == ASSUME IInv, Lines, Takes PROVE Lines'
<1> DEFINE c == Head(bus)
<1>1. /\ c \in Copies /\ stage[c] = "bus" /\ bus # <<>> /\ bus' = Tail(bus) /\ hand = Idle
      /\ UNCHANGED <<count, number>>
  <2>1. bus \in Seq(Copies) /\ bus # <<>>
    BY DEF Takes, IInv, Types
  <2>2. c = bus[1] /\ 1 \in DOMAIN bus /\ c \in Copies
    BY <2>1
  <2> QED BY <2>1, <2>2 DEF Takes, IInv, BusHolds
<1>2. CASE Queues(c, object[Route(c)])
  BY <1>1, <1>2, QueuesLines
<1>3. CASE Comes(c, "unavailable") /\ UNCHANGED <<tasks, tail, previous>>
  BY <1>1, <1>3, Dispatches DEF Comes
<1>4. CASE /\ stage' = [stage EXCEPT ![c] = "hand"] /\ hand' = [copy |-> c, object |-> object[Route(c)]]
           /\ UNCHANGED <<tasks, tail, previous>>
  BY <1>1, <1>4, Dispatches
<1> QED BY <1>2, <1>3, <1>4 DEF Takes

LEMMA GetsSlotLines == ASSUME IInv, Lines, GetsSlot PROVE Lines'
<1>1. hand.copy \in Copies
  BY DEF GetsSlot, IInv, Types
<1> QED BY <1>1, QueuesLines DEF GetsSlot, queue

LEMMA ObservesLines == ASSUME IInv, Lines, NEW c \in Copies, Observes(c) PROVE Lines'
<1> USE DEF observer, history
<1>1. /\ stage \in [Copies -> Stages] /\ asked \in Range(Alternatives) \cup {Nothing}
      /\ \A e, f \in Copies : Msg(e) = Msg(f) /\ e # f /\ Open(e) => ~Open(f)
  BY DEF IInv, Types, Alone
<1>2. CASE Ignores(c)
  BY <1>1, <1>2, Fades DEF Ignores
<1>3. CASE Finishes(c)
  BY <1>1, <1>3, Fades DEF Finishes
<1>4. CASE FallsBack(c)
  BY <1>1, <1>4, Fades DEF FallsBack
<1> DEFINE d == <<Msg(c), asked>>
<1>5. ASSUME Allowed(c) \/ Refused(c)
      PROVE  /\ d \in Copies /\ (d # c => stage[d] \in {"none", "over"})
             /\ Unlined(stage[c]) /\ Unlined(stage[d])
  <2>1. stage[c] = "asks" /\ asked \in Routes
    BY <1>1, <1>5, CopyTypes DEF Allowed, Refused, IInv, OneAsks
  <2>2. d \in Copies /\ Msg(d) = Msg(c)
    BY <2>1, CopyTypes
  <2>3. d # c => stage[d] \in {"none", "over"}
    BY <1>1, <2>1, <2>2 DEF Open
  <2> QED BY <2>1, <2>2, <2>3 DEF Unlined, Waiting
<1>6. CASE Allowed(c)
  <2>0. stage' = [stage EXCEPT ![c] = "over", ![d] = "bus"]
    BY <1>6 DEF Allowed
  <2>4. d \in Copies /\ stage \in [Copies -> Stages]
    BY <1>1, <1>5, <1>6
  <2>1. /\ \A e \in Copies \ {c, d} : stage'[e] = stage[e]
        /\ c = d \/ stage'[c] = "over"
        /\ stage'[d] = "bus"
    BY <2>0, <2>4
  <2>2. Publishes(d) /\ Leaves(c)
    BY <1>6 DEF Allowed
  <2>3. c = d \/ Unlined(stage'[c])
    BY <2>1 DEF Unlined, Waiting
  <2> QED BY <1>5, <1>6, <2>1, <2>2, <2>3, Outside
<1>7. CASE Refused(c)
  <2>1. PICK s \in {"none", "parked"} : stage' = [stage EXCEPT ![c] = "over", ![d] = s]
    BY <1>7 DEF Refused
  <2>0. d \in Copies /\ stage \in [Copies -> Stages]
    BY <1>1, <1>5, <1>7
  <2>2. /\ \A e \in Copies \ {c, d} : stage'[e] = stage[e]
        /\ c = d \/ Unlined(stage'[c])
        /\ Unlined(stage'[d])
    BY <2>0, <2>1 DEF Unlined, Waiting
  <2>3. UNCHANGED queue /\ Leaves(c)
    BY <1>7 DEF Refused
  <2> QED BY <1>5, <1>7, <2>2, <2>3, Outside
<1> QED BY <1>2, <1>3, <1>4, <1>6, <1>7 DEF Observes

(* Nothing of a stopped route waits any more, and the others keep theirs.  *)
LEMMA StopLines == ASSUME IInv, Lines, NEW r \in Routes, StopChannel(r) PROVE Lines'
<1> USE DEF IInv, Types, Lines
<1> DEFINE hit == {c \in tasks : Route(c) = r}
<1>1. /\ \A c \in hit : stage'[c] \in {"reports", "over"}
      /\ \A c \in Copies \ hit : stage'[c] = stage[c] /\ previous'[c] = previous[c]
      /\ UNCHANGED <<bus, count, number, hand>> /\ Nothing \notin Copies
      /\ \A q \in Routes \ {r} : tail'[q] = tail[q]
      /\ tail' \in [Routes -> Copies \cup {Nothing}]
      /\ previous' \in [Copies -> Copies \cup {Nothing}]
      /\ \A c \in tasks \ hit : c \in tasks'
  BY DEF StopChannel, CancelledTo, queue, LineTypes
<1>2. /\ \A c \in Copies : stage'[c] \in Waiting <=> Waits(c) /\ Route(c) # r
      /\ \A c \in Copies : stage'[c] \in Waiting => stage'[c] = stage[c] /\ previous'[c] = previous[c]
      /\ \A c \in Copies : stage'[c] \in {"bus", "hand"} => stage'[c] = stage[c]
  BY <1>1 DEF Places, Waits, Waiting
<1>3. LineTypes' /\ Numbered'
  BY <1>1, <1>2 DEF LineTypes, Numbered, Waits, Same
<1>4. Places' /\ BusOrder'
  BY <1>1, <1>2 DEF Places, BusOrder, Waits, Same
<1>5. Ahead'
  BY <1>1, <1>2 DEF Ahead, Waits, Same
<1>6. Chain'
  BY <1>1, <1>2 DEF Chain, Waits, Same
<1>7. Tails'
  <2>1. \A c \in Copies : Route(c) \in Routes
    BY CopyTypes
  <2> QED BY <1>1, <1>2, <2>1, ZenonT(60) DEF Tails, Waits, Same
<1> QED BY <1>3, <1>4, <1>5, <1>6, <1>7

(* On every route messages are sent one at a time, in the order in which   *)
(* they were published, over retries, full slots and stopping channels.    *)
THEOREM SendsInOrder == Spec => []InOrder
<1>1. Init => Lines
  BY CopyTypes DEF Init, Lines, LineTypes, Numbered, Places, BusOrder, Ahead, Chain, Tails, Waits,
                   Waiting, Same
<1>2. IInv /\ Lines /\ [Next]_vars => Lines'
  <2> SUFFICES ASSUME IInv, Lines, [Next]_vars PROVE Lines'
    OBVIOUS
  <2>1. CASE \E u \in Runs : Submit(u)
    BY <2>1, SameLines DEF Submit, queue, manager
  <2>2. stage \in [Copies -> Stages]
    BY DEF IInv, Types
  <2>3. CASE \E m \in Msgs : Answer(m)
    <3>1. PICK m \in Msgs : Answer(m)
      BY <2>3
    <3>2. <<m, Origin>> \in Copies
      BY CopyTypes
    <3> QED BY <2>2, <3>1, <3>2, Outside DEF Answer, Unlined, Waiting
  <2>4. CASE Takes
    BY <2>4, TakesLines
  <2>5. CASE GetsSlot
    BY <2>5, GetsSlotLines
  <2>6. CASE \E c \in Copies : Approved(c)
    <3>1. PICK c \in Copies : Approved(c)
      BY <2>6
    <3> QED BY <2>2, <3>1, Outside DEF Approved, Unlined, Waiting
  <2>7. CASE \E c \in Copies : Sends(c)
    BY <2>7, SendsLines
  <2>8. CASE \E c \in Copies : Observes(c)
    BY <2>8, ObservesLines
  <2>9. CASE \E r \in Routes : StopChannel(r)
    BY <2>9, StopLines
  <2>10. CASE \E r \in Routes : ChannelStopped(r) \/ StartChannel(r)
    BY <2>10, SameLines DEF ChannelStopped, StartChannel, queue
  <2>11. CASE UNCHANGED vars
    BY <2>11, SameLines DEF vars, queue, manager
  <2> QED BY <2>1, <2>3, <2>4, <2>5, <2>6, <2>7, <2>8, <2>9, <2>10, <2>11 DEF Next
<1>3. IInv /\ Lines => InOrder
  BY LinesInOrder
<1> QED BY <1>1, <1>2, <1>3, Inductive, PTL DEF Spec

-----------------------------------------------------------------------------
(* Why no run is forgotten: what the observer's context says of a run is   *)
(* what its copies came to, and while it waits for the report of a route   *)
(* there is a copy on this route which is going to give it.                *)
Heard(c) == result[c] \in {"delivered", "unknown"}
SomeHeard(u) == \E c \in Copies : Run(c) = u /\ Heard(c)
Tried(u, r) == \E c \in Copies : Run(c) = u /\ Route(c) = r /\ result[c] = "unavailable"

Asking(u) == \E c \in Copies : Run(c) = u /\ stage[c] = "asks"
(* r is the route that the context's index points at.                      *)
Chosen(u, r) ==
    \E i \in Spots(context[u].candidates) :
        Rank(i, context[u].candidates) = context[u].index /\ r = Alternatives[i]

(* The routes before it have refused.                                      *)
TriedSoFar(u) ==
    /\ context[u].index > 0 => Tried(u, Origin)
    /\ \A i \in Spots(context[u].candidates) :
           Rank(i, context[u].candidates) < context[u].index => Tried(u, Alternatives[i])

(* The other routes have been tried one after the other.                   *)
OneByOne(u) ==
    \A c \in Copies : Run(c) = u /\ Route(c) # Origin =>
        /\ ~UnderWay(c) => stage[c] = "none" \/ result[c] = "unavailable"
        /\ UnderWay(c) =>
              /\ Route(c) = context[u].pending
              /\ \A d \in Copies :
                    Run(d) = u /\ (stage[d] = "asks" \/ (Route(d) # Origin /\ UnderWay(d))) => d = c

Trying(u) ==
    /\ OneByOne(u) /\ (SomeHeard(u) \/ TriedSoFar(u))
    /\ \A c \in Copies : Run(c) = u /\ stage[c] = "asks" =>
           Route(c) = Expected(u) /\ context[u].index > 0 /\ Chosen(u, asked)
    /\ ~Asking(u) =>
           IF context[u].pending = Nothing
           THEN context[u].index = 0 /\ \A c \in Copies : Run(c) = u => stage[c] # "over"
           ELSE /\ Chosen(u, context[u].pending)
                /\ \E c \in Copies : Run(c) = u /\ Route(c) = context[u].pending /\ UnderWay(c)

Done(u) ==
    /\ ~Asking(u)
    /\ SomeHeard(u) \/ (Tried(u, Origin) /\ \A r \in context[u].candidates : Tried(u, r))

(* What is said of runs that are neither evicted, cut off nor refused.     *)
Followed(u) == u \in Range(order) /\ u \notin cut \cup refused
Told(u) ==
    /\ \A c \in Copies : Run(c) = u =>
           stage[c] # "parked" /\ (Heard(c) => stage[c] \in {"reports", "over"})
    /\ IF context[u].finished THEN Done(u) ELSE Trying(u)

ContextTypes ==
    /\ order \in Seq(Runs) /\ started \subseteq Runs
    /\ context \in [Runs -> [candidates : SUBSET Range(Alternatives), index : Nat,
                             pending : Range(Alternatives) \cup {Nothing}, finished : BOOLEAN]]
(* Nothing has happened to a run that has not been submitted.              *)
Fresh ==
    \A u \in Runs \ started :
        /\ context[u] = NewContext
        /\ \A c \in Copies : Run(c) = u => stage[c] = "none" /\ result[c] = "none"
Reported == \A c \in Copies : stage[c] = "reports" => result[c] # "none"

Memory ==
    /\ ContextTypes /\ Fresh /\ Reported
    /\ \A u \in Runs : Followed(u) => Told(u)

LEMMA Ranks ==
    ASSUME NEW S, NEW i \in Spots(S)
    PROVE  /\ Rank(i, S) \in Nat /\ Cardinality(Spots(S)) \in Nat
           /\ Rank(i, S) > 0 /\ Rank(i, S) <= Cardinality(Spots(S))
           /\ Alternatives[i] \in Range(Alternatives) /\ Alternatives[i] \in S
           /\ \A j \in Spots(S) : Rank(j, S) = Rank(i, S) => j = i
<1> DEFINE upto(j) == {k \in Spots(S) : k <= j}
<1>1. /\ DOMAIN Alternatives = 1..Len(Alternatives) /\ Len(Alternatives) \in Nat
      /\ Spots(S) \subseteq 1..Len(Alternatives)
  BY DEF Spots
<1>2. IsFiniteSet(Spots(S))
  <2>1. IsFiniteSet(1..Len(Alternatives))
    BY <1>1, FS_Interval
  <2> QED BY <1>1, <2>1, FS_Subset
<1>3. \A j \in Spots(S) : /\ IsFiniteSet(upto(j)) /\ Cardinality(upto(j)) \in Nat
                          /\ Cardinality(upto(j)) <= Cardinality(Spots(S))
  <2> SUFFICES ASSUME NEW j \in Spots(S)
               PROVE  /\ IsFiniteSet(upto(j)) /\ Cardinality(upto(j)) \in Nat
                      /\ Cardinality(upto(j)) <= Cardinality(Spots(S))
    OBVIOUS
  <2>1. upto(j) \subseteq Spots(S)
    OBVIOUS
  <2> QED BY <1>2, <2>1, FS_Subset, FS_CardinalityType
<1>4. Cardinality(upto(i)) > 0
  <2>1. {i} \subseteq upto(i)
    BY <1>1
  <2>2. Cardinality({i}) = 1
    BY FS_Singleton
  <2>3. Cardinality({i}) <= Cardinality(upto(i))
    BY <1>3, <2>1, FS_Subset
  <2> QED BY <1>3, <2>2, <2>3
<1>5. ASSUME NEW j \in Spots(S), NEW k \in Spots(S), j < k
      PROVE  Cardinality(upto(j)) < Cardinality(upto(k))
  <2>1. j \in 1..Len(Alternatives) /\ k \in 1..Len(Alternatives)
    BY <1>1
  <2>2. k \notin upto(j) /\ upto(j) \cup {k} \subseteq upto(k)
    BY <1>1, <1>5, <2>1
  <2>3. Cardinality(upto(j) \cup {k}) = Cardinality(upto(j)) + 1
    BY <1>3, <2>2, FS_AddElement
  <2>4. Cardinality(upto(j) \cup {k}) <= Cardinality(upto(k))
    BY <1>3, <2>2, FS_Subset
  <2>5. Cardinality(upto(j)) \in Nat /\ Cardinality(upto(k)) \in Nat
    BY <1>3
  <2> HIDE DEF upto
  <2> QED BY <2>3, <2>4, <2>5
<1>6. ASSUME NEW j \in Spots(S), Cardinality(upto(j)) = Cardinality(upto(i))  PROVE j = i
  <2>1. j \in Nat /\ i \in Nat
    BY <1>1
  <2>3. Cardinality(upto(i)) \in Nat
    BY <1>3
  <2> HIDE DEF upto
  <2>2. ~(j < i) /\ ~(i < j)
    BY <1>5, <1>6, <2>3
  <2> QED BY <2>1, <2>2
<1>7. Cardinality(Spots(S)) \in Nat
  BY <1>2, FS_CardinalityType
<1>8. Alternatives[i] \in Range(Alternatives) /\ Alternatives[i] \in S
  BY DEF Spots, Range
<1> QED BY <1>3, <1>4, <1>6, <1>7, <1>8 DEF Rank

(* What the copy c does on its way, before anybody asks or forgets it.     *)
Moves(c) ==
    \/ stage'[c] = stage[c] /\ result'[c] = result[c]
    \/ /\ stage[c] \in {"bus", "hand"} \cup Waiting
       /\ stage'[c] \in {"bus", "hand", "reports"} \cup Waiting
       /\ \/ result'[c] = result[c] /\ stage'[c] # "reports"
          \/ result'[c] \in Results \ {"none"} /\ stage'[c] = "reports"
    \/ stage[c] = "none" /\ c = <<Msg(c), Origin>> /\ stage'[c] = "bus" /\ result'[c] = result[c]

LEMMA OnTheWay ==
    ASSUME NEW u \in Runs, Told(u), result \in [Copies -> Results],
           context'[u] = context[u], Asking(u) => asked' = asked,
           \A c \in Copies : Run(c) = u => Moves(c)
    PROVE  Told(u)'
<1> DEFINE Mine(c) == c \in Copies /\ Run(c) = u
<1>1. /\ \A c : Mine(c) => (stage'[c] = "asks" <=> stage[c] = "asks")
      /\ \A c : Mine(c) => (stage'[c] = "over" <=> stage[c] = "over")
      /\ \A c : Mine(c) => (stage'[c] = "parked" <=> stage[c] = "parked")
      /\ \A c : Mine(c) => (stage'[c] = "none" => stage[c] = "none")
      /\ \A c : Mine(c) /\ UnderWay(c) => UnderWay(c)'
      /\ \A c : Mine(c) /\ Route(c) # Origin /\ UnderWay(c)' => UnderWay(c)
      /\ \A c : Mine(c) /\ ~UnderWay(c)' => result'[c] = result[c]
  BY DEF Moves, UnderWay, Waiting, Route
<1>2. \A c : Mine(c) /\ Heard(c) => result'[c] = result[c] /\ stage'[c] = stage[c]
  BY DEF Told, Moves, Waiting
<1>3. \A c : Mine(c) /\ Heard(c)' => stage'[c] \in {"reports", "over"}
  BY DEF Told, Moves, Heard, Waiting
<1>4. \A c : Mine(c) /\ result[c] = "unavailable" => result'[c] = "unavailable" \/ Heard(c)'
  BY DEF Moves, Heard, Results
<1>5. SomeHeard(u) => SomeHeard(u)'
  BY <1>2 DEF SomeHeard, Heard
<1>6. \A r : Tried(u, r) => Tried(u, r)' \/ SomeHeard(u)'
  BY <1>4 DEF Tried, SomeHeard
<1>7. Asking(u)' <=> Asking(u)
  BY <1>1 DEF Asking
<1>8. Done(u) => Done(u)'
  BY <1>5, <1>6, <1>7 DEF Done
<1>9. ASSUME Trying(u)  PROVE Trying(u)'
  <2>1. OneByOne(u)'
    <3> SUFFICES ASSUME NEW c \in Copies, Run(c) = u, Route(c) # Origin
                 PROVE  /\ ~UnderWay(c)' => stage'[c] = "none" \/ result'[c] = "unavailable"
                        /\ UnderWay(c)' =>
                              /\ Route(c) = context'[u].pending
                              /\ \A d \in Copies :
                                    Run(d) = u /\ (stage'[d] = "asks" \/ (Route(d) # Origin /\ UnderWay(d)'))
                                       => d = c
      BY DEF OneByOne
    <3>1. ~UnderWay(c)' => ~UnderWay(c) /\ result'[c] = result[c] /\ (stage[c] = "none" => stage'[c] = "none")
      BY <1>1 DEF Moves, UnderWay, Waiting, Route
    <3> QED BY <1>1, <1>9, <3>1 DEF Trying, OneByOne
  <2>2. SomeHeard(u)' \/ TriedSoFar(u)'
    BY <1>5, <1>6, <1>9 DEF Trying, TriedSoFar
  <2>3. \A c \in Copies : Run(c) = u /\ stage'[c] = "asks" =>
            Route(c) = Expected(u)' /\ context'[u].index > 0 /\ Chosen(u, asked)'
    BY <1>1, <1>9 DEF Trying, Expected, Chosen, Asking
  <2>4. ASSUME ~Asking(u)
        PROVE  IF context'[u].pending = Nothing
               THEN context'[u].index = 0 /\ \A c \in Copies : Run(c) = u => stage'[c] # "over"
               ELSE /\ Chosen(u, context[u].pending)'
                    /\ \E c \in Copies : Run(c) = u /\ Route(c) = context'[u].pending /\ UnderWay(c)'
    BY <1>1, <1>9, <2>4 DEF Trying, Chosen
  <2> QED BY <1>7, <2>1, <2>2, <2>3, <2>4 DEF Trying
<1> QED BY <1>1, <1>3, <1>8, <1>9 DEF Told

(* The steps that tell the observer nothing, and stops of channels.        *)
LEMMA MemoryUntold ==
    ASSUME IInv, Memory, UNCHANGED <<started, context, order, refused>>, cut \subseteq cut',
           asked' = asked \/ \A u \in Runs : Asking(u) => u \in cut',
           \A c \in Copies :
              \/ Moves(c)
              \/ stage'[c] = "over" /\ stage[c] # "none" /\ Run(c) \in cut' /\ result'[c] = result[c],
           \A c \in Copies : stage[c] = "none" /\ stage'[c] # "none" => Run(c) \in started
    PROVE  Memory'
<1>1. ContextTypes'
  BY DEF Memory, ContextTypes
<1>2. Fresh'
  <2> SUFFICES ASSUME NEW u \in Runs \ started
               PROVE  /\ context[u] = NewContext
                      /\ \A c \in Copies : Run(c) = u => stage'[c] = "none" /\ result'[c] = "none"
    BY DEF Fresh
  <2> QED BY DEF Memory, Fresh, Moves, Waiting
<1>3. Reported'
  BY DEF Memory, Reported, Moves, Results
<1>4. ASSUME NEW u \in Runs, Followed(u)'  PROVE Told(u)'
  <2>1. Followed(u) /\ u \notin cut'
    BY <1>4 DEF Followed
  <2>2. Told(u) /\ result \in [Copies -> Results]
    BY <2>1 DEF Memory, IInv, Types
  <2>3. \A c \in Copies : Run(c) = u => Moves(c)
    BY <2>1
  <2> QED BY <2>1, <2>2, <2>3, OnTheWay
<1> QED BY <1>1, <1>2, <1>3, <1>4 DEF Memory

(* A step about one run tells nothing about the others.                    *)
LEMMA OthersTold ==
    ASSUME IInv, Memory, NEW u \in Runs,
           \A c \in Copies : Run(c) # u => stage'[c] = stage[c] /\ result'[c] = result[c],
           \A v \in Runs \ {u} : context'[v] = context[v],
           Range(order') \subseteq Range(order), cut \subseteq cut', refused \subseteq refused',
           asked' = asked \/ \A v \in Runs \ {u} : ~Asking(v)
    PROVE  \A v \in Runs \ {u} : Followed(v)' => Told(v)'
<1> SUFFICES ASSUME NEW v \in Runs, v # u, Followed(v)'  PROVE Told(v)'
  OBVIOUS
<1>1. Told(v) /\ result \in [Copies -> Results]
  BY DEF Followed, Memory, IInv, Types
<1>2. \A c \in Copies : Run(c) = v => Moves(c)
  BY DEF Moves
<1> QED BY <1>1, <1>2, OnTheWay

LEMMA EndKnows ==
    ASSUME ContextTypes, NEW u \in Range(order)
    PROVE  ToTheEnd(u) \in Seq(Runs) /\ Range(ToTheEnd(u)) \subseteq Range(order)
<1> DEFINE p == CHOOSE i \in DOMAIN order : order[i] = u
           q == [i \in DOMAIN order |-> IF i < p THEN order[i]
                                        ELSE IF i < Len(order) THEN order[i + 1] ELSE u]
<1>1. order \in Seq(Runs) /\ DOMAIN order = 1..Len(order) /\ Len(order) \in Nat
      /\ \A i \in DOMAIN order : order[i] \in Range(order) /\ order[i] \in Runs
  BY DEF ContextTypes, Range
<1>2. u \in Runs
  BY <1>1 DEF Range
<1>3. \A i \in DOMAIN order : i < Len(order) => i + 1 \in DOMAIN order
  BY <1>1
<1>4. \A i \in DOMAIN order : q[i] \in Range(order) /\ q[i] \in Runs
  BY <1>1, <1>2, <1>3
<1>5. DOMAIN q = 1..Len(order)
  BY <1>1
<1>6. q \in [1..Len(order) -> Runs]
  BY <1>1, <1>4
<1>7. ToTheEnd(u) = q
  BY DEF ToTheEnd
<1> HIDE DEF q
<1>8. Range(q) \subseteq Range(order)
  BY <1>1, <1>4, <1>5 DEF Range
<1>9. q \in Seq(Runs)
  BY <1>1, <1>6
<1> QED BY <1>7, <1>8, <1>9

LEMMA SubmitMemory == ASSUME IInv, Memory, NEW u \in Runs, Submit(u) PROVE Memory'
<1>1. /\ u \notin started /\ started' = started \cup {u}
      /\ UNCHANGED <<stage, result, context, asked, cut, refused>>
      /\ order' = Append(order, u) \/ (order # <<>> /\ order' = Append(Tail(order), u))
  <2>1. order = <<>> => Len(order) < Keep
    OBVIOUS
  <2> QED BY <2>1 DEF Submit, history
<1>2. order' \in Seq(Runs) /\ Range(order') \subseteq Range(order) \cup {u}
  <2>1. order \in Seq(Runs)
    BY DEF Memory, ContextTypes
  <2>2. CASE order' = Append(order, u)
    BY <2>1, <2>2 DEF Range
  <2>3. CASE order # <<>> /\ order' = Append(Tail(order), u)
    <3>1. Tail(order) \in Seq(Runs) /\ \A i \in DOMAIN Tail(order) : i + 1 \in DOMAIN order
          /\ Tail(order)[i] = order[i + 1]
      BY <2>1, <2>3
    <3>2. \A i \in DOMAIN order' : (i \in DOMAIN Tail(order) /\ order'[i] = Tail(order)[i]) \/ order'[i] = u
      BY <2>3, <3>1
    <3> QED BY <2>3, <3>1, <3>2 DEF Range
  <2> QED BY <1>1, <2>2, <2>3
<1>3. ContextTypes' /\ Fresh' /\ Reported'
  BY <1>1, <1>2 DEF Memory, ContextTypes, Fresh, Reported
<1>4. ASSUME NEW v \in Runs, Followed(v)'  PROVE Told(v)'
  <2>1. CASE v # u
    <3>1. Told(v) /\ result \in [Copies -> Results]
      BY <1>1, <1>2, <1>4, <2>1 DEF Memory, Followed, IInv, Types
    <3> QED BY <1>1, <3>1, OnTheWay DEF Moves
  <2>2. CASE v = u
    <3>1. /\ context[u] = NewContext
          /\ \A c \in Copies : Run(c) = u => stage[c] = "none" /\ result[c] = "none"
      BY <1>1 DEF Memory, Fresh
    <3>2. /\ ~Asking(u)' /\ \A c \in Copies : Run(c) = u => ~UnderWay(c)'
          /\ \A i \in Spots(context[u].candidates) : ~(Rank(i, context[u].candidates) < 0)
      BY <1>1, <3>1, Ranks DEF Asking, UnderWay
    <3>3. Trying(u)'
      BY <1>1, <3>1, <3>2 DEF Trying, OneByOne, TriedSoFar, NewContext
    <3> QED BY <1>1, <2>2, <3>1, <3>3 DEF Told, Heard, NewContext
  <2> QED BY <2>1, <2>2
<1> QED BY <1>3, <1>4 DEF Memory

LEMMA ApprovedMemory == ASSUME IInv, Memory, NEW c \in Copies, Approved(c) PROVE Memory'
<1>1. /\ stage[c] = "parked" /\ stage' = [stage EXCEPT ![c] = "bus"] /\ stage \in [Copies -> Stages]
      /\ UNCHANGED <<result, context, asked, cut, refused, order, started>>
  BY DEF Approved, observer, history, IInv, Types
<1>2. Run(c) \in Runs /\ ~Followed(Run(c))
  BY <1>1, CopyTypes DEF Memory, Told
<1>3. ContextTypes' /\ Fresh' /\ Reported'
  BY <1>1 DEF Memory, ContextTypes, Fresh, Reported
<1>4. \A v \in Runs \ {Run(c)} : Followed(v)' => Told(v)'
  BY <1>1, <1>2, OthersTold
<1>5. ~Followed(Run(c))'
  BY <1>1, <1>2 DEF Followed
<1> QED BY <1>2, <1>3, <1>4, <1>5 DEF Memory

(* What the observer does with a report, and with an answer of the policy. *)
LEMMA IgnoresMemory == ASSUME IInv, Memory, NEW c \in Copies, Ignores(c) PROVE Memory'
<1> DEFINE u == Run(c)
<1>1. /\ stage[c] = "reports" /\ ~Locked /\ (~Known(u) \/ Route(c) # Expected(u))
      /\ stage' = [stage EXCEPT ![c] = "over"] /\ stage \in [Copies -> Stages]
      /\ order' = IF Known(u) THEN ToTheEnd(u) ELSE order
      /\ UNCHANGED <<result, started, context, asked, cut, refused>> /\ u \in Runs
  BY CopyTypes DEF Ignores, history, IInv, Types
<1> HIDE DEF u
<1>2. order' \in Seq(Runs) /\ Range(order') \subseteq Range(order)
  BY <1>1, EndKnows DEF Memory, ContextTypes, Known
<1>3. ContextTypes' /\ Fresh' /\ Reported'
  BY <1>1, <1>2 DEF Memory, ContextTypes, Fresh, Reported
<1>4. \A v \in Runs \ {u} : Followed(v)' => Told(v)'
  BY <1>1, <1>2, OthersTold DEF u
<1>5. ASSUME Followed(u)'  PROVE Told(u)'
  <2>1. Followed(u) /\ Told(u) /\ u \in Range(order)
    BY <1>1, <1>2, <1>5 DEF Followed, Memory
  <2>2. /\ \A d \in Copies \ {c} : stage'[d] = stage[d]
        /\ stage'[c] = "over" /\ ~Asking(u) /\ Run(c) = u
    BY <1>1 DEF Asking, IInv, OneAsks, Locked, u
  <2>3. ~Asking(u)' /\ (SomeHeard(u)' <=> SomeHeard(u)) /\ (\A r : Tried(u, r)' <=> Tried(u, r))
    BY <1>1, <2>2 DEF Asking, SomeHeard, Heard, Tried
  <2>4. ASSUME Trying(u), ~context[u].finished  PROVE Trying(u)'
    <3>1. Known(u) /\ Route(c) # Expected(u) /\ UnderWay(c)
      BY <1>1, <2>1, <2>4 DEF Known, UnderWay
    <3>2. Route(c) = Origin /\ context[u].pending # Nothing
      BY <2>2, <2>4, <3>1, CopyTypes DEF Trying, OneByOne, Expected, Memory, ContextTypes
    <3>3. \A d \in Copies \ {c} : UnderWay(d)' <=> UnderWay(d)
      BY <2>2 DEF UnderWay
    <3>4. OneByOne(u)'
      BY <1>1, <2>2, <2>4, <3>2, <3>3 DEF Trying, OneByOne
    <3>5. (SomeHeard(u) \/ TriedSoFar(u))'
      BY <1>1, <2>3, <2>4 DEF Trying, TriedSoFar
    <3>6. PICK d \in Copies : Run(d) = u /\ Route(d) = context[u].pending /\ UnderWay(d)
      BY <2>2, <2>4, <3>2 DEF Trying
    <3>7. d # c
      BY <3>1, <3>2, <3>6 DEF Expected
    <3>8. Chosen(u, context[u].pending)'
      BY <1>1, <2>2, <2>4, <3>2 DEF Trying, Chosen
    <3> QED BY <1>1, <2>3, <3>2, <3>3, <3>4, <3>5, <3>6, <3>7, <3>8 DEF Trying, Asking
  <2>5. Done(u) => Done(u)'
    BY <1>1, <2>3 DEF Done
  <2> QED BY <1>1, <2>1, <2>2, <2>4, <2>5 DEF Told, Heard
<1> QED BY <1>1, <1>3, <1>4, <1>5 DEF Memory

(* When the report of the chosen route has come, all before it are tried.  *)
LEMMA TriedUpTo ==
    ASSUME Memory, NEW u \in Runs, Trying(u), ~Asking(u), NEW c \in Copies, Run(c) = u,
           Route(c) = Expected(u), result[c] = "unavailable", UnderWay(c)
    PROVE  /\ Tried(u, Origin) \/ SomeHeard(u)
           /\ \/ SomeHeard(u)
              \/ \A i \in Spots(Candidates(u)) :
                    Rank(i, Candidates(u)) <= context[u].index => Tried(u, Alternatives[i])
           /\ context[u].pending = Nothing => context[u].index = 0
           /\ context[u].index \in Nat /\ Candidates(u) \subseteq Range(Alternatives)
<1>1. context[u].index \in Nat /\ Candidates(u) \subseteq Range(Alternatives)
  BY DEF Memory, ContextTypes, Candidates
<1>2. CASE context[u].pending = Nothing
  <2>1. Tried(u, Origin) /\ context[u].index = 0
    BY <1>2 DEF Tried, Expected, Trying
  <2>2. \A i \in Spots(Candidates(u)) : ~(Rank(i, Candidates(u)) <= 0)
    <3> SUFFICES ASSUME NEW i \in Spots(Candidates(u))  PROVE ~(Rank(i, Candidates(u)) <= 0)
      OBVIOUS
    <3>1. Rank(i, Candidates(u)) \in Nat /\ Rank(i, Candidates(u)) > 0
      BY Ranks
    <3> QED BY <3>1
  <2> QED BY <1>1, <2>1, <2>2
<1>3. CASE context[u].pending # Nothing
  <2> DEFINE S == context[u].candidates
  <2>1. Candidates(u) = S /\ Route(c) = context[u].pending
    BY <1>3 DEF Candidates, Expected
  <2>2. PICK i \in Spots(S) : Rank(i, S) = context[u].index /\ context[u].pending = Alternatives[i]
    BY <1>3 DEF Trying, Chosen
  <2>3. Rank(i, S) \in Nat /\ Rank(i, S) > 0
        /\ \A j \in Spots(S) : Rank(j, S) \in Nat /\ (Rank(j, S) = Rank(i, S) => j = i)
    BY Ranks
  <2>4. Tried(u, Alternatives[i])
    BY <2>1, <2>2 DEF Tried
  <2>5. SomeHeard(u) \/ TriedSoFar(u)
    BY DEF Trying
  <2>6. SomeHeard(u) \/ Tried(u, Origin)
    BY <2>2, <2>3, <2>5 DEF TriedSoFar
  <2> HIDE DEF S
  <2>7. ASSUME ~SomeHeard(u), NEW j \in Spots(S), Rank(j, S) <= context[u].index
        PROVE  Tried(u, Alternatives[j])
    <3>1. CASE Rank(j, S) = context[u].index
      BY <2>2, <2>3, <2>4, <3>1
    <3>2. CASE Rank(j, S) # context[u].index
      <4>1. Rank(j, S) < context[u].index
        BY <1>1, <2>3, <2>7, <3>2
      <4> QED BY <2>5, <2>7, <4>1 DEF TriedSoFar, S
    <3> QED BY <3>1, <3>2
  <2> QED BY <1>1, <1>3, <2>1, <2>6, <2>7
<1> QED BY <1>2, <1>3

LEMMA FinishesMemory == ASSUME IInv, Memory, NEW c \in Copies, Finishes(c) PROVE Memory'
<1> DEFINE u == Run(c)
<1>1. /\ stage[c] = "reports" /\ ~Locked /\ Known(u) /\ Route(c) = Expected(u)
      /\ result[c] # "unavailable" \/ Exhausted(u)
      /\ stage' = [stage EXCEPT ![c] = "over"] /\ stage \in [Copies -> Stages]
      /\ order' = ToTheEnd(u) /\ result \in [Copies -> Results]
      /\ context' = [context EXCEPT ![u].finished = TRUE, ![u].candidates =
                         IF result[c] = "unavailable" THEN Candidates(u) ELSE @]
      /\ UNCHANGED <<result, started, asked, cut, refused>> /\ u \in Runs
  BY CopyTypes DEF Finishes, history, IInv, Types
<1> HIDE DEF u
<1>2. order' \in Seq(Runs) /\ Range(order') \subseteq Range(order)
  BY <1>1, EndKnows DEF Memory, ContextTypes, Known
<1>3. /\ context[u].candidates \subseteq Range(Alternatives)
      /\ Candidates(u) \subseteq Range(Alternatives)
  BY <1>1 DEF Memory, ContextTypes, Candidates
<1>4. /\ \A v \in Runs \ {u} : context'[v] = context[v]
      /\ context'[u].finished
      /\ result[c] = "unavailable" => context'[u].candidates = Candidates(u)
  BY <1>1 DEF Memory, ContextTypes
<1>5. ContextTypes'
  <2>1. (IF result[c] = "unavailable" THEN Candidates(u) ELSE context[u].candidates)
            \in SUBSET Range(Alternatives)
    BY <1>3
  <2>2. PICK S \in SUBSET Range(Alternatives) :
            context' = [context EXCEPT ![u].finished = TRUE, ![u].candidates = S]
    BY <1>1, <2>1
  <2> DEFINE T == [candidates : SUBSET Range(Alternatives), index : Nat,
                   pending : Range(Alternatives) \cup {Nothing}, finished : BOOLEAN]
  <2>3. context \in [Runs -> T] /\ context[u] \in T
    BY <1>1 DEF Memory, ContextTypes
  <2>4. PICK x : x = [context[u] EXCEPT !.finished = TRUE, !.candidates = S]
    OBVIOUS
  <2>5. x \in T /\ context' = [context EXCEPT ![u] = x]
    BY <2>2, <2>3, <2>4
  <2>6. context' \in [Runs -> T]
    BY <2>3, <2>5
  <2> QED BY <1>1, <1>2, <2>6 DEF Memory, ContextTypes
<1>6. Fresh' /\ Reported'
  <2>1. u \in started
    BY <1>1 DEF Memory, Fresh, u
  <2> QED BY <1>1, <1>4, <2>1, ZenonT(60) DEF Memory, Fresh, Reported, u
<1>7. \A v \in Runs \ {u} : Followed(v)' => Told(v)'
  BY <1>1, <1>2, <1>4, OthersTold DEF u
<1>8. ASSUME Followed(u)'  PROVE Told(u)'
  <2>1. Followed(u) /\ Told(u) /\ Trying(u)
    BY <1>1, <1>2, <1>8 DEF Followed, Memory, Told, Known
  <2>2. /\ \A d \in Copies \ {c} : stage'[d] = stage[d]
        /\ stage'[c] = "over" /\ ~Asking(u) /\ Run(c) = u
    BY <1>1 DEF Asking, IInv, OneAsks, Locked, u
  <2>3. ~Asking(u)' /\ (SomeHeard(u)' <=> SomeHeard(u)) /\ (\A r : Tried(u, r)' <=> Tried(u, r))
    BY <1>1, <2>2 DEF Asking, SomeHeard, Heard, Tried
  <2>4. CASE result[c] # "unavailable"
    <3>1. Heard(c)
      BY <1>1, <2>4 DEF Memory, Reported, Heard, Results
    <3> QED BY <1>1, <1>4, <2>1, <2>2, <2>3, <3>1 DEF Told, Done, Heard, SomeHeard
  <2>5. CASE result[c] = "unavailable"
    <3>1. UnderWay(c)
      BY <1>1 DEF UnderWay
    <3>2. /\ Tried(u, Origin) \/ SomeHeard(u)
          /\ \/ SomeHeard(u)
             \/ \A i \in Spots(Candidates(u)) :
                   Rank(i, Candidates(u)) <= context[u].index => Tried(u, Alternatives[i])
          /\ context[u].index \in Nat
      BY <1>1, <2>1, <2>2, <2>5, <3>1, TriedUpTo
    <3>3. ASSUME NEW r \in Candidates(u), ~SomeHeard(u)  PROVE Tried(u, r)
      <4>1. PICK i \in Spots(Candidates(u)) : r = Alternatives[i]
        BY <1>3 DEF Spots, Range
      <4>2. /\ Rank(i, Candidates(u)) \in Nat /\ Cardinality(Spots(Candidates(u))) \in Nat
            /\ Rank(i, Candidates(u)) <= Cardinality(Spots(Candidates(u)))
        BY Ranks
      <4>3. Rank(i, Candidates(u)) <= context[u].index
        BY <1>1, <2>5, <3>2, <4>2 DEF Exhausted
      <4> QED BY <3>2, <3>3, <4>1, <4>3
    <3>4. Done(u)'
      BY <1>4, <2>3, <2>5, <3>2, <3>3 DEF Done
    <3> QED BY <1>1, <1>4, <2>1, <2>2, <3>4 DEF Told, Heard
  <2> QED BY <2>4, <2>5
<1> QED BY <1>1, <1>5, <1>6, <1>7, <1>8 DEF Memory

LEMMA FallsBackMemory == ASSUME IInv, Memory, NEW c \in Copies, FallsBack(c) PROVE Memory'
<1> DEFINE u == Run(c)
           S == Candidates(u)
<1>1. /\ stage[c] = "reports" /\ ~Locked /\ Known(u) /\ Route(c) = Expected(u)
      /\ result[c] = "unavailable"
      /\ stage' = [stage EXCEPT ![c] = "asks"] /\ stage \in [Copies -> Stages]
      /\ order' = ToTheEnd(u) /\ asked = Nothing
      /\ context' = [context EXCEPT ![u].candidates = S, ![u].index = @ + 1]
      /\ UNCHANGED <<result, started, cut, refused>> /\ u \in Runs
  BY CopyTypes DEF FallsBack, history, IInv, Types, Locked
<1>2. PICK i \in Spots(S) : Rank(i, S) = context[u].index + 1 /\ asked' = Alternatives[i]
  BY DEF FallsBack
<1> HIDE DEF u, S
<1>3. order' \in Seq(Runs) /\ Range(order') \subseteq Range(order)
  BY <1>1, EndKnows DEF Memory, ContextTypes, Known
<1>4. S \subseteq Range(Alternatives) /\ context[u].index \in Nat
  BY <1>1 DEF Memory, ContextTypes, Candidates, S
<1>5. /\ \A v \in Runs \ {u} : context'[v] = context[v]
      /\ context'[u].candidates = S /\ context'[u].index = context[u].index + 1
      /\ context'[u].pending = context[u].pending /\ context'[u].finished = context[u].finished
  BY <1>1 DEF Memory, ContextTypes
<1>6. ContextTypes'
  BY <1>1, <1>3, <1>4 DEF Memory, ContextTypes
<1>7. Fresh' /\ Reported'
  <2>1. u \in started
    BY <1>1 DEF Memory, Fresh, u
  <2> QED BY <1>1, <1>5, <2>1 DEF Memory, Fresh, Reported, u
<1>8. \A v \in Runs : ~Asking(v)
  BY <1>1 DEF Asking, IInv, OneAsks
<1>9. \A v \in Runs \ {u} : Followed(v)' => Told(v)'
  BY <1>1, <1>3, <1>5, <1>8, OthersTold DEF u
<1>10. ASSUME Followed(u)'  PROVE Told(u)'
  <2>1. Followed(u) /\ Told(u) /\ Trying(u) /\ ~context[u].finished
    BY <1>1, <1>3, <1>10 DEF Followed, Memory, Told, Known
  <2>2. /\ \A d \in Copies \ {c} : stage'[d] = stage[d] /\ (UnderWay(d)' <=> UnderWay(d))
        /\ stage'[c] = "asks" /\ ~Asking(u) /\ Run(c) = u /\ UnderWay(c) /\ UnderWay(c)'
    BY <1>1, <1>8 DEF UnderWay, u
  <2>3. Asking(u)' /\ (SomeHeard(u)' <=> SomeHeard(u)) /\ (\A r : Tried(u, r)' <=> Tried(u, r))
    BY <1>1, <2>2 DEF Asking, SomeHeard, Heard, Tried
  <2>4. /\ Tried(u, Origin) \/ SomeHeard(u)
        /\ SomeHeard(u) \/ \A j \in Spots(S) : Rank(j, S) <= context[u].index => Tried(u, Alternatives[j])
    BY <1>1, <2>1, <2>2, TriedUpTo DEF S
  <2>5. SomeHeard(u)' \/ TriedSoFar(u)'
    <3>1. \A j \in Spots(S) : Rank(j, S) \in Nat
      BY Ranks
    <3>2. \A j \in Spots(S) : Rank(j, S) < context[u].index + 1 => Rank(j, S) <= context[u].index
      BY <1>4, <3>1
    <3> QED BY <1>5, <2>3, <2>4, <3>2 DEF TriedSoFar
  <2>6. OneByOne(u)'
    <3>1. \A d \in Copies : Run(d) = u /\ Route(d) # Origin /\ UnderWay(d) => d = c
      BY <1>1, <2>1, <2>2, CopyTypes DEF Trying, OneByOne, Expected, Memory, ContextTypes
    <3>2. \A d \in Copies : Run(d) = u /\ stage'[d] = "asks" => d = c
      BY <1>8, <1>1, <2>2 DEF Asking
    <3> QED BY <1>1, <1>5, <2>1, <2>2, <3>1, <3>2 DEF Trying, OneByOne
  <2>7. \A d \in Copies : Run(d) = u /\ stage'[d] = "asks" =>
            Route(d) = Expected(u)' /\ context'[u].index > 0 /\ Chosen(u, asked)'
    <3>1. \A d \in Copies : Run(d) = u /\ stage'[d] = "asks" => d = c
      BY <1>8, <1>1, <2>2 DEF Asking
    <3>2. Chosen(u, asked)'
      BY <1>2, <1>5 DEF Chosen
    <3> QED BY <1>1, <1>4, <1>5, <3>1, <3>2 DEF Expected
  <2>8. Trying(u)'
    BY <2>3, <2>5, <2>6, <2>7 DEF Trying
  <2> QED BY <1>1, <1>5, <2>1, <2>2, <2>8 DEF Told, Heard
<1> QED BY <1>1, <1>6, <1>7, <1>9, <1>10 DEF Memory

LEMMA AllowedMemory == ASSUME IInv, Memory, NEW c \in Copies, Allowed(c) PROVE Memory'
<1> DEFINE u == Run(c)
<1>0. PICK d : d = <<Msg(c), asked>>
  OBVIOUS
<1>1. /\ stage[c] = "asks" /\ asked' = Nothing /\ stage \in [Copies -> Stages]
      /\ stage' = [stage EXCEPT ![c] = "over", ![d] = "bus"]
      /\ context' = [context EXCEPT ![u].pending = asked]
      /\ UNCHANGED <<result, started, order, cut, refused>> /\ u \in Runs
  BY <1>0, CopyTypes DEF Allowed, Records, history, IInv, Types
<1>2. /\ asked \in Range(Alternatives) /\ asked # Nothing /\ asked # Origin
      /\ d \in Copies /\ Run(d) = u /\ Route(d) = asked
      /\ result[c] = "unavailable" /\ \A e \in Copies : stage[e] = "asks" => e = c
  <2>1. asked \in Range(Alternatives) /\ asked # Nothing /\ asked \in Routes /\ asked # Origin
    BY <1>1, CopyTypes DEF IInv, Types, OneAsks
  <2> QED BY <1>0, <1>1, <2>1, CopyTypes DEF IInv, OneAsks, Run, Msg, Route
<1>3. /\ stage'[d] = "bus" /\ (c # d => stage'[c] = "over") /\ Run(c) = u
      /\ \A e \in Copies \ {c, d} : stage'[e] = stage[e]
  BY <1>1, <1>2
<1> HIDE DEF u
<1>4. /\ \A v \in Runs \ {u} : context'[v] = context[v] /\ ~Asking(v)
      /\ context'[u].candidates = context[u].candidates /\ context'[u].index = context[u].index
      /\ context'[u].pending = asked /\ context'[u].finished = context[u].finished
  BY <1>1, <1>2, <1>3 DEF Memory, ContextTypes, Asking
<1>5. ContextTypes'
  BY <1>1, <1>2, ZenonT(60) DEF Memory, ContextTypes
<1>6. Fresh' /\ Reported'
  <2>1. u \in started
    BY <1>1, <1>3 DEF Memory, Fresh
  <2> QED BY <1>1, <1>2, <1>3, <1>4, <2>1 DEF Memory, Fresh, Reported
<1>7. \A v \in Runs \ {u} : Followed(v)' => Told(v)'
  BY <1>1, <1>2, <1>3, <1>4, OthersTold
<1>8. ASSUME Followed(u)'  PROVE Told(u)'
  <2>1. Followed(u) /\ Told(u) /\ Asking(u) /\ Trying(u) /\ ~context[u].finished
    BY <1>1, <1>3, <1>8 DEF Followed, Memory, Told, Asking, Done
  <2>2. ~Asking(u)' /\ (SomeHeard(u)' <=> SomeHeard(u)) /\ (\A r : Tried(u, r)' <=> Tried(u, r))
    BY <1>1, <1>2, <1>3 DEF Asking, SomeHeard, Heard, Tried
  <2>3. UnderWay(c) /\ Route(c) = Expected(u) /\ Chosen(u, asked)
    BY <1>1, <1>3, <2>1 DEF UnderWay, Trying
  <2>4. \A e \in Copies : Run(e) = u /\ Route(e) # Origin /\ UnderWay(e) => e = c
    BY <1>1, <1>3, <2>1 DEF Trying, OneByOne
  <2>5. /\ \A e \in Copies \ {d} : UnderWay(e)' => e # c /\ UnderWay(e)
        /\ UnderWay(d)'
        /\ \A e \in Copies \ {c, d} : UnderWay(e) => UnderWay(e)'
    BY <1>3 DEF UnderWay
  <2>6. \A e \in Copies : stage'[e] # "asks"
    BY <1>2, <1>3
  <2>7. OneByOne(u)'
    <3> SUFFICES ASSUME NEW e \in Copies, Run(e) = u, Route(e) # Origin
                 PROVE  /\ ~UnderWay(e)' => stage'[e] = "none" \/ result'[e] = "unavailable"
                        /\ UnderWay(e)' => e = d
      BY <1>2, <1>4, <2>6 DEF OneByOne
    <3>1. UnderWay(e)' => e = d
      BY <2>4, <2>5
    <3>2. ~UnderWay(e)' /\ e # c => stage'[e] = "none" \/ result'[e] = "unavailable"
      BY <1>1, <1>3, <2>1, <2>5 DEF Trying, OneByOne
    <3> QED BY <1>1, <1>2, <3>1, <3>2
  <2>8. SomeHeard(u)' \/ TriedSoFar(u)'
    BY <1>4, <2>1, <2>2 DEF Trying, TriedSoFar
  <2>9. Chosen(u, context[u].pending)'
    BY <1>4, <2>3 DEF Chosen
  <2>10. Trying(u)'
    BY <1>2, <1>4, <2>2, <2>5, <2>6, <2>7, <2>8, <2>9 DEF Trying
  <2>11. ~Heard(d)
    <3>1. CASE d = c
      BY <1>2, <3>1 DEF Heard
    <3>2. CASE d # c
      <4>1. ~UnderWay(d)
        BY <1>2, <2>4, <3>2
      <4> QED BY <1>2, <2>1, <4>1 DEF Told, Trying, OneByOne, Heard
    <3> QED BY <3>1, <3>2
  <2>12. \A e \in Copies : Run(e) = u =>
             stage'[e] # "parked" /\ (Heard(e)' => stage'[e] \in {"reports", "over"})
    BY <1>1, <1>3, <2>1, <2>11 DEF Told, Heard
  <2> QED BY <1>4, <2>1, <2>10, <2>12 DEF Told
<1> QED BY <1>1, <1>5, <1>6, <1>7, <1>8 DEF Memory

LEMMA RefusedMemory == ASSUME IInv, Memory, NEW c \in Copies, Refused(c) PROVE Memory'
<1> DEFINE u == Run(c)
           d == <<Msg(c), asked>>
<1>1. PICK s \in {"none", "parked"} : stage' = [stage EXCEPT ![c] = "over", ![d] = s]
  BY DEF Refused
<1>2. /\ stage[c] = "asks" /\ asked' = Nothing /\ stage \in [Copies -> Stages]
      /\ context' = [context EXCEPT ![u].finished = TRUE]
      /\ UNCHANGED <<result, started, order, cut>> /\ refused' = refused \cup {u} /\ u \in Runs
  BY CopyTypes DEF Refused, IInv, Types
<1>3. d \in Copies /\ Run(d) = u /\ \A e \in Copies : stage[e] = "asks" => e = c
  <2>1. asked \in Routes
    BY <1>2, CopyTypes DEF IInv, Types, OneAsks
  <2> QED BY <1>2, <2>1, CopyTypes DEF IInv, OneAsks, Run, Msg
<1>4. /\ \A e \in Copies \ {c, d} : stage'[e] = stage[e] /\ stage'[e] # "asks"
      /\ stage'[d] # "reports" /\ stage'[c] # "reports" /\ Run(c) = u
  BY <1>1, <1>2, <1>3
<1> HIDE DEF u, d
<1>5. \A v \in Runs \ {u} : context'[v] = context[v] /\ ~Asking(v)
  BY <1>2, <1>3, <1>4 DEF Memory, ContextTypes, Asking
<1>6. ContextTypes'
  BY <1>2 DEF Memory, ContextTypes
<1>7. Fresh' /\ Reported'
  <2>1. u \in started
    BY <1>2, <1>4 DEF Memory, Fresh
  <2> QED BY <1>2, <1>3, <1>4, <1>5, <2>1, SMTT(60) DEF Memory, Fresh, Reported
<1>8. \A v \in Runs \ {u} : Followed(v)' => Told(v)'
  BY <1>2, <1>3, <1>4, <1>5, OthersTold
<1>9. ~Followed(u)'
  BY <1>2 DEF Followed
<1> QED BY <1>2, <1>6, <1>7, <1>8, <1>9 DEF Memory

(* The steps of the dispatcher and of the tasks.                           *)
LEMMA DispatchMoves ==
    ASSUME IInv, Takes \/ GetsSlot \/ \E c \in Copies : Sends(c)
    PROVE  /\ \A c \in Copies : Moves(c) /\ (stage[c] = "none" => stage'[c] = "none")
           /\ UNCHANGED <<observer, cut, refused>>
<1>1. stage \in [Copies -> Stages] /\ result \in [Copies -> Results] /\ UNCHANGED <<observer, cut, refused>>
  BY DEF IInv, Types, Takes, GetsSlot, Sends, TaskBegins, Attempts, Delivered, Rejected, Breaks, history
<1>2. ASSUME NEW c \in Copies, stage[c] \in {"bus", "hand"} \cup Waiting,
             \/ \E to \in {"bus", "hand"} \cup Waiting :
                    stage' = [stage EXCEPT ![c] = to] /\ result' = result
             \/ \E r \in Results \ {"none"} : Comes(c, r)
      PROVE  \A d \in Copies : Moves(d) /\ (stage[d] = "none" => stage'[d] = "none")
  BY <1>1, <1>2 DEF Moves, Comes, Waiting
<1>3. "unknown" \in Results \ {"none"} /\ "unavailable" \in Results \ {"none"}
      /\ "delivered" \in Results \ {"none"}
  BY DEF Results
<1>4. ASSUME NEW c, NEW o, Queues(c, o)
      PROVE  \/ stage' = [stage EXCEPT ![c] = "made"] /\ result' = result
             \/ Comes(c, "unknown")
  BY <1>4 DEF Queues
<1>5. CASE Takes
  <2>1. bus # <<>> /\ bus \in Seq(Copies)
    BY <1>5 DEF Takes, IInv, Types
  <2>2. Head(bus) = bus[1] /\ 1 \in DOMAIN bus /\ Head(bus) \in Copies
    BY <2>1
  <2>3. Head(bus) \in Copies /\ stage[Head(bus)] = "bus"
    BY <2>2 DEF IInv, BusHolds
  <2>4. \/ \E to \in {"bus", "hand"} \cup Waiting :
               stage' = [stage EXCEPT ![Head(bus)] = to] /\ result' = result
        \/ \E r \in Results \ {"none"} : Comes(Head(bus), r)
    BY <1>3, <1>4, <1>5 DEF Takes, Waiting
  <2> QED BY <1>1, <1>2, <2>3, <2>4
<1>6. CASE GetsSlot
  <2>1. hand.copy \in Copies /\ stage[hand.copy] = "hand" /\ Queues(hand.copy, hand.object)
    BY <1>6 DEF GetsSlot, IInv, Types
  <2> QED BY <1>1, <1>2, <1>3, <1>4, <2>1 DEF Waiting
<1>7. ASSUME NEW c \in Copies, Sends(c)
      PROVE  \A d \in Copies : Moves(d) /\ (stage[d] = "none" => stage'[d] = "none")
  <2>1. stage[c] \in Waiting
    BY <1>7 DEF Sends, TaskBegins, Attempts, NextInLine, Delivered, Rejected, Breaks, Waiting
  <2>2. \/ \E to \in {"bus", "hand"} \cup Waiting :
               stage' = [stage EXCEPT ![c] = to] /\ result' = result
        \/ \E r \in Results \ {"none"} : Comes(c, r)
    BY <1>3, <1>7 DEF Sends, TaskBegins, Attempts, Delivered, Rejected, Refusal, Breaks, Waiting
  <2> QED BY <1>2, <2>1, <2>2
<1> QED BY <1>1, <1>5, <1>6, <1>7

LEMMA StopMemory == ASSUME IInv, Memory, NEW r \in Routes, StopChannel(r) PROVE Memory'
<1> USE DEF IInv, Types
<1> DEFINE hit == {c \in tasks : Route(c) = r}
<1>1. /\ \A c \in Copies : stage'[c] = IF c \in hit THEN CancelledTo(c) ELSE stage[c]
      /\ \A c \in Copies : result'[c] = IF c \in hit /\ stage[c] \in Waiting THEN "unknown"
                                         ELSE result[c]
      /\ \A c \in hit : stage[c] \in Waiting \cup {"reports", "asks"}
      /\ cut' = cut \cup {Run(c) : c \in {d \in hit : stage[d] \notin Waiting}}
      /\ asked' = IF \E c \in hit : stage[c] = "asks" THEN Nothing ELSE asked
      /\ UNCHANGED <<started, context, order, refused>>
  BY DEF StopChannel, TasksWork
<1>2. \A c \in Copies :
          \/ Moves(c)
          \/ stage'[c] = "over" /\ stage[c] # "none" /\ Run(c) \in cut' /\ result'[c] = result[c]
  BY <1>1 DEF Moves, CancelledTo, Results, Waiting
<1>3. asked' = asked \/ \A u \in Runs : Asking(u) => u \in cut'
  <2> SUFFICES ASSUME NEW e \in hit, stage[e] = "asks", NEW u \in Runs, Asking(u)  PROVE u \in cut'
    BY <1>1
  <2>1. u = Run(e) /\ stage[e] \notin Waiting
    BY DEF Asking, OneAsks, Waiting
  <2> QED BY <1>1, <2>1
<1>4. \A c \in Copies : stage[c] = "none" => stage'[c] = "none"
  BY <1>1 DEF Waiting
<1> QED BY <1>1, <1>2, <1>3, <1>4, MemoryUntold

LEMMA AnswerMemory == ASSUME IInv, Memory, NEW m \in Msgs, Answer(m) PROVE Memory'
<1> DEFINE c == <<m, Origin>>
<1>1. /\ c \in Copies /\ c = <<Msg(c), Origin>> /\ Run(c) \in started /\ stage[c] = "none"
      /\ stage' = [stage EXCEPT ![c] = "bus"] /\ stage \in [Copies -> Stages]
      /\ UNCHANGED <<result, started, context, order, asked, refused, cut>>
  BY CopyTypes DEF Answer, IInv, Types, observer, history
<1> HIDE DEF c
<1>2. \A d \in Copies : Moves(d) /\ (stage[d] = "none" /\ stage'[d] # "none" => Run(d) \in started)
  BY <1>1 DEF Moves
<1> QED BY <1>1, <1>2, MemoryUntold

(* The observer's memory is true to what its runs' copies came to.         *)
LEMMA MemoryHolds == Spec => []Memory
<1>1. Init => Memory
  BY DEF Init, Memory, ContextTypes, NewContext, Fresh, Reported, Followed, Range
<1>2. IInv /\ Memory /\ [Next]_vars => Memory'
  <2> SUFFICES ASSUME IInv, Memory, [Next]_vars PROVE Memory'
    OBVIOUS
  <2>1. CASE \E u \in Runs : Submit(u)
    BY <2>1, SubmitMemory
  <2>2. CASE \E m \in Msgs : Answer(m)
    BY <2>2, AnswerMemory
  <2>3. CASE Takes \/ GetsSlot \/ \E c \in Copies : Sends(c)
    BY <2>3, DispatchMoves, MemoryUntold DEF observer
  <2>4. CASE \E c \in Copies : Approved(c)
    BY <2>4, ApprovedMemory
  <2>5. CASE \E c \in Copies : Observes(c)
    BY <2>5, IgnoresMemory, FinishesMemory, FallsBackMemory, AllowedMemory, RefusedMemory DEF Observes
  <2>6. CASE \E r \in Routes : StopChannel(r)
    BY <2>6, StopMemory
  <2>7. CASE (\E r \in Routes : ChannelStopped(r) \/ StartChannel(r)) \/ UNCHANGED vars
    <3>1. UNCHANGED <<stage, result, observer, cut, refused>>
      BY <2>7 DEF ChannelStopped, StartChannel, vars, history
    <3>2. \A c \in Copies : Moves(c)
      BY <3>1 DEF Moves
    <3> QED BY <3>1, <3>2, MemoryUntold DEF observer
  <2> QED BY <2>1, <2>2, <2>3, <2>4, <2>5, <2>6, <2>7 DEF Next
<1> QED BY <1>1, <1>2, Inductive, PTL DEF Spec

(* A run whose messages are all over has arrived, broken off or been       *)
(* refused by every route it had, unless newer runs pushed it out or the   *)
(* stop of a channel cut its report off.                                   *)
THEOREM NoRunForgotten == Spec => []NoneForgotten
<1>1. Memory => NoneForgotten
  <2> SUFFICES ASSUME Memory, NEW u \in started, u \in Range(order), u \notin cut \cup refused,
                      NEW c \in Copies, Run(c) = u, stage[c] # "none",
                      \A d \in Copies : Run(d) = u => ~UnderWay(d), ~SomeHeard(u)
               PROVE  /\ Tried(u, Origin) /\ \A r \in context[u].candidates : Tried(u, r)
                      /\ context[u].finished
    BY DEF NoneForgotten, SomeHeard, Heard, Tried
  <2>1. Told(u) /\ ~Asking(u) /\ \A d \in Copies : Run(d) = u => stage[d] \in {"none", "over"}
    BY DEF Memory, ContextTypes, Followed, Told, Asking, UnderWay
  <2>2. ~Trying(u)
    BY <2>1 DEF Trying
  <2> QED BY <2>1, <2>2 DEF Told, Done
<1> QED BY <1>1, MemoryHolds, PTL
-----------------------------------------------------------------------------
(* Why a message goes from route to route as Fallback promises: its copies *)
(* are in turn on the routes, a copy that was passed has been refused, and *)
(* the observer's context points behind the route it waits for.            *)
After(r) == Promise!After(r)
Unheard == {"none", "bus", "hand", "parked"} \cup Waiting

(* What is heard of a copy.                                                *)
Verdicts ==
    \A c \in Copies :
        /\ result[c] = "none" <=> stage[c] \in Unheard
        /\ result[c] = "delivered" => c \in reached

(* Of two copies of a message one is on a later route, and the other has   *)
(* been refused before.                                                    *)
Precedes(c, d) == stage[c] = "over" /\ result[c] = "unavailable" /\ Route(d) \in After(Route(c))
InTurn ==
    \A c, d \in Copies :
        Msg(c) = Msg(d) /\ c # d /\ stage[c] # "none" /\ stage[d] # "none" =>
            Precedes(c, d) \/ Precedes(d, c)

(* Copies on other routes than the job's.                                  *)
SentOn(c) == Route(c) # Origin /\ stage[c] # "none"
OneSentOn == \A c, d \in Copies : SentOn(c) /\ SentOn(d) /\ Run(c) = Run(d) => Msg(c) = Msg(d)

At(u, r, k) ==
    \E i \in Spots(context[u].candidates) :
        r = Alternatives[i] /\ Rank(i, context[u].candidates) <= k

(* What the observer's context says of its run.                            *)
Contexts ==
    \A u \in Runs : ~context[u].finished =>
        /\ context[u].pending = Nothing => \A c \in Copies : Run(c) = u => ~SentOn(c)
        /\ context[u].pending # Nothing => At(u, context[u].pending, context[u].index)

Asked ==
    \A c \in Copies : stage[c] = "asks" =>
        /\ ~context[Run(c)].finished /\ Route(c) = Expected(Run(c))
        /\ asked \in After(Route(c)) /\ At(Run(c), asked, context[Run(c)].index)

Trail == Verdicts /\ InTurn /\ OneSentOn /\ Contexts /\ Asked

LEMMA AfterOrders ==
    /\ \A r, s, t \in Routes : s \in After(r) /\ t \in After(s) => t \in After(r)
    /\ \A r, s \in Routes : s \in After(r) => r \notin After(s)
    /\ After(Origin) = Range(Alternatives)
    /\ \A r \in Routes : After(r) \subseteq Range(Alternatives)
    /\ \A i, j \in DOMAIN Alternatives : i < j => Alternatives[j] \in After(Alternatives[i])
<1>1. DOMAIN Alternatives \subseteq Nat
  OBVIOUS
<1>2. \A r, s \in Routes : s \in After(r) <=>
          \E j \in DOMAIN Alternatives :
              s = Alternatives[j] /\ (r = Origin \/ \E i \in DOMAIN Alternatives : i < j /\ Alternatives[i] = r)
  BY DEF After, Promise!After
<1>3. \A i \in DOMAIN Alternatives : Alternatives[i] \in Range(Alternatives) /\ Alternatives[i] # Origin
  BY DEF Range
<1>4. \A r, s, t \in Routes : s \in After(r) /\ t \in After(s) => t \in After(r)
  BY <1>1, <1>2, <1>3, RoutesDiffer
<1>5. \A r, s \in Routes : s \in After(r) => r \notin After(s)
  BY <1>1, <1>2, <1>3, RoutesDiffer
<1>6. After(Origin) = Range(Alternatives)
  BY DEF After, Promise!After, Range
<1>7. \A r \in Routes : After(r) \subseteq Range(Alternatives)
  BY DEF After, Promise!After, Range
<1>8. \A i, j \in DOMAIN Alternatives : i < j => Alternatives[j] \in After(Alternatives[i])
  BY DEF After, Promise!After
<1> QED BY <1>4, <1>5, <1>6, <1>7, <1>8

(* What leaves the trails as they are.                                     *)
Keeps(c) ==
    /\ stage'[c] = "none" <=> stage[c] = "none"
    /\ stage[c] = "over" => stage'[c] = "over" /\ result'[c] = result[c]

LEMMA TrailKept ==
    ASSUME Trail, \A c \in Copies : Keeps(c)
    PROVE  InTurn' /\ OneSentOn' /\ \A c \in Copies : SentOn(c)' <=> SentOn(c)
<1>1. \A c \in Copies : SentOn(c)' <=> SentOn(c)
  BY DEF Keeps, SentOn
<1>2. InTurn'
  BY DEF Keeps, InTurn, Precedes, Trail
<1> QED BY <1>1, <1>2 DEF OneSentOn, Trail

LEMMA QuietTrail ==
    ASSUME Trail, \A c \in Copies : Keeps(c), context' = context, Verdicts',
           \A c \in Copies : stage'[c] = "asks" => stage[c] = "asks" /\ asked' = asked
    PROVE  Trail'
<1>1. Contexts'
  BY TrailKept DEF Trail, Contexts, At
<1>2. Asked'
  BY DEF Trail, Asked, At, Expected
<1> QED BY <1>1, <1>2, TrailKept DEF Trail
(* A copy on its way, or under the knife of a stopping channel.            *)
LEMMA DispatchTrail ==
    ASSUME IInv, Trail, Takes \/ GetsSlot \/ \E c \in Copies : Sends(c)
    PROVE  Trail'
<1>1. \A c \in Copies : Moves(c) /\ (stage[c] = "none" => stage'[c] = "none")
  BY DispatchMoves
<1>2. UNCHANGED observer /\ reached \subseteq reached'
  BY DispatchMoves DEF Takes, GetsSlot, Sends, TaskBegins, Attempts, Delivered, Rejected, Breaks, history
<1>3. \A c \in Copies : Keeps(c)
  BY <1>1 DEF Keeps, Moves, Waiting
<1>4. \A c \in Copies : result'[c] = "delivered" => result[c] = "delivered" \/ c \in reached'
  <2>1. CASE Takes \/ GetsSlot
    BY <2>1 DEF IInv, Types, Takes, GetsSlot, Queues, Comes
  <2>2. ASSUME NEW c \in Copies, Sends(c)
        PROVE  \A d \in Copies : result'[d] = "delivered" => result[d] = "delivered" \/ d \in reached'
    BY <2>2 DEF IInv, Types, Sends, TaskBegins, Attempts, Delivered, Rejected, Refusal, Breaks, Comes
  <2> QED BY <2>1, <2>2
<1>5. Verdicts'
  <2>1. \A c \in Copies : result'[c] = "none" <=> stage'[c] \in Unheard
    BY <1>1 DEF Moves, Trail, Verdicts, Unheard, Waiting
  <2> QED BY <1>2, <1>4, <2>1 DEF Trail, Verdicts
<1> QED BY <1>1, <1>2, <1>3, <1>5, QuietTrail DEF observer, Moves, Waiting

LEMMA StopTrail == ASSUME IInv, Trail, NEW r \in Routes, StopChannel(r) PROVE Trail'
<1> USE DEF IInv, Types
<1> DEFINE hit == {c \in tasks : Route(c) = r}
<1>1. /\ \A c \in Copies : stage'[c] = IF c \in hit THEN CancelledTo(c) ELSE stage[c]
      /\ \A c \in Copies : result'[c] = IF c \in hit /\ stage[c] \in Waiting THEN "unknown"
                                         ELSE result[c]
      /\ \A c \in hit : stage[c] \in Waiting \cup {"reports", "asks"}
      /\ asked' = IF \E c \in hit : stage[c] = "asks" THEN Nothing ELSE asked
      /\ context' = context /\ reached \subseteq reached'
  BY DEF StopChannel, TasksWork
<1> HIDE DEF hit
<1>2. \A c \in Copies : Keeps(c)
  BY <1>1 DEF Keeps, CancelledTo, Waiting
<1>3. \A c \in Copies : stage'[c] = "asks" => stage[c] = "asks" /\ asked' = asked
  <2> SUFFICES ASSUME NEW c \in Copies, stage'[c] = "asks" PROVE stage[c] = "asks" /\ asked' = asked
    OBVIOUS
  <2>1. c \notin hit /\ stage[c] = "asks"
    BY <1>1 DEF CancelledTo
  <2>2. \A d \in hit : d \in Copies
    BY DEF hit
  <2> QED BY <1>1, <2>1, <2>2 DEF OneAsks
<1>4. Verdicts'
  BY <1>1 DEF Trail, Verdicts, Unheard, CancelledTo, Waiting
<1> QED BY <1>1, <1>2, <1>3, <1>4, QuietTrail

LEMMA AnswerTrail == ASSUME IInv, Trail, NEW m \in Msgs, Answer(m) PROVE Trail'
<1> DEFINE c == <<m, Origin>>
<1>1. /\ c \in Copies /\ Route(c) = Origin /\ Msg(c) = m /\ stage[c] = "none"
      /\ stage \in [Copies -> Stages] /\ stage' = [stage EXCEPT ![c] = "bus"]
      /\ UNCHANGED <<result, context, asked, reached>>
  BY CopyTypes DEF Answer, IInv, Types, observer, history, Route
<1>2. \A d \in Copies : Msg(d) = Msg(c) => stage[d] = "none"
  BY <1>1 DEF IInv, Begun
<1> HIDE DEF c
<1>3. stage'[c] = "bus" /\ \A d \in Copies \ {c} : stage'[d] = stage[d]
  BY <1>1
<1>4. Verdicts'
  BY <1>1, <1>3 DEF Trail, Verdicts, Unheard
<1>5. InTurn'
  BY <1>1, <1>2, <1>3 DEF Trail, InTurn, Precedes
<1>6. \A d \in Copies : SentOn(d)' <=> SentOn(d)
  BY <1>1, <1>3 DEF SentOn
<1>7. OneSentOn' /\ Contexts'
  BY <1>1, <1>6 DEF Trail, OneSentOn, Contexts, At
<1>8. Asked'
  BY <1>1, <1>3 DEF Trail, Asked, At, Expected
<1> QED BY <1>4, <1>5, <1>7, <1>8 DEF Trail

LEMMA ApprovedTrail == ASSUME IInv, Trail, NEW c \in Copies, Approved(c) PROVE Trail'
<1>1. /\ stage[c] = "parked" /\ stage \in [Copies -> Stages] /\ stage' = [stage EXCEPT ![c] = "bus"]
      /\ UNCHANGED <<result, context, asked, reached>>
  BY DEF Approved, IInv, Types, observer, history
<1>2. \A d \in Copies : Keeps(d)
  BY <1>1 DEF Keeps
<1>3. Verdicts'
  BY <1>1 DEF Trail, Verdicts, Unheard
<1> QED BY <1>1, <1>2, <1>3, QuietTrail

LEMMA ReportTrail ==
    ASSUME IInv, Trail, Memory, NEW c \in Copies, Ignores(c) \/ Finishes(c)
    PROVE  Trail'
<1>1. /\ stage[c] = "reports" /\ stage \in [Copies -> Stages] /\ stage' = [stage EXCEPT ![c] = "over"]
      /\ UNCHANGED <<result, asked, reached>>
      /\ \A d \in Copies : stage[d] # "asks"
  BY DEF Ignores, Finishes, IInv, Types, OneAsks, Locked, history
<1>2. \A d \in Copies : Keeps(d)
  BY <1>1 DEF Keeps
<1>3. Verdicts'
  BY <1>1 DEF Trail, Verdicts, Unheard, Waiting
<1>4. \A u \in Runs : context'[u].finished \/ context'[u] = context[u]
  BY DEF Ignores, Finishes, Memory, ContextTypes
<1>5. Contexts'
  BY <1>2, <1>4, TrailKept DEF Contexts, At, Trail
<1>6. Asked'
  BY <1>1 DEF Asked
<1> QED BY <1>2, <1>3, <1>5, <1>6, TrailKept DEF Trail
LEMMA RankGrows ==
    ASSUME NEW S, NEW i \in Spots(S), NEW j \in Spots(S), Rank(i, S) < Rank(j, S)
    PROVE  i \in Nat /\ j \in Nat /\ i < j
<1>1. DOMAIN Alternatives = 1..Len(Alternatives) /\ i \in Nat /\ j \in Nat
  BY DEF Spots
<1>2. SUFFICES ASSUME j <= i PROVE FALSE
  BY <1>1
<1>3. {k \in Spots(S) : k <= j} \subseteq {k \in Spots(S) : k <= i}
  <2>1. \A k \in Spots(S) : k \in Nat
    BY <1>1 DEF Spots
  <2> SUFFICES ASSUME NEW k \in Spots(S), k <= j PROVE k <= i
    OBVIOUS
  <2>2. k \in Nat /\ i \in Nat /\ j \in Nat /\ j <= i
    BY <1>1, <1>2, <2>1
  <2> QED BY <2>2
<1>4. IsFiniteSet({k \in Spots(S) : k <= i})
  <2>1. IsFiniteSet(1..Len(Alternatives))
    BY FS_Interval
  <2> QED BY <1>1, <2>1, FS_Subset DEF Spots
<1>5. Cardinality({k \in Spots(S) : k <= j}) <= Cardinality({k \in Spots(S) : k <= i})
  BY <1>3, <1>4, FS_Subset
<1>6. Rank(j, S) <= Rank(i, S)
  BY <1>5 DEF Rank
<1> QED BY <1>6, Ranks

LEMMA FallsBackTrail == ASSUME IInv, Trail, Memory, NEW c \in Copies, FallsBack(c) PROVE Trail'
<1> DEFINE u == Run(c)
           S == Candidates(u)
<1>1. /\ stage[c] = "reports" /\ Known(u) /\ Route(c) = Expected(u)
      /\ stage \in [Copies -> Stages] /\ stage' = [stage EXCEPT ![c] = "asks"] /\ asked = Nothing
      /\ context' = [context EXCEPT ![u].candidates = S, ![u].index = @ + 1]
      /\ UNCHANGED <<result, reached>> /\ u \in Runs
  BY CopyTypes DEF FallsBack, history, IInv, Types, Locked
<1>2. PICK j \in Spots(S) : Rank(j, S) = context[u].index + 1 /\ asked' = Alternatives[j]
  BY DEF FallsBack
<1> HIDE DEF u, S
<1>3. \A d \in Copies : stage[d] # "asks"
  BY <1>1 DEF IInv, OneAsks
<1>4. /\ \A v \in Runs \ {u} : context'[v] = context[v]
      /\ context'[u].candidates = S /\ context'[u].index = context[u].index + 1
      /\ context'[u].pending = context[u].pending /\ context'[u].finished = context[u].finished
      /\ context[u].index \in Nat /\ ~context[u].finished
      /\ context[u].pending # Nothing => S = context[u].candidates
  BY <1>1 DEF Memory, ContextTypes, Known, Candidates, S
<1>5. \A d \in Copies : Keeps(d)
  BY <1>1 DEF Keeps
<1>6. Verdicts'
  BY <1>1 DEF Trail, Verdicts, Unheard, Waiting
<1>7. Contexts'
  <2>1. ASSUME context[u].pending # Nothing  PROVE At(u, context[u].pending, context[u].index)'
    <3>1. PICK i \in Spots(S) : context[u].pending = Alternatives[i] /\ Rank(i, S) <= context[u].index
      BY <1>1, <1>4, <2>1 DEF Trail, Contexts, At
    <3>2. Rank(i, S) <= context[u].index + 1
      BY <1>4, <3>1, Ranks
    <3> QED BY <1>4, <3>1, <3>2 DEF At
  <2> QED BY <1>4, <1>5, <2>1, TrailKept DEF Contexts, At, Trail
<1>8. asked' \in After(Route(c))
  <2>1. CASE context[u].pending = Nothing
    BY <1>1, <1>2, <2>1, AfterOrders, Ranks DEF Expected
  <2>2. CASE context[u].pending # Nothing
    <3>1. PICK i \in Spots(S) : Route(c) = Alternatives[i] /\ Rank(i, S) <= context[u].index
      BY <1>1, <1>4, <2>2 DEF Expected, Trail, Contexts, At
    <3>2. Rank(i, S) < Rank(j, S)
      BY <1>2, <1>4, <3>1, Ranks
    <3> QED BY <1>2, <3>1, <3>2, RankGrows, AfterOrders DEF Spots
  <2> QED BY <2>1, <2>2
<1>9. Asked'
  <2>1. \A d \in Copies : stage'[d] = "asks" => d = c
    BY <1>1, <1>3
  <2>2. At(u, asked, context[u].index)'
    <3>1. Rank(j, S) <= context'[u].index
      BY <1>2, <1>4, Ranks
    <3> QED BY <1>2, <1>4, <3>1 DEF At
  <2> QED BY <1>1, <1>4, <1>8, <2>1, <2>2 DEF Asked, Expected, u
<1> QED BY <1>5, <1>6, <1>7, <1>9, TrailKept DEF Trail

(* The copy c is the last of its message; it is asked whether it may go on *)
(* as d.                                                                   *)
LEMMA GoesOn ==
    ASSUME IInv, Trail, Memory, NEW c \in Copies, stage[c] = "asks"
    PROVE  LET d == <<Msg(c), asked>> IN
           /\ d \in Copies /\ Msg(d) = Msg(c) /\ Run(d) = Run(c) /\ Route(d) = asked /\ d # c
           /\ asked \in Range(Alternatives) /\ stage[d] = "none" /\ result[d] = "none"
           /\ result[c] = "unavailable" /\ \A e \in Copies : stage[e] = "asks" => e = c
           /\ \A e \in Copies : Msg(e) = Msg(c) /\ stage[e] # "none" =>
                  /\ asked \in After(Route(e))
                  /\ e # c => stage[e] = "over" /\ result[e] = "unavailable"
           /\ \A e \in Copies : SentOn(e) /\ Run(e) = Run(c) => Msg(e) = Msg(c)
<1> DEFINE d == <<Msg(c), asked>>
<1>1. /\ asked \in Range(Alternatives) /\ result[c] = "unavailable" /\ asked # Nothing
      /\ \A e \in Copies : stage[e] = "asks" => e = c
  BY DEF IInv, Types, OneAsks
<1>2. d \in Copies /\ Msg(d) = Msg(c) /\ Run(d) = Run(c) /\ Route(d) = asked /\ asked \in Routes
  BY <1>1, CopyTypes DEF Run, Route
<1>3. asked \in After(Route(c)) /\ Route(c) \in Routes /\ Run(c) \in Runs
  BY CopyTypes DEF Trail, Asked
<1> HIDE DEF d
<1>4. d # c
  BY <1>2, <1>3, AfterOrders
<1>5. \A e \in Copies : Msg(e) = Msg(c) /\ e # c /\ stage[e] # "none" => Precedes(e, c)
  BY DEF Trail, InTurn, Precedes
<1>6. stage[d] = "none"
  BY <1>2, <1>3, <1>4, <1>5, AfterOrders DEF Precedes
<1>7. result[d] = "none"
  BY <1>2, <1>6 DEF Trail, Verdicts, Unheard
<1>8. \A e \in Copies : Msg(e) = Msg(c) /\ stage[e] # "none" => asked \in After(Route(e))
  BY <1>2, <1>3, <1>5, AfterOrders, CopyTypes DEF Precedes
<1>9. ASSUME NEW e \in Copies, SentOn(e), Run(e) = Run(c)  PROVE Msg(e) = Msg(c)
  <2>1. ~context[Run(c)].finished /\ Route(c) = Expected(Run(c))
    BY DEF Trail, Asked
  <2>2. context[Run(c)].pending # Nothing
    BY <1>3, <1>9, <2>1 DEF Trail, Contexts
  <2>3. context[Run(c)].pending \in Range(Alternatives)
    BY <1>3, <2>2 DEF Memory, ContextTypes
  <2>4. SentOn(c)
    BY <2>1, <2>2, <2>3, CopyTypes DEF Expected, SentOn
  <2> QED BY <1>9, <2>4 DEF Trail, OneSentOn
<1> QED BY <1>1, <1>2, <1>4, <1>5, <1>6, <1>7, <1>8, <1>9 DEF d, Precedes
LEMMA DecidedTrail ==
    ASSUME IInv, Trail, Memory, NEW c \in Copies, Allowed(c) \/ Refused(c)
    PROVE  Trail'
<1> DEFINE u == Run(c)
           d == <<Msg(c), asked>>
<1>1. /\ stage[c] = "asks" /\ stage \in [Copies -> Stages] /\ asked' = Nothing /\ u \in Runs
      /\ UNCHANGED <<result, reached>>
      /\ \E s \in {"none", "parked", "bus"} : stage' = [stage EXCEPT ![c] = "over", ![d] = s]
      /\ \/ context' = [context EXCEPT ![u].pending = asked]
         \/ context' = [context EXCEPT ![u].finished = TRUE]
  BY CopyTypes DEF Allowed, Refused, Records, IInv, Types, history
<1>2. PICK s \in {"none", "parked", "bus"} : stage' = [stage EXCEPT ![c] = "over", ![d] = s]
  BY <1>1
<1>3. /\ d \in Copies /\ Msg(d) = Msg(c) /\ Run(d) = u /\ Route(d) = asked /\ d # c
      /\ asked \in Range(Alternatives) /\ stage[d] = "none" /\ result[d] = "none"
      /\ result[c] = "unavailable" /\ \A e \in Copies : stage[e] = "asks" => e = c
      /\ \A e \in Copies : Msg(e) = Msg(c) /\ stage[e] # "none" =>
             /\ asked \in After(Route(e))
             /\ e # c => stage[e] = "over" /\ result[e] = "unavailable"
      /\ \A e \in Copies : SentOn(e) /\ Run(e) = u => Msg(e) = Msg(c)
  BY <1>1, GoesOn
<1>4. ~context[u].finished /\ At(u, asked, context[u].index)
  BY <1>1 DEF Trail, Asked
<1> HIDE DEF u, d
<1>5. stage'[c] = "over" /\ stage'[d] = s /\ \A e \in Copies \ {c, d} : stage'[e] = stage[e]
  BY <1>1, <1>2, <1>3
<1>6. Verdicts'
  BY <1>1, <1>3, <1>5 DEF Trail, Verdicts, Unheard, Waiting
<1>7. InTurn'
  <2> SUFFICES ASSUME NEW e \in Copies, NEW f \in Copies, Msg(e) = Msg(f), e # f,
                      stage'[e] # "none", stage'[f] # "none"
               PROVE  Precedes(e, f)' \/ Precedes(f, e)'
    BY DEF InTurn
  <2>1. CASE e = d
    BY <1>1, <1>3, <1>5, <2>1 DEF Precedes
  <2>2. CASE f = d
    BY <1>1, <1>3, <1>5, <2>2 DEF Precedes
  <2>3. CASE e # d /\ f # d
    <3>1. stage[e] # "none" /\ stage[f] # "none"
      BY <1>1, <1>5, <2>3
    <3>2. Precedes(e, f) \/ Precedes(f, e)
      BY <3>1 DEF Trail, InTurn
    <3> QED BY <1>1, <1>5, <2>3, <3>2 DEF Precedes
  <2> QED BY <2>1, <2>2, <2>3
<1>8. \A e \in Copies \ {d} : SentOn(e)' <=> SentOn(e)
  BY <1>1, <1>5 DEF SentOn
<1>9. OneSentOn'
  BY <1>3, <1>8 DEF Trail, OneSentOn
<1>10. Contexts'
  <2>1. /\ \A v \in Runs \ {u} : context'[v] = context[v]
        /\ \/ context'[u].finished
           \/ /\ context'[u].pending = asked /\ context'[u].candidates = context[u].candidates
              /\ context'[u].index = context[u].index
    BY <1>1 DEF Memory, ContextTypes
  <2>2. asked # Nothing
    BY <1>3, CopyTypes
  <2>3. ASSUME NEW v \in Runs \ {u}, ~context'[v].finished
        PROVE  /\ context'[v].pending = Nothing => \A e \in Copies : Run(e) = v => ~SentOn(e)'
               /\ context'[v].pending # Nothing => At(v, context[v].pending, context[v].index)'
    BY <1>3, <1>8, <2>1, <2>3 DEF Trail, Contexts, At
  <2>4. ASSUME ~context'[u].finished
        PROVE  context'[u].pending # Nothing /\ At(u, context[u].pending, context[u].index)'
    BY <1>4, <2>1, <2>2, <2>4 DEF At
  <2> QED BY <2>3, <2>4 DEF Contexts
<1>11. Asked'
  BY <1>3, <1>5 DEF Asked
<1> QED BY <1>6, <1>7, <1>9, <1>10, <1>11 DEF Trail

LEMMA TrailHolds == Spec => []Trail
<1>1. Init => Trail
  <2> SUFFICES ASSUME Init PROVE Trail
    OBVIOUS
  <2>1. \A c \in Copies : stage[c] = "none" /\ result[c] = "none"
    BY DEF Init
  <2>2. \A u \in Runs : context[u].pending = Nothing
    BY DEF Init, NewContext
  <2> QED BY <2>1, <2>2 DEF Trail, Verdicts, Unheard, InTurn, OneSentOn, SentOn, Contexts, Asked
<1>2. IInv /\ Memory /\ Trail /\ [Next]_vars => Trail'
  <2> SUFFICES ASSUME IInv, Memory, Trail, [Next]_vars PROVE Trail'
    OBVIOUS
  <2>1. CASE Takes \/ GetsSlot \/ \E c \in Copies : Sends(c)
    BY <2>1, DispatchTrail
  <2>2. CASE \E m \in Msgs : Answer(m)
    BY <2>2, AnswerTrail
  <2>3. CASE \E c \in Copies : Approved(c)
    BY <2>3, ApprovedTrail
  <2>4. CASE \E c \in Copies : Observes(c)
    BY <2>4, ReportTrail, FallsBackTrail, DecidedTrail DEF Observes
  <2>5. CASE \E r \in Routes : StopChannel(r)
    BY <2>5, StopTrail
  <2>6. CASE \/ \E u \in Runs : Submit(u)
             \/ \E r \in Routes : ChannelStopped(r) \/ StartChannel(r)
             \/ UNCHANGED vars
    <3>1. UNCHANGED <<stage, result, context, asked, reached>>
      BY <2>6 DEF Submit, ChannelStopped, StartChannel, vars, observer, history
    <3>2. Verdicts' /\ \A c \in Copies : Keeps(c)
      BY <3>1 DEF Trail, Verdicts, Keeps
    <3> QED BY <3>1, <3>2, QuietTrail
  <2> QED BY <2>1, <2>2, <2>3, <2>4, <2>5, <2>6 DEF Next
<1> QED BY <1>1, <1>2, Inductive, MemoryHolds, PTL DEF Spec
-----------------------------------------------------------------------------
(* CronDelivery implements Fallback.                                       *)
Way == {"bus", "hand"} \cup Waiting
Stands == [m \in Msgs |-> Standing(m)]

(* Standing as a function of the two variables it reads.                   *)
StandingOf(m, st, rs) ==
    LET some(S) == \E r \in Routes : st[<<m, r>>] \in S
        came(v) == \E r \in Routes : rs[<<m, r>>] = v IN
    IF some(Way) THEN "out"
    ELSE IF some({"parked"}) THEN "held"
    ELSE IF came("delivered") THEN "delivered"
    ELSE IF came("unknown") THEN "unknown"
    ELSE IF came("unavailable") THEN "refused" ELSE "unsent"

(* What the last copy of a message, at s and with the result v, says of it. *)
View(s, v) ==
    IF s \in Way THEN "out" ELSE IF s = "parked" THEN "held"
    ELSE IF v = "unavailable" THEN "refused" ELSE v

Passed(st, rs, e) == (st[e] = "none" /\ rs[e] = "none") \/ (st[e] = "over" /\ rs[e] = "unavailable")

LEMMA StandingIs ==
    /\ \A m \in Msgs : Standing(m) = StandingOf(m, stage, result)
    /\ \A m \in Msgs : Standing(m)' = StandingOf(m, stage', result')
BY DEF Standing, StandingOf, Way

LEMMA Views ==
    ASSUME NEW st \in [Copies -> Stages], NEW rs \in [Copies -> Results], NEW c \in Copies,
           st[c] # "none", st[c] \in Way \cup {"parked"} \/ rs[c] # "none",
           \A e \in Copies : Msg(e) = Msg(c) /\ e # c => Passed(st, rs, e)
    PROVE  StandingOf(Msg(c), st, rs) = View(st[c], rs[c])
<1> DEFINE m == Msg(c)
<1>1. /\ \A r \in Routes : <<m, r>> \in Copies /\ Msg(<<m, r>>) = m
      /\ \E r \in Routes : c = <<m, r>>
  BY CopyTypes DEF Copies, Msg, Route
<1>2. \A r \in Routes : <<m, r>> = c \/ Passed(st, rs, <<m, r>>)
  BY <1>1
<1> HIDE DEF m
<1>3. ASSUME NEW S, "none" \notin S, "over" \notin S
      PROVE  (\E r \in Routes : st[<<m, r>>] \in S) <=> st[c] \in S
  BY <1>1, <1>2, <1>3 DEF Passed
<1>4. \A v \in {"delivered", "unknown"} : (\E r \in Routes : rs[<<m, r>>] = v) <=> rs[c] = v
  BY <1>1, <1>2 DEF Passed
<1>5. rs[c] = "unavailable" => \E r \in Routes : rs[<<m, r>>] = "unavailable"
  BY <1>1
<1>6. (\E r \in Routes : st[<<m, r>>] \in Way) <=> st[c] \in Way
  <2>1. "none" \notin Way /\ "over" \notin Way
    BY DEF Way, Waiting
  <2> QED BY <1>3, <2>1
<1>7. (\E r \in Routes : st[<<m, r>>] \in {"parked"}) <=> st[c] = "parked"
  BY <1>1, <1>2 DEF Passed
<1>8. rs[c] \in {"none", "delivered", "unavailable", "unknown"}
  BY DEF Results
<1> QED BY <1>4, <1>5, <1>6, <1>7, <1>8 DEF StandingOf, View, m

(* A copy that has not been passed is the last of its message.             *)
LEMMA IsLast ==
    ASSUME IInv, Trail, NEW c \in Copies, stage[c] # "none",
           ~(stage[c] = "over" /\ result[c] = "unavailable")
    PROVE  /\ \A e \in Copies : Msg(e) = Msg(c) /\ e # c => Passed(stage, result, e)
           /\ Promise!IsOn(Msg(c), Route(c))
           /\ Standing(Msg(c)) = View(stage[c], result[c])
<1>1. \A e \in Copies : Msg(e) = Msg(c) /\ e # c /\ stage[e] # "none" => Precedes(e, c)
  BY DEF Trail, InTurn, Precedes
<1>2. \A e \in Copies : Msg(e) = Msg(c) /\ e # c => Passed(stage, result, e)
  BY <1>1 DEF Precedes, Passed, Trail, Verdicts, Unheard
<1>3. Promise!IsOn(Msg(c), Route(c))
  <2>1. c = <<Msg(c), Route(c)>> /\ Msg(c) \in Msgs /\ Route(c) \in Routes
    BY DEF Copies, Msg, Route
  <2>2. Given[Msg(c)] = {r \in Routes : stage[<<Msg(c), r>>] # "none"}
    BY <2>1 DEF Given
  <2>3. ASSUME NEW r \in Routes, stage[<<Msg(c), r>>] # "none"
        PROVE  r = Route(c) \/ Route(c) \in After(r)
    <3>1. <<Msg(c), r>> \in Copies /\ Msg(<<Msg(c), r>>) = Msg(c) /\ Route(<<Msg(c), r>>) = r
      BY <2>1, CopyTypes DEF Route
    <3> QED BY <1>1, <2>3, <3>1 DEF Precedes
  <2> QED BY <2>1, <2>2, <2>3 DEF Promise!IsOn, After
<1>4. stage[c] \in Way \cup {"parked"} \/ result[c] # "none"
  BY DEF Trail, Verdicts, Unheard, Way
<1>5. StandingOf(Msg(c), stage, result) = View(stage[c], result[c])
  BY <1>2, <1>4, Views DEF IInv, Types
<1> QED BY <1>2, <1>3, <1>5, StandingIs, CopyTypes

(* Only the message m is concerned.                                        *)
LEMMA Concerns ==
    ASSUME NEW m \in Msgs,
           \A e \in Copies : Msg(e) # m => stage'[e] = stage[e] /\ result'[e] = result[e]
    PROVE  /\ Stands' = [Stands EXCEPT ![m] = Standing(m)']
           /\ \A n \in Msgs : n # m => Given'[n] = Given[n]
<1>1. ASSUME NEW n \in Msgs, n # m  PROVE Standing(n)' = Standing(n) /\ Given'[n] = Given[n]
  <2>1. \A r \in Routes : stage'[<<n, r>>] = stage[<<n, r>>] /\ result'[<<n, r>>] = result[<<n, r>>]
    BY <1>1 DEF Copies, Msg
  <2>2. StandingOf(n, stage', result') = StandingOf(n, stage, result)
    BY <2>1 DEF StandingOf
  <2> QED BY <2>1, <2>2, StandingIs DEF Given
<1> QED BY <1>1 DEF Stands

(* The last copy of a message gets on, or what is heard of it.             *)
LEMMA GetsOn ==
    ASSUME IInv, IInv', Trail, NEW c \in Copies, stage[c] # "none",
           ~(stage[c] = "over" /\ result[c] = "unavailable"),
           stage'[c] # "none", stage'[c] \in Way \cup {"parked"} \/ result'[c] # "none",
           \A e \in Copies \ {c} : stage'[e] = stage[e] /\ result'[e] = result[e]
    PROVE  /\ Stands' = [Stands EXCEPT ![Msg(c)] = View(stage'[c], result'[c])]
           /\ Given' = Given
           /\ Stands[Msg(c)] = View(stage[c], result[c]) /\ Promise!IsOn(Msg(c), Route(c))
<1>1. /\ \A e \in Copies : Msg(e) = Msg(c) /\ e # c => Passed(stage, result, e)
      /\ Promise!IsOn(Msg(c), Route(c))
      /\ Standing(Msg(c)) = View(stage[c], result[c]) /\ Msg(c) \in Msgs
  BY IsLast, CopyTypes
<1>2. \A e \in Copies : Msg(e) = Msg(c) /\ e # c => Passed(stage', result', e)
  BY <1>1 DEF Passed
<1>3. StandingOf(Msg(c), stage', result') = View(stage'[c], result'[c])
  <2>1. stage' \in [Copies -> Stages] /\ result' \in [Copies -> Results]
    BY DEF IInv, Types
  <2> QED BY <1>2, <2>1, Views
<1>4. Stands' = [Stands EXCEPT ![Msg(c)] = Standing(Msg(c))']
  <2>1. \A e \in Copies : Msg(e) # Msg(c) => stage'[e] = stage[e] /\ result'[e] = result[e]
    OBVIOUS
  <2> QED BY <1>1, <2>1, Concerns
<1>5. Given' = Given
  <2>1. \A m \in Msgs, r \in Routes : stage'[<<m, r>>] # "none" <=> stage[<<m, r>>] # "none"
    BY DEF Copies
  <2> QED BY <2>1 DEF Given
<1> QED BY <1>1, <1>3, <1>4, <1>5, StandingIs DEF Stands
LEMMA Standstill ==
    ASSUME \A c \in Copies : stage'[c] = stage[c] /\ result'[c] = result[c], reached' = reached
    PROVE  [Promise!Next]_(Promise!promised)
<1>1. ASSUME NEW m \in Msgs  PROVE Standing(m)' = Standing(m) /\ Given'[m] = Given[m]
  <2>1. \A r \in Routes : stage'[<<m, r>>] = stage[<<m, r>>] /\ result'[<<m, r>>] = result[<<m, r>>]
    BY DEF Copies
  <2>2. StandingOf(m, stage', result') = StandingOf(m, stage, result)
    BY <2>1 DEF StandingOf
  <2> QED BY <2>1, <2>2, StandingIs DEF Given
<1>2. Given' = Given
  BY <1>1 DEF Given
<1> QED BY <1>1, <1>2 DEF Promise!promised

LEMMA WayPromise ==
    ASSUME IInv, IInv', Trail, NEW c \in Copies, stage[c] \in Way,
           \A e \in Copies \ {c} : stage'[e] = stage[e] /\ result'[e] = result[e],
           \/ /\ reached' = reached
              /\ \/ stage'[c] \in Way
                 \/ stage'[c] = "reports" /\ result'[c] = "unknown"
                 \/ stage'[c] = "reports" /\ result'[c] = "unavailable" /\ c \notin reached
           \/ /\ reached' = reached \cup {c}
              /\ \/ stage'[c] \in Way
                 \/ stage'[c] = "reports" /\ result'[c] \in {"delivered", "unknown"}
    PROVE  [Promise!Next]_(Promise!promised)
<1> DEFINE m == Msg(c)
<1>1. /\ m \in Msgs /\ Route(c) \in Routes /\ c = <<m, Route(c)>> /\ Routes = Promise!Routes
  BY DEF Copies, Msg, Route, Routes, Promise!Routes, Range
<1>2. stage[c] \notin {"none", "over"} /\ "reports" \notin Way /\ \A s \in Way : s \notin {"none", "over"}
  BY DEF Way, Waiting
<1>3. /\ Stands' = [Stands EXCEPT ![m] = View(stage'[c], result'[c])] /\ Given' = Given
      /\ Stands[m] = "out" /\ Promise!IsOn(m, Route(c))
  BY <1>2, GetsOn DEF View
<1> HIDE DEF m
<1>4. CASE reached' = reached /\ stage'[c] \in Way
  <2>1. Stands' = Stands
    BY <1>1, <1>3, <1>4 DEF View, Stands
  <2> QED BY <1>3, <1>4, <2>1 DEF Promise!promised, Stands
<1>5. CASE reached' = reached /\ stage'[c] = "reports" /\ result'[c] = "unknown"
  <2>1. Stands' = [Stands EXCEPT ![m] = "unknown"]
    BY <1>2, <1>3, <1>5 DEF View
  <2>2. Promise!Interrupt({m})
    <3>1. Stands' = [n \in Msgs |-> IF n \in {m} THEN "unknown" ELSE Stands[n]]
      BY <1>1, <2>1 DEF Stands
    <3>2. \E T \in SUBSET {d \in {m} \X Promise!Routes : Promise!IsOn(d[1], d[2])} :
              reached' = reached \cup T
      <4> WITNESS {} \in SUBSET {d \in {m} \X Promise!Routes : Promise!IsOn(d[1], d[2])}
      <4> QED BY <1>5
    <3> QED BY <1>3, <3>1, <3>2 DEF Promise!Interrupt, Stands
  <2>3. {m} \in SUBSET {n \in Msgs : Stands[n] = "out"}
    BY <1>1, <1>3
  <2> QED BY <2>2, <2>3 DEF Promise!Next, Stands
<1>6. CASE reached' = reached /\ stage'[c] = "reports" /\ result'[c] = "unavailable" /\ c \notin reached
  <2>1. \A r \in Given[m] : <<m, r>> \notin reached
    <3>1. ASSUME NEW r \in Routes  PROVE <<m, r>> \notin reached
      <4>1. <<m, r>> \in Copies /\ Msg(<<m, r>>) = m /\ Msg(c) = m /\ Open(c)
        BY <1>1, <1>2 DEF Copies, Msg, Open
      <4> QED BY <1>6, <4>1 DEF IInv, Alone
    <3> QED BY <1>1, <3>1 DEF Given
  <2> QED BY <1>1, <1>2, <1>3, <1>6, <2>1
          DEF View, Promise!Next, Promise!Refuse, Promise!Becomes, Stands
<1>7. CASE reached' = reached \cup {c} /\ stage'[c] = "reports" /\ result'[c] = "delivered"
  <2>1. Promise!Deliver(m)
    BY <1>1, <1>2, <1>3, <1>7 DEF View, Promise!Deliver, Promise!Becomes, Stands
  <2> QED BY <1>1, <2>1 DEF Promise!Next
<1>8. CASE /\ reached' = reached \cup {c}
           /\ stage'[c] \in Way \/ (stage'[c] = "reports" /\ result'[c] = "unknown")
  <2>1. Promise!Break(m)
    BY <1>1, <1>2, <1>3, <1>8 DEF View, Promise!Break, Promise!Becomes, Stands
  <2> QED BY <1>1, <2>1 DEF Promise!Next
<1> QED BY <1>4, <1>5, <1>6, <1>7, <1>8

LEMMA DispatchPromise ==
    ASSUME IInv, IInv', Trail, Takes \/ GetsSlot \/ \E c \in Copies : Sends(c)
    PROVE  [Promise!Next]_(Promise!promised)
<1> USE DEF IInv, Types
<1>1. \A c \in reached : stage[c] \notin {"bus", "hand"}
  BY DEF ArrivedHold, Arrived
<1>2. \A c \in Copies : \A o : Queues(c, o) =>
          \/ stage' = [stage EXCEPT ![c] = "made"] /\ result' = result
          \/ Comes(c, "unknown")
  BY DEF Queues
<1>3. ASSUME NEW c \in Copies, stage[c] \in {"bus", "hand"}, reached' = reached,
             \/ \E s \in {"made", "hand"} : stage' = [stage EXCEPT ![c] = s] /\ result' = result
             \/ Comes(c, "unknown") \/ Comes(c, "unavailable")
      PROVE  [Promise!Next]_(Promise!promised)
  <2>1. stage[c] \in Way /\ c \notin reached
    BY <1>1, <1>3 DEF Way
  <2>2. \A e \in Copies \ {c} : stage'[e] = stage[e] /\ result'[e] = result[e]
    BY <1>3 DEF Comes
  <2>3. \/ stage'[c] \in Way
        \/ stage'[c] = "reports" /\ result'[c] \in {"unknown", "unavailable"}
    BY <1>3 DEF Comes, Way, Waiting
  <2> QED BY <1>3, <2>1, <2>2, <2>3, WayPromise
<1>4. CASE Takes
  <2>1. bus # <<>> /\ bus \in Seq(Copies)
    BY <1>4 DEF Takes
  <2>2. Head(bus) = bus[1] /\ 1 \in DOMAIN bus /\ Head(bus) \in Copies
    BY <2>1
  <2>3. Head(bus) \in Copies /\ stage[Head(bus)] = "bus"
    BY <2>2 DEF BusHolds
  <2> QED BY <1>2, <1>3, <1>4, <2>3 DEF Takes, history
<1>5. CASE GetsSlot
  <2>1. hand.copy \in Copies /\ stage[hand.copy] = "hand" /\ Queues(hand.copy, hand.object)
    BY <1>5 DEF GetsSlot
  <2> QED BY <1>2, <1>3, <1>5, <2>1 DEF GetsSlot, history
<1>6. ASSUME NEW c \in Copies, Sends(c)  PROVE [Promise!Next]_(Promise!promised)
  <2>1. stage[c] \in Way
    BY <1>6 DEF Sends, TaskBegins, Attempts, NextInLine, Delivered, Rejected, Breaks, Waiting, Way
  <2>2. \A e \in Copies \ {c} : stage'[e] = stage[e] /\ result'[e] = result[e]
    BY <1>6 DEF Sends, TaskBegins, Attempts, Delivered, Rejected, Breaks, Comes
  <2>3. CASE TaskBegins(c) \/ Attempts(c)
    BY <2>1, <2>2, <2>3, WayPromise DEF TaskBegins, Attempts, history, Way, Waiting
  <2>4. CASE Delivered(c) \/ Breaks(c)
    <3>1. reached' = reached \cup {c}
      BY <2>4 DEF Delivered, Breaks
    <3>2. stage'[c] \in Way \/ (stage'[c] = "reports" /\ result'[c] \in {"delivered", "unknown"})
      BY <2>4 DEF Delivered, Breaks, Comes, Way, Waiting
    <3> QED BY <2>1, <2>2, <3>1, <3>2, WayPromise
  <2>5. CASE Rejected(c)
    <3>1. stage'[c] = "reports" /\ result'[c] = Refusal(c) /\ reached' = reached /\ stage[c] = "sending"
      BY <2>5 DEF Rejected, Comes, history
    <3>2. Refusal(c) = "unavailable" => c \notin reached
      BY <3>1 DEF Refusal, ArrivedHold, Arrived
    <3>3. Refusal(c) \in {"unknown", "unavailable"}
      BY DEF Refusal
    <3> QED BY <2>1, <2>2, <3>1, <3>2, <3>3, WayPromise
  <2> QED BY <1>6, <2>3, <2>4, <2>5 DEF Sends
<1> QED BY <1>4, <1>5, <1>6
LEMMA AnswerPromise ==
    ASSUME IInv, IInv', Trail, NEW m \in Msgs, Answer(m)
    PROVE  [Promise!Next]_(Promise!promised)
<1> DEFINE c == <<m, Origin>>
<1>1. /\ c \in Copies /\ Msg(c) = m /\ Route(c) = Origin /\ stage[c] = "none"
      /\ stage \in [Copies -> Stages] /\ stage' = [stage EXCEPT ![c] = "bus"]
      /\ UNCHANGED <<result, reached>>
  BY CopyTypes DEF Answer, IInv, Types, history, Route
<1>2. \A d \in Copies : Msg(d) = m => stage[d] = "none" /\ result[d] = "none"
  BY <1>1 DEF IInv, Begun, Trail, Verdicts, Unheard
<1>3. \A r \in Routes : stage[<<m, r>>] = "none" /\ result[<<m, r>>] = "none"
  BY <1>2 DEF Copies, Msg
<1>4. Standing(m) = "unsent"
  BY <1>3 DEF Standing, Waiting
<1>5. StandingOf(m, stage', result') = "out"
  <2>1. stage'[c] = "bus" /\ Origin \in Routes
    BY <1>1, CopyTypes
  <2> QED BY <2>1 DEF StandingOf, Way
<1>6. /\ Stands' = [Stands EXCEPT ![m] = "out"] /\ \A n \in Msgs : n # m => Given'[n] = Given[n]
      /\ Stands[m] = "unsent"
  <2>1. \A e \in Copies : Msg(e) # m => stage'[e] = stage[e] /\ result'[e] = result[e]
    BY <1>1
  <2> QED BY <1>4, <1>5, <2>1, Concerns, StandingIs DEF Stands
<1>7. Given' = [Given EXCEPT ![m] = Given[m] \cup {Origin}]
  <2>1. \A r \in Routes : stage'[<<m, r>>] # "none" <=> r = Origin
    BY <1>1, <1>3 DEF Copies
  <2>2. Given'[m] = {Origin} /\ Given[m] = {}
    BY <1>3, <2>1, CopyTypes DEF Given
  <2> QED BY <1>6, <2>2 DEF Given
<1> QED BY <1>1, <1>6, <1>7 DEF Promise!Next, Promise!Send, Promise!Becomes, Promise!Gives, Stands

LEMMA ApprovedPromise ==
    ASSUME IInv, IInv', Trail, NEW c \in Copies, Approved(c)
    PROVE  [Promise!Next]_(Promise!promised)
<1>1. /\ stage[c] = "parked" /\ stage \in [Copies -> Stages] /\ stage' = [stage EXCEPT ![c] = "bus"]
      /\ UNCHANGED <<result, reached>> /\ Msg(c) \in Msgs
  BY CopyTypes DEF Approved, IInv, Types, history
<1>2. /\ Stands' = [Stands EXCEPT ![Msg(c)] = "out"] /\ Given' = Given /\ Stands[Msg(c)] = "held"
  BY <1>1, GetsOn DEF View, Way, Waiting
<1> QED BY <1>1, <1>2 DEF Promise!Next, Promise!Release, Promise!Becomes, Stands

(* A report is taken or dropped: for the message that changes nothing.     *)
LEMMA ReportPromise ==
    ASSUME IInv, IInv', Trail, NEW c \in Copies, Ignores(c) \/ Finishes(c) \/ FallsBack(c)
    PROVE  [Promise!Next]_(Promise!promised)
<1>1. /\ stage[c] = "reports" /\ stage \in [Copies -> Stages] /\ Msg(c) \in Msgs
      /\ \E s \in {"over", "asks"} : stage' = [stage EXCEPT ![c] = s]
      /\ UNCHANGED <<result, reached>>
  BY CopyTypes DEF Ignores, Finishes, FallsBack, IInv, Types, history
<1>2. result[c] # "none"
  BY <1>1 DEF Trail, Verdicts, Unheard, Waiting
<1>3. /\ Stands' = [Stands EXCEPT ![Msg(c)] = View(stage'[c], result[c])] /\ Given' = Given
      /\ Stands[Msg(c)] = View(stage[c], result[c])
  BY <1>1, <1>2, GetsOn
<1>4. View(stage'[c], result[c]) = View(stage[c], result[c])
  BY <1>1 DEF View, Way, Waiting
<1>5. Stands' = Stands
  BY <1>1, <1>3, <1>4 DEF Stands
<1> QED BY <1>1, <1>3, <1>5 DEF Promise!promised, Stands

(* The policy has decided: the message goes on, is put off, or stays where *)
(* it was refused.                                                         *)
LEMMA DecidedPromise ==
    ASSUME IInv, IInv', Trail, Memory, NEW c \in Copies, Allowed(c) \/ Refused(c)
    PROVE  [Promise!Next]_(Promise!promised)
<1> DEFINE m == Msg(c)
           d == <<m, asked>>
<1>1. /\ stage[c] = "asks" /\ stage \in [Copies -> Stages] /\ m \in Msgs
      /\ UNCHANGED <<result, reached>>
      /\ \E s \in {"none", "parked", "bus"} : stage' = [stage EXCEPT ![c] = "over", ![d] = s]
  BY CopyTypes DEF Allowed, Refused, IInv, Types, history
<1>2. PICK s \in {"none", "parked", "bus"} : stage' = [stage EXCEPT ![c] = "over", ![d] = s]
  BY <1>1
<1>3. /\ d \in Copies /\ Msg(d) = m /\ Run(d) = Run(c) /\ Route(d) = asked /\ d # c
      /\ asked \in Range(Alternatives) /\ stage[d] = "none" /\ result[d] = "none"
      /\ result[c] = "unavailable"
      /\ \A e \in Copies : Msg(e) = m /\ stage[e] # "none" =>
             /\ asked \in After(Route(e))
             /\ e # c => stage[e] = "over" /\ result[e] = "unavailable"
      /\ \A e \in Copies : SentOn(e) /\ Run(e) = Run(c) => Msg(e) = m
  BY <1>1, GoesOn
<1>4. /\ Standing(m) = "refused"
      /\ \A e \in Copies : Msg(e) = m /\ e # c => Passed(stage, result, e)
  BY <1>1, <1>3, IsLast DEF View, Way, Waiting
<1> HIDE DEF m, d
<1>5. stage'[c] = "over" /\ stage'[d] = s /\ \A e \in Copies \ {c, d} : stage'[e] = stage[e]
  BY <1>1, <1>2, <1>3
<1>6. /\ Stands' = [Stands EXCEPT ![m] = Standing(m)'] /\ \A n \in Msgs : n # m => Given'[n] = Given[n]
      /\ Stands[m] = "refused"
  <2>1. \A e \in Copies : Msg(e) # m => stage'[e] = stage[e] /\ result'[e] = result[e]
    BY <1>1, <1>3, <1>5 DEF m
  <2> QED BY <1>1, <1>4, <2>1, Concerns DEF Stands
<1>7. stage' \in [Copies -> Stages] /\ result' \in [Copies -> Results]
  BY DEF IInv, Types
<1>8. CASE s = "none"
  <2>1. StandingOf(m, stage', result') = View(stage'[c], result'[c])
    <3>1. \A e \in Copies : Msg(e) = Msg(c) /\ e # c => Passed(stage', result', e)
      BY <1>1, <1>3, <1>4, <1>5, <1>8 DEF Passed, m
    <3>2. stage'[c] # "none" /\ result'[c] # "none"
      BY <1>1, <1>3, <1>5
    <3> QED BY <1>7, <3>1, <3>2, Views DEF m
  <2>2. Standing(m)' = "refused"
    BY <1>1, <1>3, <1>5, <2>1, StandingIs DEF View, Way, Waiting
  <2>3. Stands' = Stands
    BY <1>1, <1>6, <2>2 DEF Stands
  <2>4. Given' = Given
    <3>1. \A e \in Copies : stage'[e] # "none" <=> stage[e] # "none"
      BY <1>1, <1>3, <1>5, <1>8
    <3> QED BY <3>1 DEF Given, Copies
  <2> QED BY <1>1, <2>3, <2>4 DEF Promise!promised, Stands
<1>9. CASE s \in {"parked", "bus"}
  <2>1. StandingOf(m, stage', result') = View(stage'[d], result'[d])
    <3>1. \A e \in Copies : Msg(e) = Msg(d) /\ e # d => Passed(stage', result', e)
      BY <1>1, <1>3, <1>4, <1>5 DEF Passed
    <3> QED BY <1>3, <1>5, <1>7, <1>9, <3>1, Views DEF Way
  <2>2. Standing(m)' \in {"out", "held"}
    BY <1>1, <1>5, <1>9, <2>1, StandingIs DEF View, Way
  <2>3. /\ \A n \in Msgs : \A r : r \in Given[n] <=> r \in Routes /\ stage[<<n, r>>] # "none"
        /\ \A n \in Msgs : \A r : r \in Given'[n] <=> r \in Routes /\ stage'[<<n, r>>] # "none"
    BY DEF Given
  <2>4. Given' = [Given EXCEPT ![m] = Given[m] \cup {asked}]
    <3>1. \A r \in Routes : stage'[<<m, r>>] # "none" <=> stage[<<m, r>>] # "none" \/ r = asked
      <4> SUFFICES ASSUME NEW r \in Routes
                   PROVE  stage'[<<m, r>>] # "none" <=> stage[<<m, r>>] # "none" \/ r = asked
        OBVIOUS
      <4> DEFINE e == <<m, r>>
      <4>1. e \in Copies /\ (e = d <=> r = asked)
        BY <1>1 DEF Copies, d
      <4> HIDE DEF e
      <4>2. stage'[e] # "none" <=> stage[e] # "none" \/ e = d
        BY <1>1, <1>3, <1>5, <1>9, <4>1
      <4> QED BY <4>1, <4>2 DEF e
    <3>2. asked \in Routes
      BY <1>3, CopyTypes
    <3>3. Given'[m] = Given[m] \cup {asked}
      <4>1. m \in Msgs
        BY <1>1
      <4>2. \A r : r \in Given'[m] <=> r \in Given[m] \cup {asked}
        BY <2>3, <3>1, <3>2, <4>1
      <4> QED BY <4>2
    <3> QED BY <1>6, <3>3 DEF Given
  <2>5. \A r \in Given[m] : asked \in Promise!After(r)
    <3>1. ASSUME NEW r \in Given[m]  PROVE asked \in After(r)
      <4>1. m \in Msgs /\ r \in Routes /\ stage[<<m, r>>] # "none"
        BY <1>1, <2>3
      <4> DEFINE e == <<m, r>>
      <4>2. e \in Copies /\ Msg(e) = m /\ Route(e) = r
        BY <4>1 DEF Copies, Msg, Route
      <4> HIDE DEF e
      <4>3. stage[e] # "none"
        BY <4>1 DEF e
      <4> QED BY <1>3, <4>2, <4>3
    <3> QED BY <3>1 DEF After
  <2>6. Promise!IsTheOne(m)
    <3> SUFFICES ASSUME NEW n \in Msgs, RunOf[n] = RunOf[m], n # m, NEW r \in Given[n], r # Origin
                 PROVE  FALSE
      BY DEF Promise!IsTheOne
    <3>1. r \in Routes /\ <<n, r>> \in Copies /\ stage[<<n, r>>] # "none"
      BY <2>3 DEF Copies
    <3>2. SentOn(<<n, r>>) /\ Run(<<n, r>>) = Run(c) /\ Msg(<<n, r>>) = n
      BY <3>1 DEF SentOn, Run, Msg, Route, m
    <3> QED BY <1>3, <3>1, <3>2
  <2>7. Promise!SendOn(m)
    <3>1. asked \in Promise!Routes
      BY <1>3 DEF Promise!Routes, Range
    <3> QED BY <1>1, <1>6, <2>2, <2>4, <2>5, <2>6, <3>1
            DEF Promise!SendOn, Promise!Becomes, Promise!Gives, Stands
  <2> QED BY <1>1, <2>7 DEF Promise!Next
<1> QED BY <1>2, <1>8, <1>9
(* A channel stops: whatever it was sending comes to nothing certain, what *)
(* it was reporting has come to what it had.                               *)
LEMMA StopPromise ==
    ASSUME IInv, IInv', Trail, NEW r \in Routes, StopChannel(r)
    PROVE  [Promise!Next]_(Promise!promised)
<1> DEFINE hit == {c \in tasks : Route(c) = r}
           S == {m \in Msgs : \E c \in hit : Msg(c) = m /\ stage[c] \in Waiting}
           T == {c \in hit : stage[c] = "sending"}
<1>1. /\ \A c \in Copies : stage'[c] = IF c \in hit THEN CancelledTo(c) ELSE stage[c]
      /\ \A c \in Copies : result'[c] = IF c \in hit /\ stage[c] \in Waiting THEN "unknown"
                                         ELSE result[c]
      /\ \A c \in hit : stage[c] \in Waiting \cup {"reports", "asks"}
      /\ hit \subseteq Copies /\ T \subseteq hit /\ reached' = reached \cup T
  BY DEF StopChannel, TasksWork, IInv, Types
<1>2. /\ \A c \in Copies : Msg(c) \in Msgs /\ c = <<Msg(c), Route(c)>> /\ Route(c) \in Routes
      /\ Routes = Promise!Routes
  BY DEF Copies, Msg, Route, Routes, Promise!Routes, Range
<1>3. stage' \in [Copies -> Stages] /\ result' \in [Copies -> Results]
  BY DEF IInv, Types
<1>4. \A m \in S : \E c \in hit : Msg(c) = m /\ stage[c] \in Waiting
  OBVIOUS
<1>5. \A c \in hit : stage[c] \in Waiting => Msg(c) \in S
  BY <1>1, <1>2
<1>6. \A c \in T : c \in hit /\ stage[c] = "sending"
  OBVIOUS
<1>7. S \subseteq Msgs
  OBVIOUS
<1> HIDE DEF hit, S, T
<1>8. ASSUME NEW c \in hit
      PROVE  /\ Standing(Msg(c)) = View(stage[c], result[c])
             /\ Standing(Msg(c))' = View(stage'[c], result'[c])
             /\ Promise!IsOn(Msg(c), Route(c))
  <2>1. c \in Copies /\ stage[c] \notin {"none", "over"}
    BY <1>1 DEF Waiting
  <2>2. /\ \A e \in Copies : Msg(e) = Msg(c) /\ e # c => Passed(stage, result, e)
        /\ Promise!IsOn(Msg(c), Route(c))
        /\ Standing(Msg(c)) = View(stage[c], result[c])
    BY <2>1, IsLast
  <2>3. \A e \in Copies : Msg(e) = Msg(c) /\ e # c => Passed(stage', result', e)
    BY <1>1, <2>2 DEF Passed, Waiting
  <2>4. stage'[c] # "none" /\ result'[c] # "none"
    BY <1>1, <2>1 DEF CancelledTo, Trail, Verdicts, Unheard, Waiting
  <2>5. StandingOf(Msg(c), stage', result') = View(stage'[c], result'[c])
    BY <1>3, <2>1, <2>3, <2>4, Views
  <2> QED BY <1>2, <2>1, <2>2, <2>5, StandingIs
<1>9. \A m \in S : Standing(m) = "out" /\ Standing(m)' = "unknown"
  <2> SUFFICES ASSUME NEW c \in hit, stage[c] \in Waiting
               PROVE  Standing(Msg(c)) = "out" /\ Standing(Msg(c))' = "unknown"
    BY <1>4
  <2>1. stage'[c] = "reports" /\ result'[c] = "unknown" /\ stage[c] \in Way
    BY <1>1 DEF CancelledTo, Way
  <2> QED BY <1>8, <2>1 DEF View, Way, Waiting
<1>10. \A m \in Msgs \ S : Standing(m)' = Standing(m)
  <2> SUFFICES ASSUME NEW m \in Msgs \ S  PROVE Standing(m)' = Standing(m)
    OBVIOUS
  <2>1. CASE \E c \in hit : Msg(c) = m
    <3>1. PICK c \in hit : Msg(c) = m
      BY <2>1
    <3>2. c \in Copies /\ stage[c] \in {"reports", "asks"} /\ stage[c] \notin Waiting
      BY <1>1, <1>5, <3>1 DEF Waiting
    <3>3. stage'[c] = "over" /\ result'[c] = result[c]
      BY <1>1, <3>2 DEF CancelledTo
    <3> QED BY <1>8, <3>1, <3>2, <3>3 DEF View, Way, Waiting
  <2>2. CASE \A c \in hit : Msg(c) # m
    <3>1. \A s \in Routes : stage'[<<m, s>>] = stage[<<m, s>>] /\ result'[<<m, s>>] = result[<<m, s>>]
      <4> SUFFICES ASSUME NEW s \in Routes
                   PROVE  stage'[<<m, s>>] = stage[<<m, s>>] /\ result'[<<m, s>>] = result[<<m, s>>]
        OBVIOUS
      <4> DEFINE e == <<m, s>>
      <4>1. e \in Copies /\ Msg(e) = m
        BY DEF Copies, Msg
      <4> HIDE DEF e
      <4>2. stage'[e] = stage[e] /\ result'[e] = result[e]
        BY <1>1, <2>2, <4>1
      <4> QED BY <4>2 DEF e
    <3>2. StandingOf(m, stage', result') = StandingOf(m, stage, result)
      BY <3>1 DEF StandingOf
    <3> QED BY <3>2, StandingIs
  <2> QED BY <2>1, <2>2
<1>11. Given' = Given
  <2>1. \A e \in Copies : stage'[e] # "none" <=> stage[e] # "none"
    BY <1>1 DEF CancelledTo, Waiting
  <2> QED BY <2>1 DEF Given, Copies
<1>12. Stands' = [m \in Msgs |-> IF m \in S THEN "unknown" ELSE Stands[m]]
  BY <1>9, <1>10 DEF Stands
<1>13. T \in SUBSET {d \in S \X Promise!Routes : Promise!IsOn(d[1], d[2])}
  <2> SUFFICES ASSUME NEW c \in T
               PROVE  c \in S \X Promise!Routes /\ Promise!IsOn(c[1], c[2])
    OBVIOUS
  <2>1. c \in hit /\ c \in Copies /\ Msg(c) \in S
    BY <1>1, <1>5, <1>6 DEF Waiting
  <2> QED BY <1>2, <1>8, <2>1 DEF Msg, Route
<1>14. Promise!Interrupt(S)
  BY <1>1, <1>11, <1>12, <1>13 DEF Promise!Interrupt, Stands
<1>15. S \in SUBSET {m \in Msgs : Stands[m] = "out"}
  BY <1>7, <1>9 DEF Stands
<1> QED BY <1>14, <1>15 DEF Promise!Next, Stands

LEMMA NextPromise ==
    ASSUME IInv, IInv', Memory, Trail, [Next]_vars
    PROVE  [Promise!Next]_(Promise!promised)
<1>1. CASE Takes \/ GetsSlot \/ \E c \in Copies : Sends(c)
  BY <1>1, DispatchPromise
<1>2. CASE \E m \in Msgs : Answer(m)
  BY <1>2, AnswerPromise
<1>3. CASE \E c \in Copies : Approved(c)
  BY <1>3, ApprovedPromise
<1>4. CASE \E c \in Copies : Observes(c)
  BY <1>4, ReportPromise, DecidedPromise DEF Observes
<1>5. CASE \E r \in Routes : StopChannel(r)
  BY <1>5, StopPromise
<1>6. CASE \/ \E u \in Runs : Submit(u)
           \/ \E r \in Routes : ChannelStopped(r) \/ StartChannel(r)
           \/ UNCHANGED vars
  BY <1>6, Standstill DEF Submit, ChannelStopped, StartChannel, vars, history
<1> QED BY <1>1, <1>2, <1>3, <1>4, <1>5, <1>6 DEF Next

LEMMA InitPromise == Init => Promise!Init
<1> SUFFICES ASSUME Init PROVE Promise!Init
  OBVIOUS
<1>1. ASSUME NEW m \in Msgs  PROVE Standing(m) = "unsent" /\ Given[m] = {}
  <2>1. \A r \in Routes : stage[<<m, r>>] = "none" /\ result[<<m, r>>] = "none"
    BY DEF Init, Copies
  <2> QED BY <2>1 DEF Standing, Given, Waiting
<1> QED BY <1>1 DEF Init, Promise!Init, Given

(* Bus, dispatcher, send tasks, observer and policy implement Fallback:    *)
(* whatever breaks, is refused, put off, evicted or stopped, a message of  *)
(* a scheduled run goes from route to route in their order, one at a time  *)
(* and only after a refusal that is certain, and one message of a run at   *)
(* most is sent on.                                                        *)
THEOREM DeliveryIsFallback == Spec => FallsBackInOrder
<1>1. IInv /\ IInv' /\ Memory /\ Trail /\ [Next]_vars => [Promise!Next]_(Promise!promised)
  BY NextPromise
<1>2. Spec => Promise!Init /\ [][Promise!Next]_(Promise!promised)
  BY <1>1, InitPromise, Inductive, MemoryHolds, TrailHolds, PTL DEF Spec
<1> QED BY <1>2 DEF FallsBackInOrder, Promise!Spec
=============================================================================
