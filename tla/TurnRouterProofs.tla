-------------------------- MODULE TurnRouterProofs --------------------------
(* Proofs about TurnRouter, for every set of messages and every capacity.    *)
EXTENDS TurnRouter, TLAPS

USE RouterAssumption

(* The queues agree with where each message is: a queue holds each message   *)
(* once, and only messages that are at its place.                            *)
Keeps(q, where, place) ==
    /\ \A i \in DOMAIN q : where[q[i]] = place
    /\ \A i, j \in DOMAIN q : q[i] = q[j] => i = j

(* Why the theorems hold: a message in a queue is nowhere else, a command    *)
(* that the consumer executes leaves no task running, once it has lined up   *)
(* for the lock none of those it cancelled is left, a /stop never gets a     *)
(* task, and an injection queue is registered only for a turn in the works.  *)
IInv ==
    /\ TypeOK
    /\ Keeps(bus, at, "bus") /\ Keeps(pending, at, "pending")
    /\ Keeps(deferred, at, "deferred")
    /\ command # Nobody => \A m \in Msgs : at[m] \notin Active
    /\ command # Nobody => at[command] \in {"inline", "locking"}
    /\ command # Nobody /\ at[command] = "locking" => AllEnded
    /\ \A m \in Stops : at[m] \notin Task
    /\ Open => at[queue] \in Holding
    /\ DeferredAreReleased
    /\ AutomationsRunAlone

-----------------------------------------------------------------------------
(* Sequences.                                                               *)

LEMMA TailKeeps ==
    ASSUME NEW S, NEW q \in Seq(S), q # <<>>, NEW where, NEW place, Keeps(q, where, place)
    PROVE  /\ Head(q) \in S /\ Tail(q) \in Seq(S)
           /\ where[Head(q)] = place
           /\ \A i \in DOMAIN Tail(q) : Tail(q)[i] # Head(q) /\ Tail(q)[i] \in S
           /\ Keeps(Tail(q), where, place)
<1>1. /\ Head(q) = q[1] /\ 1 \in DOMAIN q /\ Tail(q) \in Seq(S) /\ Head(q) \in S
  OBVIOUS
<1>2. \A i \in DOMAIN Tail(q) : i \in Nat /\ i # 0 /\ i + 1 \in DOMAIN q /\ Tail(q)[i] = q[i + 1]
  OBVIOUS
<1> QED BY <1>1, <1>2 DEF Keeps

LEMMA AppendKeeps ==
    ASSUME NEW S, NEW q \in Seq(S), NEW m \in S, NEW where, NEW place,
           Keeps(q, where, place), where[m] = place, \A i \in DOMAIN q : q[i] # m
    PROVE  Append(q, m) \in Seq(S) /\ Keeps(Append(q, m), where, place)
<1>1. /\ Append(q, m) \in Seq(S)
      /\ \A i \in DOMAIN Append(q, m) :
            (i \in DOMAIN q /\ Append(q, m)[i] = q[i]) \/ (i = Len(q) + 1 /\ Append(q, m)[i] = m)
  OBVIOUS
<1> QED BY <1>1 DEF Keeps

LEMMA JoinKeeps ==
    ASSUME NEW S, NEW q \in Seq(S), NEW r \in Seq(S), NEW where, NEW place,
           Keeps(q, where, place), Keeps(r, where, place),
           \A i \in DOMAIN q, j \in DOMAIN r : q[i] # r[j]
    PROVE  q \o r \in Seq(S) /\ Keeps(q \o r, where, place)
<1>1. /\ q \o r \in Seq(S)
      /\ \A i \in DOMAIN (q \o r) :
            \/ i \in DOMAIN q /\ (q \o r)[i] = q[i]
            \/ i \in Nat /\ i - Len(q) \in DOMAIN r /\ (q \o r)[i] = r[i - Len(q)]
      /\ Len(q) \in Nat
  OBVIOUS
<1> QED BY <1>1 DEF Keeps

LEMMA JoinRange ==
    ASSUME NEW S, NEW q \in Seq(S), NEW r \in Seq(S), NEW x
    PROVE  x \in Range(q \o r) <=> x \in Range(q) \/ x \in Range(r)
<1>1. /\ \A i \in DOMAIN q : i \in DOMAIN (q \o r) /\ (q \o r)[i] = q[i]
      /\ \A i \in DOMAIN r : Len(q) + i \in DOMAIN (q \o r) /\ (q \o r)[Len(q) + i] = r[i]
  OBVIOUS
<1>2. \A i \in DOMAIN (q \o r) :
            \/ i \in DOMAIN q /\ (q \o r)[i] = q[i]
            \/ i - Len(q) \in DOMAIN r /\ (q \o r)[i] = r[i - Len(q)]
  OBVIOUS
<1>3. x \in Range(q) => x \in Range(q \o r)
  BY <1>1 DEF Range
<1>4. x \in Range(r) => x \in Range(q \o r)
  BY <1>1 DEF Range
<1>5. x \in Range(q \o r) => x \in Range(q) \/ x \in Range(r)
  <2> SUFFICES ASSUME NEW i \in DOMAIN (q \o r), x = (q \o r)[i] PROVE x \in Range(q) \/ x \in Range(r)
    BY Zenon DEF Range
  <2> QED BY <1>2 DEF Range
<1> QED BY <1>3, <1>4, <1>5

LEMMA SameKeeps ==
    ASSUME NEW S, NEW q \in Seq(S), NEW where, NEW here, NEW place, Keeps(q, where, place),
           \A x \in S : where[x] = place => here[x] = place
    PROVE  Keeps(q, here, place)
<1>1. \A i \in DOMAIN q : q[i] \in S
  OBVIOUS
<1> QED BY <1>1 DEF Keeps

LEMMA EmptyKeeps ==
    ASSUME NEW where, NEW place PROVE Keeps(<<>>, where, place)
BY DEF Keeps

-----------------------------------------------------------------------------
(* What the consumer and the tasks do to the queues.                        *)

LEMMA TakenHead ==
    ASSUME IInv, NEW m \in Msgs, Takes(m)
    PROVE  /\ at[m] = "bus" /\ command = Nobody /\ bus' \in Seq(Msgs)
           /\ \A where : (\A x \in Msgs \ {m} : at[x] = "bus" => where[x] = "bus")
                          => Keeps(bus', where, "bus")
<1> USE DEF IInv, TypeOK, Takes
<1>1. /\ at[m] = "bus" /\ bus' \in Seq(Msgs) /\ Keeps(bus', at, "bus")
      /\ \A i \in DOMAIN bus' : bus'[i] \in Msgs /\ bus'[i] # m
  BY TailKeeps
<1> QED BY <1>1 DEF Keeps

LEMMA Ended ==
    ASSUME IInv, NEW m \in Msgs, at[m] \in Task,
           NEW back \in {pending, <<>>}, bus' = bus \o back \o FirstOf(deferred),
           pending' \in {pending, <<>>}, back # <<>> => pending' = <<>>,
           deferred' = RestOf(deferred),
           NEW place \in {"done", "stopped"}, at' = [Republished EXCEPT ![m] = place]
    PROVE  /\ bus' \in Seq(Msgs) /\ pending' \in Seq(Users) /\ deferred' \in Seq(Autos)
           /\ at' \in [Msgs -> Places] /\ at'[m] = place
           /\ \A x \in Msgs \ {m} :
                 at'[x] = at[x] \/ (at[x] \in {"bus", "pending", "deferred"} /\ at'[x] = "bus")
           /\ Keeps(bus', at', "bus") /\ Keeps(pending', at', "pending")
           /\ Keeps(deferred', at', "deferred")
           /\ deferred # <<>> => \E a \in Autos : at'[a] = "bus"
<1> DEFINE first == FirstOf(deferred)
           rest == RestOf(deferred)
<1> USE DEF IInv, TypeOK
<1>1. /\ first \in Seq(Autos) /\ rest \in Seq(Autos)
      /\ Keeps(first, at, "deferred") /\ Keeps(rest, at, "deferred")
      /\ \A i \in DOMAIN first, j \in DOMAIN rest : first[i] # rest[j]
      /\ deferred # <<>> => 1 \in DOMAIN first /\ first[1] \in Autos
  <2>1. CASE deferred = <<>>
    BY <2>1 DEF FirstOf, RestOf, Keeps
  <2>2. CASE deferred # <<>>
    BY <2>2, TailKeeps DEF FirstOf, RestOf, Keeps
  <2> QED BY <2>1, <2>2
<1>2. back \in Seq(Users) /\ Keeps(back, at, "pending") /\ Keeps(bus, at, "bus")
  <2>1. CASE back = <<>>
    BY <2>1, EmptyKeeps
  <2>2. CASE back = pending
    BY <2>2
  <2> QED BY <2>1, <2>2
<1>3. /\ bus \in Seq(Msgs) /\ back \in Seq(Msgs) /\ first \in Seq(Msgs) /\ rest \in Seq(Msgs)
      /\ pending \in Seq(Msgs)
  BY <1>1, <1>2 DEF Msgs
<1>4. bus \o back \in Seq(Msgs) /\ bus' \in Seq(Msgs)
  BY <1>3
<1>5. \A x : x \in Range(bus') <=> x \in Range(bus) \/ x \in Range(back) \/ x \in Range(first)
  <2> SUFFICES ASSUME NEW x
               PROVE  x \in Range(bus') <=> x \in Range(bus) \/ x \in Range(back) \/ x \in Range(first)
    OBVIOUS
  <2>1. x \in Range(bus \o back) <=> x \in Range(bus) \/ x \in Range(back)
    BY <1>3, JoinRange
  <2>2. x \in Range(bus') <=> x \in Range(bus \o back) \/ x \in Range(first)
    <3>1. x \in Range((bus \o back) \o first) <=> x \in Range(bus \o back) \/ x \in Range(first)
      <4> HIDE DEF first
      <4> QED BY <1>3, <1>4, JoinRange
    <3> QED BY <3>1
  <2> QED BY <2>1, <2>2
<1>6. /\ \A i \in DOMAIN bus : bus[i] \in Msgs /\ bus[i] \in Range(bus) /\ at[bus[i]] = "bus"
      /\ \A i \in DOMAIN back : back[i] \in Msgs /\ back[i] \in Range(back) /\ at[back[i]] = "pending"
      /\ \A i \in DOMAIN first : first[i] \in Msgs /\ first[i] \in Range(first) /\ at[first[i]] = "deferred"
  BY <1>1, <1>2, <1>3 DEF Keeps, Range
<1>7. /\ at' \in [Msgs -> Places] /\ at'[m] = place
      /\ \A x \in Msgs \ {m} : at'[x] = IF x \in Range(bus') THEN "bus" ELSE at[x]
  BY DEF Republished, Places
<1>20. \A x \in Range(bus') : at[x] \in {"bus", "pending", "deferred"}
  <2>1. \A x \in Range(bus) : at[x] = "bus"
    BY <1>6 DEF Range
  <2>2. \A x \in Range(back) : at[x] = "pending"
    BY <1>6 DEF Range
  <2>3. \A x \in Range(first) : at[x] = "deferred"
    BY <1>6 DEF Range
  <2> QED BY <2>1, <2>2, <2>3, <1>5
<1>8. m \notin Range(bus')
  BY <1>20 DEF Task, Holding, Active
<1>9. \A x \in Range(bus') : x \in Msgs => at'[x] = "bus"
  BY <1>7, <1>8
<1>10. Keeps(bus, at', "bus") /\ Keeps(back, at', "bus") /\ Keeps(first, at', "bus")
  BY <1>1, <1>2, <1>5, <1>6, <1>9 DEF Keeps
<1>11. Keeps(bus \o back, at', "bus")
  <2>1. \A i \in DOMAIN bus, j \in DOMAIN back : bus[i] # back[j]
    BY <1>6
  <2> QED BY <2>1, <1>3, <1>10, JoinKeeps
<1>12. Keeps(bus', at', "bus")
  <2>1. \A i \in DOMAIN (bus \o back) : at[(bus \o back)[i]] # "deferred"
    <3>1. \A i \in DOMAIN (bus \o back) :
            \/ i \in DOMAIN bus /\ (bus \o back)[i] = bus[i]
            \/ i - Len(bus) \in DOMAIN back /\ (bus \o back)[i] = back[i - Len(bus)]
      BY <1>3
    <3> QED BY <3>1, <1>6
  <2>2. \A i \in DOMAIN (bus \o back), j \in DOMAIN first : (bus \o back)[i] # first[j]
    BY <2>1, <1>6
  <2> QED BY <2>2, <1>3, <1>4, <1>10, <1>11, JoinKeeps
<1>13. Keeps(deferred', at', "deferred")
  <2>1. ASSUME NEW j \in DOMAIN rest PROVE rest[j] \in Msgs \ {m} /\ rest[j] \notin Range(bus')
    <3>1. rest[j] \in Msgs /\ at[rest[j]] = "deferred"
      BY <1>1, <1>3 DEF Keeps
    <3>2. rest[j] \notin Range(bus) /\ rest[j] \notin Range(back)
      BY <3>1, <1>2 DEF Keeps, Range
    <3>3. rest[j] \notin Range(first)
      BY <1>1 DEF Range
    <3> QED BY <3>1, <3>2, <3>3, <1>5 DEF Task, Holding, Active
  <2> QED BY <2>1, <1>1, <1>7 DEF Keeps
<1>14. Keeps(pending', at', "pending")
  <2>1. CASE pending' = <<>>
    BY <2>1, EmptyKeeps
  <2>2. CASE pending' = pending /\ back = <<>>
    <3>1. ASSUME NEW j \in DOMAIN pending PROVE pending[j] \in Msgs \ {m} /\ pending[j] \notin Range(bus')
      <4>1. pending[j] \in Msgs /\ at[pending[j]] = "pending"
        BY <1>3 DEF Keeps
      <4>2. pending[j] \notin Range(bus) /\ pending[j] \notin Range(back) /\ pending[j] \notin Range(first)
        BY <4>1, <1>1, <2>2 DEF Keeps, Range
      <4> QED BY <4>1, <4>2, <1>5 DEF Task, Holding, Active
    <3> QED BY <3>1, <1>7, <2>2 DEF Keeps
  <2> QED BY <2>1, <2>2
<1>15. deferred # <<>> => \E a \in Autos : at'[a] = "bus"
  BY <1>1, <1>5, <1>6, <1>9
<1>16. pending' \in Seq(Users)
  <2>1. CASE pending' = <<>>
    BY <2>1
  <2>2. CASE pending' = pending
    BY <2>2
  <2> QED BY <2>1, <2>2
<1>17. \A x \in Msgs \ {m} :
          at'[x] = at[x] \/ (at[x] \in {"bus", "pending", "deferred"} /\ at'[x] = "bus")
  BY <1>7, <1>20
<1>18. deferred' \in Seq(Autos)
  BY <1>1
<1> QED BY <1>4, <1>7, <1>12, <1>13, <1>14, <1>15, <1>16, <1>17, <1>18

-----------------------------------------------------------------------------
(* Every step keeps the invariant.                                          *)

LEMMA InitOK == ASSUME Init PROVE IInv
<1>1. TypeOK
  <2>1. at \in [Msgs -> Places]
    BY DEF Init, Places
  <2>2. /\ bus \in Seq(Msgs) /\ pending \in Seq(Users) /\ deferred \in Seq(Autos)
        /\ line \in Seq(Msgs \cup Others)
    BY DEF Init
  <2>3. waiter \in [Autos -> {"none", "open", "answered", "failed"}]
    BY DEF Init
  <2>4. command \in Stops \cup News \cup {Nobody} /\ cut \in BOOLEAN /\ queue \in Msgs \cup {Nobody}
    BY DEF Init
  <2> QED BY <2>1, <2>2, <2>3, <2>4 DEF TypeOK
<1>2. Keeps(bus, at, "bus") /\ Keeps(pending, at, "pending") /\ Keeps(deferred, at, "deferred")
  BY EmptyKeeps DEF Init
<1>3. command = Nobody /\ queue = Nobody /\ deferred = <<>> /\ \A m \in Msgs : at[m] = "unsent"
  BY DEF Init
<1> QED BY <1>1, <1>2, <1>3 DEF IInv, DeferredAreReleased, AutomationsRunAlone, Task, Holding, Active, Msgs, Open

\* A step that takes no message of a queue and puts none in.
LEMMA QuietStep ==
    ASSUME IInv, UNCHANGED <<bus, pending, deferred>>, at' \in [Msgs -> Places],
           \A x \in Msgs : at[x] \in {"bus", "pending", "deferred"} => at'[x] = at[x]
    PROVE  /\ bus' \in Seq(Msgs) /\ pending' \in Seq(Users) /\ deferred' \in Seq(Autos)
           /\ Keeps(bus', at', "bus") /\ Keeps(pending', at', "pending")
           /\ Keeps(deferred', at', "deferred")
<1>1. bus \in Seq(Msgs) /\ pending \in Seq(Msgs) /\ deferred \in Seq(Msgs)
  BY DEF IInv, TypeOK, Msgs
<1> QED BY <1>1, SameKeeps DEF IInv, TypeOK

LEMMA PublishOK ==
    ASSUME IInv, NEW m \in Msgs, NEW kind, Publish(m, kind),
           waiter' \in [Autos -> {"none", "open", "answered", "failed"}]
    PROVE  IInv'
<1> USE DEF IInv, TypeOK, Publish
<1>1. /\ at' \in [Msgs -> Places] /\ at'[m] = "bus"
      /\ \A x \in Msgs \ {m} : at'[x] = at[x]
  BY DEF Places
<1>2. \A i \in DOMAIN bus : bus[i] # m /\ bus[i] \in Msgs
  BY DEF Keeps
<1>3. bus' \in Seq(Msgs) /\ Keeps(bus', at', "bus")
  <2>1. Keeps(bus, at', "bus")
    BY <1>1, <1>2 DEF Keeps
  <2> QED BY <2>1, <1>1, <1>2, AppendKeeps
<1>4. Keeps(pending', at', "pending") /\ Keeps(deferred', at', "deferred")
  BY <1>1 DEF Keeps, Msgs
<1>5. command' # Nobody => \A x \in Msgs : at'[x] \notin Active
  BY <1>1 DEF Active
<1>6. command' # Nobody /\ at'[command'] = "locking" => AllEnded'
  BY <1>1 DEF AllEnded, Cancelled, Msgs
<1>7. DeferredAreReleased'
  <2>1. deferred' # <<>> => cut' \/ \E x \in Msgs \ Stops : at'[x] \in Task \cup {"bus"}
    BY <1>1 DEF DeferredAreReleased
  <2> QED BY <2>1 DEF DeferredAreReleased
<1>8. AutomationsRunAlone'
  BY <1>1 DEF AutomationsRunAlone, Msgs
<1>9. \A x \in Stops : at'[x] \notin Task
  BY <1>1 DEF Task, Holding, Active, Msgs
<1>10. command' # Nobody => at'[command'] \in {"inline", "locking"}
  BY <1>1 DEF Msgs
<1>11. Open' => at'[queue'] \in Holding
  BY <1>1 DEF Open, Holding
<1> QED BY <1>1, <1>3, <1>4, <1>5, <1>6, <1>7, <1>8, <1>9, <1>10, <1>11

LEMMA StartsTaskOK == ASSUME IInv, NEW m \in Msgs, StartsTask(m) PROVE IInv'
<1> USE DEF IInv, TypeOK, StartsTask, Spawns
<1>1. at[m] = "bus" /\ command = Nobody /\ bus' \in Seq(Msgs) /\ m \notin Stops
  BY TakenHead
<1>2. /\ at' \in [Msgs -> Places] /\ at'[m] = "spawned"
      /\ \A x \in Msgs \ {m} : at'[x] = at[x]
  BY DEF Places
<1>3. Keeps(bus', at', "bus")
  BY <1>2, TakenHead
<1>4. Keeps(pending', at', "pending") /\ Keeps(deferred', at', "deferred")
  BY <1>1, <1>2 DEF Keeps, Msgs
<1>5. DeferredAreReleased'
  BY <1>1, <1>2 DEF DeferredAreReleased, Task, Holding, Active
<1>6. AutomationsRunAlone'
  BY <1>2 DEF AutomationsRunAlone, Msgs
<1>7. \A x \in Stops : at'[x] \notin Task
  BY <1>1, <1>2 DEF Msgs
<1>8. Open' => at'[queue'] \in Holding
  BY <1>1, <1>2 DEF Open, Holding
<1> QED BY <1>1, <1>2, <1>3, <1>4, <1>5, <1>6, <1>7, <1>8

LEMMA OpenTurn == ASSUME IInv, Open PROVE queue \in Msgs \ Stops /\ at[queue] \in Holding
BY DEF IInv, TypeOK, Open, Task, Holding, Active

LEMMA InjectsOK == ASSUME IInv, NEW m \in Msgs, Injects(m) PROVE IInv'
<1> USE DEF IInv, TypeOK, Injects
<1>1. at[m] = "bus" /\ command = Nobody /\ bus' \in Seq(Msgs) /\ m \in Users
  BY TakenHead
<1>2. /\ at' \in [Msgs -> Places] /\ at'[m] = "pending"
      /\ \A x \in Msgs \ {m} : at'[x] = at[x]
  BY DEF Places
<1>3. Keeps(bus', at', "bus")
  BY <1>2, TakenHead
<1>4. pending' \in Seq(Users) /\ Keeps(pending', at', "pending")
  <2>1. Keeps(pending, at', "pending") /\ \A i \in DOMAIN pending : pending[i] # m
    BY <1>1, <1>2 DEF Keeps, Msgs
  <2> QED BY <2>1, <1>1, <1>2, AppendKeeps
<1>5. Keeps(deferred', at', "deferred")
  BY <1>1, <1>2 DEF Keeps, Msgs
<1>6. DeferredAreReleased'
  BY <1>1, <1>2, OpenTurn DEF DeferredAreReleased, Task, Holding, Active
<1>7. AutomationsRunAlone'
  BY <1>1, <1>2 DEF AutomationsRunAlone, Msgs
<1>8. \A x \in Stops : at'[x] \notin Task
  BY <1>2 DEF Msgs, Task, Holding, Active
<1>9. Open' => at'[queue'] \in Holding
  BY <1>1, <1>2 DEF Open, Holding
<1> QED BY <1>1, <1>2, <1>3, <1>4, <1>5, <1>6, <1>7, <1>8, <1>9

LEMMA DefersOK == ASSUME IInv, NEW m \in Msgs, Defers(m) PROVE IInv'
<1> USE DEF IInv, TypeOK, Defers
<1>1. at[m] = "bus" /\ command = Nobody /\ bus' \in Seq(Msgs) /\ m \in Autos
  BY TakenHead
<1>2. /\ at' \in [Msgs -> Places] /\ at'[m] = "deferred"
      /\ \A x \in Msgs \ {m} : at'[x] = at[x]
  BY DEF Places
<1>3. Keeps(bus', at', "bus")
  BY <1>2, TakenHead
<1>4. deferred' \in Seq(Autos) /\ Keeps(deferred', at', "deferred")
  <2>1. Keeps(deferred, at', "deferred") /\ \A i \in DOMAIN deferred : deferred[i] # m
    BY <1>1, <1>2 DEF Keeps, Msgs
  <2> QED BY <2>1, <1>1, <1>2, AppendKeeps
<1>5. Keeps(pending', at', "pending")
  BY <1>1, <1>2 DEF Keeps, Msgs
<1>6. DeferredAreReleased'
  BY <1>1, <1>2, OpenTurn DEF DeferredAreReleased, Task, Holding, Active
<1>7. AutomationsRunAlone'
  BY <1>2 DEF AutomationsRunAlone, Msgs
<1>8. \A x \in Stops : at'[x] \notin Task
  BY <1>1, <1>2 DEF Msgs, Task, Holding, Active
<1>9. Open' => at'[queue'] \in Holding
  BY <1>1, <1>2 DEF Open, Holding
<1> QED BY <1>1, <1>2, <1>3, <1>4, <1>5, <1>6, <1>7, <1>8, <1>9

\* What a cancellation does to a place.
LEMMA ReachedPlaces ==
    ASSUME NEW p \in Places
    PROVE  /\ Reached(p) \in Places
           /\ Reached(p) \notin Active
           /\ p \notin Task => Reached(p) = p
           /\ p \in Task => Reached(p) \in Task \/ p = "spawned"
           /\ Reached(p) \in Task => p \in Task
           /\ p \in Holding => Reached(p) \in Holding
           /\ Reached(p) \in {"bus", "pending", "deferred", "absorbed", "locking"} => Reached(p) = p
BY DEF Reached, Places, Task, Holding, Active

LEMMA TakesCommandOK == ASSUME IInv, NEW m \in Msgs, TakesCommand(m) PROVE IInv'
<1> USE DEF IInv, TypeOK, TakesCommand, Cancels
<1>1. at[m] = "bus" /\ command = Nobody /\ bus' \in Seq(Msgs) /\ m \in Stops \cup News
  BY TakenHead
<1>2. /\ at' \in [Msgs -> Places] /\ at'[m] = "inline"
      /\ \A x \in Msgs \ {m} : at'[x] = Reached(at[x])
  BY ReachedPlaces DEF Places
<1>3. Keeps(bus', at', "bus")
  <2>1. \A x \in Msgs \ {m} : at[x] = "bus" => at'[x] = "bus"
    BY <1>2 DEF Reached
  <2> QED BY <2>1, TakenHead
<1>4. Keeps(pending', at', "pending") /\ Keeps(deferred', at', "deferred")
  <2>1. \A x \in Msgs : at[x] \in {"pending", "deferred"} => at'[x] = at[x]
    BY <1>1, <1>2 DEF Reached
  <2>2. \A i \in DOMAIN pending : pending[i] \in Msgs
    BY DEF Msgs
  <2>3. \A i \in DOMAIN deferred : deferred[i] \in Msgs
    BY DEF Msgs
  <2> QED BY <2>1, <2>2, <2>3 DEF Keeps
<1>5. /\ command' \in Stops \cup News \cup {Nobody} /\ command' = m /\ cut' \in BOOLEAN
      /\ \A x \in Msgs : at'[x] \notin Active
  <2>1. command' = m /\ m \in Stops \cup News \cup {Nobody}
    BY <1>1
  <2>2. cut' \in BOOLEAN
    OBVIOUS
  <2>3. ASSUME NEW x \in Msgs \ {m} PROVE at'[x] \notin Active
    <3>1. at[x] \in Places
      OBVIOUS
    <3> QED BY <3>1, <1>2, ReachedPlaces
  <2> QED BY <2>1, <2>2, <2>3, <1>2 DEF Active
<1>6. at'[command'] # "locking"
  BY <1>2, <1>5
<1>7. DeferredAreReleased'
  <2> SUFFICES ASSUME deferred # <<>>, ~ cut'
               PROVE  \E x \in Msgs \ Stops : at'[x] \in Task \cup {"bus"}
    BY DEF DeferredAreReleased
  <2>1. ~cut /\ \A x \in Msgs : at[x] # "spawned"
    OBVIOUS
  <2>2. PICK x \in Msgs \ Stops : at[x] \in Task \cup {"bus"}
    BY <2>1 DEF DeferredAreReleased
  <2>3. CASE x # m
    <3>1. at'[x] \in Task \cup {"bus"}
      BY <1>2, <2>1, <2>2, <2>3 DEF Reached, Task, Holding, Active
    <3> QED BY <3>1, <2>2
  <2>4. CASE x = m
    <3>1. Open
      BY <1>1, <2>2, <2>4
    <3>2. queue \in Msgs \ Stops /\ at[queue] \in Holding /\ queue # m /\ at[queue] \in Places
      BY <3>1, <1>1, OpenTurn DEF Holding
    <3>3. at'[queue] \in Task
      BY <3>2, <1>2, ReachedPlaces DEF Task, Holding, Active
    <3> QED BY <3>2, <3>3
  <2> QED BY <2>3, <2>4
<1>8. AutomationsRunAlone'
  <2>1. ASSUME NEW a \in Autos PROVE at'[a] \notin {"pending", "absorbed"}
    <3>1. a \in Msgs \ {m} /\ at[a] \in Places /\ at[a] \notin {"pending", "absorbed"}
      BY <1>1 DEF AutomationsRunAlone, Msgs
    <3> QED BY <3>1, <1>2, ReachedPlaces
  <2> QED BY <2>1 DEF AutomationsRunAlone
<1>9. \A x \in Stops : at'[x] \notin Task
  <2>1. ASSUME NEW x \in Stops PROVE at'[x] \notin Task
    <3>1. x \in Msgs /\ at[x] \in Places /\ at[x] \notin Task
      BY DEF Msgs
    <3> QED BY <3>1, <1>2, ReachedPlaces DEF Task, Holding, Active
  <2> QED BY <2>1
<1>10. Open' => at'[queue'] \in Holding
  <2>1. Open => queue \in Msgs \ {m} /\ at[queue] \in Holding /\ at[queue] \in Places
    BY <1>1 DEF Open, Holding
  <2> QED BY <2>1, <1>2, ReachedPlaces DEF Open
<1> QED BY <1>1, <1>2, <1>3, <1>4, <1>5, <1>6, <1>7, <1>8, <1>9, <1>10

\* A step that leaves the queues alone and moves tasks and commands only.
LEMMA OtherOK ==
    ASSUME IInv, UNCHANGED <<bus, pending, deferred>>, cut \in BOOLEAN => cut' \in BOOLEAN,
           waiter' \in [Autos -> {"none", "open", "answered", "failed"}],
           line' \in Seq(Msgs \cup Others), command' \in {command, Nobody},
           at' \in [Msgs -> Places], queue' \in Msgs \cup {Nobody},
           Open' => at'[queue'] \in Holding,
           \A x \in Msgs : at[x] \in {"bus", "pending", "deferred"} => at'[x] = at[x],
           command' # Nobody => \A m \in Msgs : at'[m] \notin Active,
           command' # Nobody => at'[command'] \in {"inline", "locking"},
           command' # Nobody /\ at'[command'] = "locking" => AllEnded',
           \A x \in Stops : at'[x] \notin Task,
           \A x \in Autos : at'[x] \notin {"pending", "absorbed"},
           deferred # <<>> => cut' \/ \E m \in Msgs \ Stops : at'[m] \in Task \cup {"bus"}
    PROVE  IInv'
<1>1. TypeOK'
  <2>1. command' \in Stops \cup News \cup {Nobody}
    BY DEF IInv, TypeOK
  <2> QED BY <2>1 DEF IInv, TypeOK
<1>2. Keeps(bus', at', "bus") /\ Keeps(pending', at', "pending") /\ Keeps(deferred', at', "deferred")
  BY QuietStep
<1>3. DeferredAreReleased' /\ AutomationsRunAlone'
  BY DEF DeferredAreReleased, AutomationsRunAlone
<1> QED BY <1>1, <1>2, <1>3 DEF IInv

LEMMA NewWaitsOK == ASSUME IInv, NewWaits PROVE IInv'
<1> USE DEF IInv, TypeOK, NewWaits
<1>1. command \in Msgs /\ command \in News /\ command # Nobody
  BY DEF Msgs
<1>2. /\ at' \in [Msgs -> Places] /\ at'[command] = "locking"
      /\ \A x \in Msgs \ {command} : at'[x] = at[x]
  BY <1>1 DEF Places
<1>3. line' \in Seq(Msgs \cup Others)
  BY <1>1
<1>4. AllEnded'
  BY <1>2 DEF AllEnded, Cancelled
<1>5. deferred # <<>> => cut' \/ \E m \in Msgs \ Stops : at'[m] \in Task \cup {"bus"}
  BY <1>2 DEF DeferredAreReleased, Task, Holding, Active
<1>6. \A x \in Stops : at'[x] \notin Task
  BY <1>1, <1>2 DEF Msgs
<1>7. \A x \in Autos : at'[x] \notin {"pending", "absorbed"}
  BY <1>1, <1>2 DEF Msgs, AutomationsRunAlone
<1>8. \A m \in Msgs : at'[m] \notin Active
  BY <1>1, <1>2 DEF Active
<1>9. \A x \in Msgs : at[x] \in {"bus", "pending", "deferred"} => at'[x] = at[x]
  BY <1>2
<1>11. queue' \in Msgs \cup {Nobody} /\ (Open' => at'[queue'] \in Holding)
  BY <1>1, <1>2 DEF Open, Holding
<1> QED BY <1>1, <1>2, <1>3, <1>4, <1>5, <1>6, <1>7, <1>8, <1>9, <1>11, OtherOK

LEMMA NewResetsOK == ASSUME IInv, NewResets PROVE IInv'
<1> USE DEF IInv, TypeOK, NewResets
<1>1. command \in Msgs /\ command \in News /\ command # Nobody /\ command \notin Autos
  BY DEF Msgs
<1>2. /\ at' \in [Msgs -> Places] /\ at'[command] = "done"
      /\ \A x \in Msgs \ {command} : at'[x] = at[x]
  BY <1>1 DEF Places
<1>3. line' \in Seq(Msgs \cup Others)
  <2>1. line # <<>>
    BY <1>1 DEF Turn
  <2> QED BY <2>1
<1>5. deferred # <<>> => cut' \/ \E m \in Msgs \ Stops : at'[m] \in Task \cup {"bus"}
  BY <1>2 DEF DeferredAreReleased, Task, Holding, Active
<1>6. \A x \in Stops : at'[x] \notin Task
  BY <1>1, <1>2 DEF Msgs
<1>7. \A x \in Autos : at'[x] \notin {"pending", "absorbed"}
  BY <1>1, <1>2 DEF Msgs, AutomationsRunAlone
<1>9. \A x \in Msgs : at[x] \in {"bus", "pending", "deferred"} => at'[x] = at[x]
  BY <1>2
<1>11. queue' \in Msgs \cup {Nobody} /\ (Open' => at'[queue'] \in Holding)
  BY <1>1, <1>2 DEF Open, Holding
<1> QED BY <1>1, <1>2, <1>3, <1>5, <1>6, <1>7, <1>9, <1>11, OtherOK

LEMMA BeginsOK == ASSUME IInv, NEW m \in Msgs, Begins(m) PROVE IInv'
<1> USE DEF IInv, TypeOK, Begins
<1>1. command = Nobody /\ m \notin Stops
  BY DEF Task, Holding, Active
<1>2. /\ at' \in [Msgs -> Places] /\ at'[m] = "waiting"
      /\ \A x \in Msgs \ {m} : at'[x] = at[x]
  BY DEF Places
<1>3. line' \in Seq(Msgs \cup Others)
  OBVIOUS
<1>5. deferred # <<>> => cut' \/ \E x \in Msgs \ Stops : at'[x] \in Task \cup {"bus"}
  BY <1>1, <1>2 DEF DeferredAreReleased, Task, Holding, Active
<1>6. \A x \in Stops : at'[x] \notin Task
  BY <1>1, <1>2 DEF Msgs
<1>7. \A x \in Autos : at'[x] \notin {"pending", "absorbed"}
  BY <1>2 DEF Msgs, AutomationsRunAlone
<1>9. \A x \in Msgs : at[x] \in {"bus", "pending", "deferred"} => at'[x] = at[x]
  BY <1>2
<1>11. queue' \in Msgs \cup {Nobody} /\ (Open' => at'[queue'] \in Holding)
  BY <1>2 DEF Open, Holding
<1> QED BY <1>1, <1>2, <1>3, <1>5, <1>6, <1>7, <1>9, <1>11, OtherOK

LEMMA TurnStartsOK == ASSUME IInv, NEW m \in Msgs, TurnStarts(m) PROVE IInv'
<1> USE DEF IInv, TypeOK, TurnStarts
<1>1. command = Nobody /\ m \notin Stops
  BY DEF Task, Holding, Active
<1>2. /\ at' \in [Msgs -> Places] /\ at'[m] = "running"
      /\ \A x \in Msgs \ {m} : at'[x] = at[x]
  BY DEF Places
<1>5. deferred # <<>> => cut' \/ \E x \in Msgs \ Stops : at'[x] \in Task \cup {"bus"}
  BY <1>1, <1>2 DEF DeferredAreReleased, Task, Holding, Active
<1>6. \A x \in Stops : at'[x] \notin Task
  BY <1>1, <1>2 DEF Msgs
<1>7. \A x \in Autos : at'[x] \notin {"pending", "absorbed"}
  BY <1>2 DEF Msgs, AutomationsRunAlone
<1>9. \A x \in Msgs : at[x] \in {"bus", "pending", "deferred"} => at'[x] = at[x]
  BY <1>2
<1>11. queue' \in Msgs \cup {Nobody} /\ (Open' => at'[queue'] \in Holding)
  BY <1>2 DEF Open, Holding
<1> QED BY <1>1, <1>2, <1>5, <1>6, <1>7, <1>9, <1>11, OtherOK

LEMMA NewCancelsOK == ASSUME IInv, NEW m \in Msgs, NewCancels(m) PROVE IInv'
<1> USE DEF IInv, TypeOK, NewCancels
<1>1. command = Nobody /\ m \notin Stops
  BY DEF Task, Holding, Active
<1>2. /\ at' \in [Msgs -> Places] /\ at'[m] = "cancelling"
      /\ \A x \in Msgs \ {m} : at'[x] = Reached(at[x])
  BY ReachedPlaces DEF Places
<1>5. deferred # <<>> => cut' \/ \E x \in Msgs \ Stops : at'[x] \in Task \cup {"bus"}
  BY <1>1, <1>2 DEF Task, Holding, Active
<1>6. \A x \in Stops : at'[x] \notin Task
  <2>1. ASSUME NEW x \in Stops PROVE at'[x] \notin Task
    <3>1. x \in Msgs \ {m} /\ at[x] \in Places /\ at[x] \notin Task
      BY <1>1 DEF Msgs
    <3> QED BY <3>1, <1>2, ReachedPlaces DEF Task, Holding, Active
  <2> QED BY <2>1
<1>7. \A x \in Autos : at'[x] \notin {"pending", "absorbed"}
  <2>1. ASSUME NEW x \in Autos PROVE at'[x] \notin {"pending", "absorbed"}
    <3>1. x \in Msgs /\ at[x] \in Places /\ at[x] \notin {"pending", "absorbed"}
      BY DEF AutomationsRunAlone, Msgs
    <3> QED BY <3>1, <1>2, ReachedPlaces
  <2> QED BY <2>1
<1>9. \A x \in Msgs : at[x] \in {"bus", "pending", "deferred"} => at'[x] = at[x]
  BY <1>2 DEF Reached
<1>10. cut' \in BOOLEAN
  OBVIOUS
<1>11. queue' \in Msgs \cup {Nobody} /\ (Open' => at'[queue'] \in Holding)
  <2>1. Open => queue \in Msgs /\ at[queue] \in Holding /\ at[queue] \in Places
    BY DEF Open
  <2>2. Open => at'[queue] \in Holding
    <3>1. CASE queue = m
      BY <3>1, <1>2 DEF Holding
    <3>2. CASE queue # m
      BY <3>2, <2>1, <1>2, ReachedPlaces
    <3> QED BY <3>1, <3>2
  <2> QED BY <2>2 DEF Open
<1> QED BY <1>1, <1>2, <1>5, <1>6, <1>7, <1>9, <1>10, <1>11, OtherOK

LEMMA NewGoesOnOK == ASSUME IInv, NEW m \in Msgs, NewGoesOn(m) PROVE IInv'
<1> USE DEF IInv, TypeOK, NewGoesOn
<1>1. m \notin Stops
  BY DEF Task, Holding, Active
<1>2. /\ at' \in [Msgs -> Places] /\ at'[m] = "resetting"
      /\ \A x \in Msgs \ {m} : at'[x] = at[x]
  BY DEF Places
<1>3. AllEnded'
  BY <1>2 DEF AllEnded, Cancelled
<1>4. command' # Nobody => \A x \in Msgs : at'[x] \notin Active
  BY <1>2 DEF Active
<1>5. deferred # <<>> => cut' \/ \E x \in Msgs \ Stops : at'[x] \in Task \cup {"bus"}
  BY <1>1, <1>2 DEF DeferredAreReleased, Task, Holding, Active
<1>6. \A x \in Stops : at'[x] \notin Task
  BY <1>1, <1>2 DEF Msgs
<1>7. \A x \in Autos : at'[x] \notin {"pending", "absorbed"}
  BY <1>2 DEF Msgs, AutomationsRunAlone
<1>8. command' # Nobody => at'[command'] \in {"inline", "locking"}
  BY <1>2 DEF Msgs
<1>9. \A x \in Msgs : at[x] \in {"bus", "pending", "deferred"} => at'[x] = at[x]
  BY <1>2
<1>11. queue' \in Msgs \cup {Nobody} /\ (Open' => at'[queue'] \in Holding)
  BY <1>2 DEF Open, Holding
<1> QED BY <1>2, <1>3, <1>4, <1>5, <1>6, <1>7, <1>8, <1>9, <1>11, OtherOK

LEMMA OtherWaitsOK == ASSUME IInv, NEW o \in Others, OtherWaits(o) PROVE IInv'
<1>1. line' \in Seq(Msgs \cup Others)
  BY DEF IInv, TypeOK, OtherWaits
<1> QED BY <1>1 DEF IInv, TypeOK, OtherWaits, DeferredAreReleased, AutomationsRunAlone, AllEnded, Open

LEMMA OtherLeavesOK == ASSUME IInv, NEW o \in Others, OtherLeaves(o) PROVE IInv'
<1>1. line' \in Seq(Msgs \cup Others)
  <2>1. line # <<>>
    BY DEF OtherLeaves, Turn
  <2> QED BY <2>1 DEF IInv, TypeOK, OtherLeaves
<1> QED BY <1>1 DEF IInv, TypeOK, OtherLeaves, DeferredAreReleased, AutomationsRunAlone, AllEnded, Open

LEMMA AbsorbsOK == ASSUME IInv, NEW m \in Msgs, Absorbs(m) PROVE IInv'
<1> USE DEF IInv, TypeOK, Absorbs
<1>1. /\ Head(pending) \in Users /\ Tail(pending) \in Seq(Users) /\ at[Head(pending)] = "pending"
      /\ \A i \in DOMAIN Tail(pending) : Tail(pending)[i] # Head(pending) /\ Tail(pending)[i] \in Users
      /\ Keeps(Tail(pending), at, "pending")
  BY TailKeeps
<1> DEFINE u == Head(pending)
<1>2. /\ u \in Msgs /\ u \notin Autos /\ u \notin Stops /\ at' \in [Msgs -> Places]
      /\ at'[u] = "absorbed" /\ \A x \in Msgs \ {u} : at'[x] = at[x]
  BY <1>1 DEF Places, Msgs
<1>3. command = Nobody /\ m \notin Stops /\ at'[m] = "running"
  BY <1>1, <1>2 DEF Task, Holding, Active
<1>4. Keeps(bus', at', "bus") /\ Keeps(deferred', at', "deferred")
  BY <1>1, <1>2 DEF Keeps, Msgs
<1>5. pending' \in Seq(Users) /\ Keeps(pending', at', "pending")
  BY <1>1, <1>2 DEF Keeps, Msgs
<1>6. DeferredAreReleased'
  BY <1>3 DEF DeferredAreReleased, Task, Holding, Active
<1>7. AutomationsRunAlone'
  BY <1>2 DEF AutomationsRunAlone, Msgs
<1>8. \A x \in Stops : at'[x] \notin Task
  BY <1>2 DEF Msgs
<1>9. Open' => at'[queue'] \in Holding
  BY <1>1, <1>2 DEF Open, Holding
<1> QED BY <1>2, <1>3, <1>4, <1>5, <1>6, <1>7, <1>8, <1>9

LEMMA StopRepliesOK == ASSUME IInv, StopReplies PROVE IInv'
<1> USE DEF IInv, TypeOK, StopReplies
<1>1. command \in Stops /\ command \in Msgs /\ at[command] \notin Task
  BY DEF Msgs
<1>2. \A x \in Range(pending) : x \in Users /\ at[x] = "pending"
  BY DEF Range, Keeps
<1>3. /\ at' \in [Msgs -> Places] /\ at'[command] = "done"
      /\ \A x \in Msgs \ {command} : at'[x] = IF x \in Range(pending) THEN "stopped" ELSE at[x]
  BY <1>1 DEF Places
<1>4. Keeps(bus', at', "bus") /\ Keeps(deferred', at', "deferred")
  <2>1. \A i \in DOMAIN bus : bus[i] \in Msgs /\ bus[i] # command
    BY <1>1 DEF Keeps
  <2>2. \A i \in DOMAIN deferred : deferred[i] \in Msgs /\ deferred[i] # command
    BY <1>1 DEF Keeps, Msgs
  <2> QED BY <1>2, <1>3, <2>1, <2>2 DEF Keeps
<1>5. pending' \in Seq(Users) /\ Keeps(pending', at', "pending")
  BY EmptyKeeps
<1>6. DeferredAreReleased'
  <2>1. \A x \in Msgs : at[x] \in Task \cup {"bus"} => at'[x] = at[x]
    BY <1>1, <1>2, <1>3 DEF Task, Holding, Active
  <2> QED BY <2>1 DEF DeferredAreReleased
<1>7. AutomationsRunAlone'
  BY <1>1, <1>3 DEF AutomationsRunAlone, Msgs
<1>8. \A x \in Stops : at'[x] \notin Task
  BY <1>1, <1>3 DEF Msgs, Task, Holding, Active
<1>9. command' = Nobody /\ queue' = Nobody
  OBVIOUS
<1> QED BY <1>3, <1>4, <1>5, <1>6, <1>7, <1>8, <1>9 DEF Open

\* The end of a task, however it ends: Ended, and the rest of the invariant.
LEMMA TaskEndOK ==
    ASSUME IInv, NEW m \in Msgs, at[m] \in Task,
           NEW back \in {pending, <<>>}, bus' = bus \o back \o FirstOf(deferred),
           pending' \in {pending, <<>>}, back # <<>> => pending' = <<>>,
           deferred' = RestOf(deferred),
           NEW place \in {"done", "stopped"}, at' = [Republished EXCEPT ![m] = place],
           line' \in Seq(Msgs \cup Others), UNCHANGED <<command, cut>>,
           queue' \in {queue, Nobody}, at[m] \in Holding => queue' = Nobody,
           waiter' \in [Autos -> {"none", "open", "answered", "failed"}]
    PROVE  IInv'
<1>1. /\ bus' \in Seq(Msgs) /\ pending' \in Seq(Users) /\ deferred' \in Seq(Autos)
      /\ at' \in [Msgs -> Places] /\ at'[m] = place
      /\ \A x \in Msgs \ {m} :
            at'[x] = at[x] \/ (at[x] \in {"bus", "pending", "deferred"} /\ at'[x] = "bus")
      /\ Keeps(bus', at', "bus") /\ Keeps(pending', at', "pending")
      /\ Keeps(deferred', at', "deferred")
      /\ deferred # <<>> => \E a \in Autos : at'[a] = "bus"
  BY Ended
<1>2. TypeOK'
  BY <1>1 DEF IInv, TypeOK
<1>3. DeferredAreReleased'
  <2>1. deferred' # <<>> => deferred # <<>>
    BY DEF RestOf
  <2> QED BY <1>1, <2>1 DEF DeferredAreReleased, Msgs
<1>4. AutomationsRunAlone'
  <2>1. ASSUME NEW a \in Autos PROVE at'[a] \notin {"pending", "absorbed"}
    <3>1. a \in Msgs /\ at[a] \notin {"pending", "absorbed"}
      BY DEF IInv, AutomationsRunAlone, Msgs
    <3> QED BY <3>1, <1>1
  <2> QED BY <2>1 DEF AutomationsRunAlone
<1>5. \A x \in Stops : at'[x] \notin Task
  <2>1. ASSUME NEW x \in Stops PROVE at'[x] \notin Task
    <3>1. x \in Msgs \ {m} /\ at[x] \notin Task
      BY DEF IInv, Msgs
    <3> QED BY <3>1, <1>1 DEF Task, Holding, Active
  <2> QED BY <2>1
<1>6. command' # Nobody => \A x \in Msgs : at'[x] \notin Active
  BY <1>1 DEF IInv, Active
<1>7. command' # Nobody => at'[command'] = at[command] /\ at'[command'] \in {"inline", "locking"}
  <2>1. command # Nobody => command \in Msgs \ {m} /\ at[command] \in {"inline", "locking"}
    BY DEF IInv, TypeOK, Msgs, Task, Holding, Active
  <2> QED BY <2>1, <1>1
<1>8. AllEnded => AllEnded'
  BY <1>1 DEF AllEnded, Cancelled
<1>9. Open' => at'[queue'] \in Holding
  <2>1. Open' => Open /\ queue' = queue /\ queue \in Msgs \ {m} /\ at[queue] \in Holding
    BY DEF IInv, TypeOK, Open
  <2> QED BY <2>1, <1>1 DEF Holding
<1> QED BY <1>1, <1>2, <1>3, <1>4, <1>5, <1>6, <1>7, <1>8, <1>9 DEF IInv

LEMMA SettlesType ==
    ASSUME IInv, NEW m \in Msgs, NEW how \in {"answered", "failed"}, Settles(m, how)
    PROVE  waiter' \in [Autos -> {"none", "open", "answered", "failed"}]
BY DEF IInv, TypeOK, Settles

LEMMA TurnEndsOK == ASSUME IInv, NEW m \in Msgs, TurnEnds(m) PROVE IInv'
<1>1. line # <<>> /\ line' \in Seq(Msgs \cup Others)
  <2>1. line # <<>>
    BY DEF TurnEnds, Turn
  <2> QED BY <2>1 DEF IInv, TypeOK, TurnEnds, EndsTurn
<1>2. waiter' \in [Autos -> {"none", "open", "answered", "failed"}]
  BY SettlesType DEF TurnEnds
<1>3. /\ at[m] \in Task /\ bus' = bus \o pending \o FirstOf(deferred) /\ pending' = <<>>
      /\ deferred' = RestOf(deferred) /\ at' = [Republished EXCEPT ![m] = "done"]
      /\ UNCHANGED <<command, cut>> /\ queue' = Nobody
  BY DEF TurnEnds, EndsTurn, Releases, Leftovers, Task, Holding, Active
<1> QED BY <1>1, <1>2, <1>3, TaskEndOK

LEMMA StoppedTurnEndsOK == ASSUME IInv, NEW m \in Msgs, StoppedTurnEnds(m) PROVE IInv'
<1>1. line # <<>> /\ line' \in Seq(Msgs \cup Others)
  <2>1. line # <<>>
    BY DEF StoppedTurnEnds, Turn
  <2> QED BY <2>1 DEF IInv, TypeOK, StoppedTurnEnds, EndsTurn
<1>2. waiter' \in [Autos -> {"none", "open", "answered", "failed"}]
  BY SettlesType DEF StoppedTurnEnds
<1>3. /\ at[m] \in Task /\ bus' = bus \o pending \o FirstOf(deferred) /\ pending' = <<>>
      /\ deferred' = RestOf(deferred) /\ at' = [Republished EXCEPT ![m] = "stopped"]
      /\ UNCHANGED <<command, cut>> /\ queue' = Nobody
  BY DEF StoppedTurnEnds, EndsTurn, Releases, Leftovers, Task, Holding, Active
<1> QED BY <1>1, <1>2, <1>3, TaskEndOK

LEMMA WaiterEndsOK == ASSUME IInv, NEW m \in Msgs, WaiterEnds(m) PROVE IInv'
<1>1. line' \in Seq(Msgs \cup Others)
  <2>1. PICK i \in DOMAIN line : line' = RemoveAt(line, i)
    BY DEF WaiterEnds
  <2>2. line \in Seq(Msgs \cup Others)
    BY DEF IInv, TypeOK
  <2>3. i \in 1 .. Len(line) /\ Len(line) \in Nat
    BY <2>2
  <2>4. SubSeq(line, 1, i - 1) \in Seq(Msgs \cup Others)
    BY <2>2, <2>3
  <2>5. SubSeq(line, i + 1, Len(line)) \in Seq(Msgs \cup Others)
    BY <2>2, <2>3
  <2> QED BY <2>1, <2>4, <2>5 DEF RemoveAt
<1>2. /\ at[m] \in Task /\ bus' = bus \o FirstOf(deferred) /\ pending' = pending
      /\ deferred' = RestOf(deferred) /\ at' = [Republished EXCEPT ![m] = "stopped"]
      /\ UNCHANGED <<command, cut, waiter, queue>> /\ at[m] \notin Holding
  BY DEF WaiterEnds, Task, Holding, Active
<1>3. bus' = bus \o <<>> \o FirstOf(deferred)
  <2>1. bus \o <<>> = bus
    BY DEF IInv, TypeOK
  <2> QED BY <1>2, <2>1
<1>4. waiter' \in [Autos -> {"none", "open", "answered", "failed"}]
  BY <1>2 DEF IInv, TypeOK
<1> QED BY <1>1, <1>2, <1>3, <1>4, TaskEndOK

-----------------------------------------------------------------------------
LEMMA Step == IInv /\ [Next]_vars => IInv'
<1> SUFFICES ASSUME IInv, [Next]_vars PROVE IInv'
  OBVIOUS
<1>1. CASE UNCHANGED vars
  BY <1>1 DEF vars, IInv, TypeOK, DeferredAreReleased, AutomationsRunAlone, AllEnded, Keeps, Open
<1>2. ASSUME NEW m \in Msgs, NEW kind \in {Users, Stops, News}, Send(m, kind) PROVE IInv'
  BY <1>2, PublishOK DEF Send, IInv, TypeOK
<1>3. ASSUME NEW a \in Autos, Submit(a) PROVE IInv'
  <2>1. a \in Msgs /\ waiter' \in [Autos -> {"none", "open", "answered", "failed"}]
    BY <1>3 DEF Submit, Msgs, IInv, TypeOK
  <2> QED BY <1>3, <2>1, PublishOK DEF Submit
<1>4. CASE Consumes
  BY <1>4, StartsTaskOK, InjectsOK, DefersOK, TakesCommandOK, StopRepliesOK, NewWaitsOK, NewResetsOK
  DEF Consumes
<1>5. ASSUME NEW m \in Msgs, Works(m) \/ Absorbs(m) PROVE IInv'
  BY <1>5, BeginsOK, TurnStartsOK, NewCancelsOK, NewGoesOnOK, TurnEndsOK, StoppedTurnEndsOK, WaiterEndsOK, AbsorbsOK
  DEF Works
<1>6. ASSUME NEW o \in Others, OtherWaits(o) \/ OtherLeaves(o) PROVE IInv'
  BY <1>6, OtherWaitsOK, OtherLeavesOK
<1> QED BY <1>1, <1>2, <1>3, <1>4, <1>5, <1>6 DEF Next, Arrives

THEOREM Inductive == Spec => []IInv
<1>1. Init => IInv
  BY InitOK
<1> QED BY <1>1, Step, PTL DEF Spec

(* Deferred automation turns always have somebody who will publish the next  *)
(* of them, unless a task was cancelled before it asked for the lock.        *)
THEOREM DeferredReleased == Spec => []DeferredAreReleased
<1>1. IInv => DeferredAreReleased
  BY DEF IInv
<1> QED BY <1>1, Inductive, PTL

(* An automation turn is never injected into a turn that runs.               *)
THEOREM AutomationsAlone == Spec => []AutomationsRunAlone
<1>1. IInv => AutomationsRunAlone
  BY DEF IInv
<1> QED BY <1>1, Inductive, PTL

(* When /stop or /new replies, every task that it cancelled has ended, and   *)
(* /new resets the session under its lock.                                   *)
THEOREM CommandsAfter == Spec => CommandsComeAfter
<1>1. ASSUME IInv, [Next]_vars, command # Nobody, command' = Nobody
      PROVE  /\ \A m \in Msgs : at'[m] \notin Cancelled
             /\ command \in News => Turn = command
  <2>1. CASE StopReplies
    BY <1>1, <2>1 DEF StopReplies, AllEnded, Cancelled, IInv, TypeOK
  <2>2. CASE NewResets
    BY <1>1, <2>2 DEF NewResets, AllEnded, Cancelled, IInv, TypeOK
  <2>3. StopReplies \/ NewResets
    BY <1>1 DEF Next, Arrives, Send, Submit, Publish, Consumes, StartsTask, Takes, Spawns, Injects, Defers,
       TakesCommand, NewWaits, Works, Begins, TurnStarts, NewCancels, NewGoesOn, TurnEnds, StoppedTurnEnds,
       EndsTurn, WaiterEnds, Absorbs, OtherWaits, OtherLeaves, vars
  <2> QED BY <2>1, <2>2, <2>3
<1>2. IInv /\ [Next]_vars =>
        [command # Nobody /\ command' = Nobody =>
            /\ \A m \in Msgs : at'[m] \notin Cancelled
            /\ command \in News => Turn = command]_vars
  BY <1>1
<1> QED BY <1>2, Inductive, PTL DEF Spec, CommandsComeAfter

-----------------------------------------------------------------------------
(* Turns and commands one at a time: who runs a turn holds the session lock, *)
(* and whatever is executed inline is the command of the consumer.           *)
Locked ==
    /\ \A m \in Msgs : at[m] \in Holding => Turn = m
    /\ \A m \in Msgs : at[m] \in {"inline", "locking"} => command = m

\* The holder of the lock stays its holder when somebody lines up.
LEMMA LineGrows ==
    ASSUME NEW S, line \in Seq(S), NEW x \in S, line' = Append(line, x), line # <<>>
    PROVE  Turn' = Turn
BY DEF Turn

\* A step in which nobody gets the lock or a command who had none before.
LEMMA LockKept ==
    ASSUME Locked,
           \A x \in Msgs : at'[x] \in Holding => at[x] \in Holding,
           \A x \in Msgs : at'[x] \in {"inline", "locking"} => at[x] \in {"inline", "locking"},
           command' = command,
           \A x \in Msgs : at'[x] \in Holding /\ Turn = x => Turn' = x
    PROVE  Locked'
BY DEF Locked

\* No turn runs while somebody else holds the lock.
LEMMA LockedOut ==
    ASSUME Locked, NEW m, Turn = m, m \notin Msgs \/ at[m] \notin Holding
    PROVE  \A x \in Msgs : at[x] \notin Holding
BY DEF Locked

LEMMA ConsumesLocked == ASSUME IInv, Locked, Consumes PROVE Locked'
<1> USE DEF IInv, TypeOK
<1>1. ASSUME NEW m \in Msgs, StartsTask(m) \/ Injects(m) \/ Defers(m) PROVE Locked'
  <2>1. /\ at[m] = "bus" /\ line' = line /\ command' = command
        /\ \E place \in {"spawned", "pending", "deferred"} : at' = [at EXCEPT ![m] = place]
    BY <1>1, TakenHead DEF StartsTask, Spawns, Injects, Defers
  <2>2. /\ at'[m] \in {"spawned", "pending", "deferred"}
        /\ \A x \in Msgs \ {m} : at'[x] = at[x]
    BY <2>1
  <2> QED BY <2>1, <2>2, LockKept DEF Holding, Turn
<1>2. ASSUME NEW m \in Msgs, TakesCommand(m) PROVE Locked'
  <2>1. /\ at[m] = "bus" /\ command = Nobody /\ line' = line /\ command' = m
        /\ at'[m] = "inline" /\ \A x \in Msgs \ {m} : at'[x] = Reached(at[x])
    BY <1>2, TakenHead DEF TakesCommand, Cancels
  <2>2. \A x \in Msgs \ {m} : at[x] \notin {"inline", "locking"}
    BY <2>1 DEF Locked
  <2>3. \A x \in Msgs \ {m} : at'[x] \notin {"inline", "locking"}
    BY <2>1, <2>2 DEF Reached
  <2>4. \A x \in Msgs : at'[x] \in Holding => at[x] \in Holding
    BY <2>1 DEF Reached, Holding
  <2> QED BY <2>1, <2>3, <2>4 DEF Locked, Turn
<1>3. CASE StopReplies
  <2>1. /\ command \in Msgs /\ at'[command] = "done" /\ line' = line
        /\ \A x \in Msgs \ {command} : at'[x] = at[x] \/ at'[x] = "stopped"
    BY <1>3 DEF StopReplies, Msgs
  <2> QED BY <2>1 DEF Locked, Turn, Holding
<1>4. CASE NewWaits
  <2>1. /\ command \in Msgs /\ at'[command] = "locking" /\ at[command] = "inline"
        /\ \A x \in Msgs \ {command} : at'[x] = at[x]
        /\ line' = Append(line, command) /\ command' = command
    BY <1>4 DEF NewWaits, Msgs
  <2>2. Turn # Nobody => line # <<>>
    BY DEF Turn
  <2>3. \A x \in Msgs : Turn = x => Turn' = x
    BY <2>1, <2>2, LineGrows
  <2> QED BY <2>1, <2>3, LockKept DEF Holding
<1>5. CASE NewResets
  <2>1. /\ command \in Msgs /\ at[command] = "locking" /\ Turn = command /\ at'[command] = "done"
        /\ \A x \in Msgs \ {command} : at'[x] = at[x]
    BY <1>5 DEF NewResets, Msgs
  <2>2. \A x \in Msgs : at[x] \notin Holding
    BY <2>1, LockedOut DEF Holding
  <2> QED BY <2>1, <2>2 DEF Locked, Holding
<1> QED BY <1>1, <1>2, <1>3, <1>4, <1>5, Zenon DEF Consumes

\* What the end of a task leaves alone.
LEMMA EndLocked ==
    ASSUME IInv, Locked, NEW m \in Msgs, at[m] \in Task, NEW back \in {pending, <<>>},
           bus' = bus \o back \o FirstOf(deferred), pending' \in {pending, <<>>},
           back # <<>> => pending' = <<>>, deferred' = RestOf(deferred),
           NEW place \in {"done", "stopped"}, at' = [Republished EXCEPT ![m] = place],
           command' = command, \A x \in Msgs \ {m} : Turn = x => Turn' = x
    PROVE  Locked'
<1>1. /\ at'[m] = place
      /\ \A x \in Msgs \ {m} :
            at'[x] = at[x] \/ (at[x] \in {"bus", "pending", "deferred"} /\ at'[x] = "bus")
  BY Ended
<1> QED BY <1>1, LockKept DEF Holding

\* Whoever is in the line leaves it; if somebody else is at its head, that one stays there.
LEMMA LineLeft ==
    ASSUME NEW S, line \in Seq(S), NEW i \in DOMAIN line, line' = RemoveAt(line, i),
           Turn # line[i]
    PROVE  Turn' = Turn
<1>1. Len(line) \in Nat /\ i \in 1 .. Len(line) /\ line # <<>> /\ Turn = line[1]
  BY DEF Turn
<1>2. i - 1 \in Nat \ {0} /\ i - 1 <= Len(line)
  BY <1>1
<1>3. /\ SubSeq(line, 1, i - 1) \in Seq(S) /\ SubSeq(line, i + 1, Len(line)) \in Seq(S)
      /\ Len(SubSeq(line, 1, i - 1)) = i - 1 /\ SubSeq(line, 1, i - 1)[1] = line[1]
  BY <1>1, <1>2
<1>4. line' = SubSeq(line, 1, i - 1) \o SubSeq(line, i + 1, Len(line))
  BY DEF RemoveAt
<1>5. line' # <<>> /\ line'[1] = line[1] /\ line' \in Seq(S)
  BY <1>2, <1>3, <1>4
<1> QED BY <1>1, <1>5 DEF Turn

LEMMA WorksLocked ==
    ASSUME IInv, Locked, NEW m \in Msgs, Works(m) \/ Absorbs(m)
    PROVE  Locked'
<1> USE DEF IInv, TypeOK
<1>1. CASE Begins(m)
  <2>1. /\ at[m] = "spawned" /\ at'[m] = "waiting" /\ \A x \in Msgs \ {m} : at'[x] = at[x]
        /\ line' = Append(line, m) /\ command' = command
    BY <1>1 DEF Begins
  <2>2. \A x \in Msgs : Turn = x => Turn' = x
    BY <2>1, LineGrows DEF Turn
  <2> QED BY <2>1, <2>2, LockKept DEF Holding
<1>2. CASE TurnStarts(m)
  <2>1. /\ at[m] = "waiting" /\ at'[m] = "running" /\ \A x \in Msgs \ {m} : at'[x] = at[x]
        /\ line' = line /\ command' = command /\ Turn = m
    BY <1>2 DEF TurnStarts
  <2>2. \A x \in Msgs : at[x] \notin Holding
    BY <2>1, LockedOut DEF Holding
  <2> QED BY <2>1, <2>2 DEF Locked, Turn
<1>3. CASE NewCancels(m)
  <2>1. /\ at[m] = "running" /\ at'[m] = "cancelling" /\ line' = line /\ command' = command
        /\ \A x \in Msgs \ {m} : at'[x] = Reached(at[x])
    BY <1>3 DEF NewCancels
  <2>2. \A x \in Msgs \ {m} : at'[x] \in Holding => at[x] \in Holding
    BY <2>1 DEF Reached, Holding
  <2>3. \A x \in Msgs \ {m} : at'[x] \in {"inline", "locking"} => at[x] = at'[x]
    BY <2>1 DEF Reached
  <2> QED BY <2>1, <2>2, <2>3, LockKept DEF Holding, Turn
<1>4. CASE NewGoesOn(m)
  <2>1. /\ at[m] = "cancelling" /\ at'[m] = "resetting" /\ \A x \in Msgs \ {m} : at'[x] = at[x]
        /\ line' = line /\ command' = command
    BY <1>4 DEF NewGoesOn
  <2> QED BY <2>1, LockKept DEF Holding, Turn
<1>5. CASE TurnEnds(m) \/ StoppedTurnEnds(m)
  <2>1. /\ at[m] \in Holding /\ Turn = m
        /\ \E place \in {"done", "stopped"} : EndsTurn(m, place)
    BY <1>5 DEF TurnEnds, StoppedTurnEnds, Holding
  <2>2. PICK place \in {"done", "stopped"} : EndsTurn(m, place)
    BY <2>1
  <2> QED BY <2>1, <2>2, EndLocked DEF EndsTurn, Releases, Leftovers, Task
<1>6. CASE WaiterEnds(m)
  <2>1. PICK i \in DOMAIN line : line[i] = m /\ line' = RemoveAt(line, i)
    BY <1>6 DEF WaiterEnds
  <2>2. Turn # m => Turn' = Turn
    BY <2>1, LineLeft
  <2>3. bus \o <<>> = bus
    OBVIOUS
  <2>4. /\ at[m] \in Task /\ bus' = bus \o <<>> \o FirstOf(deferred) /\ pending' = pending
        /\ deferred' = RestOf(deferred) /\ at' = [Republished EXCEPT ![m] = "stopped"]
        /\ command' = command
    BY <1>6, <2>3 DEF WaiterEnds, Task
  <2> QED BY <2>2, <2>4, EndLocked
<1>7. CASE Absorbs(m)
  <2>1. Head(pending) \in Msgs /\ pending # <<>>
    BY <1>7, TailKeeps DEF Absorbs, Msgs
  <2>2. /\ at'[Head(pending)] = "absorbed" /\ line' = line /\ command' = command
        /\ \A x \in Msgs \ {Head(pending)} : at'[x] = at[x]
    BY <1>7, <2>1 DEF Absorbs
  <2> QED BY <2>1, <2>2, LockKept DEF Holding, Turn
<1> QED BY <1>1, <1>2, <1>3, <1>4, <1>5, <1>6, <1>7, Zenon DEF Works

LEMMA StepLocked == IInv /\ Locked /\ [Next]_vars => Locked'
<1> SUFFICES ASSUME IInv, Locked, [Next]_vars PROVE Locked'
  OBVIOUS
<1> USE DEF IInv, TypeOK
<1>1. CASE UNCHANGED vars
  BY <1>1 DEF vars, Locked, Turn
<1>2. CASE Arrives
  <2>1. PICK m \in Msgs : \E kind : Publish(m, kind)
    BY <1>2 DEF Arrives, Send, Submit, Msgs
  <2>2. /\ at'[m] = "bus" /\ \A x \in Msgs \ {m} : at'[x] = at[x]
        /\ line' = line /\ command' = command
    BY <2>1 DEF Publish
  <2> QED BY <2>2, LockKept DEF Holding, Turn
<1>3. ASSUME NEW o \in Others, OtherWaits(o) PROVE Locked'
  <2>1. \A x \in Msgs : Turn = x => Turn' = x
    BY <1>3, LineGrows DEF OtherWaits, Turn
  <2> QED BY <1>3, <2>1, LockKept DEF OtherWaits
<1>4. ASSUME NEW o \in Others, OtherLeaves(o) PROVE Locked'
  <2>1. \A x \in Msgs : at[x] \notin Holding
    BY <1>4, LockedOut DEF OtherLeaves
  <2> QED BY <1>4, <2>1 DEF OtherLeaves, Locked
<1> QED BY <1>1, <1>2, <1>3, <1>4, ConsumesLocked, WorksLocked DEF Next

LEMMA LockHolds == Spec => []Locked
<1>1. Init => Locked
  BY DEF Init, Locked, Holding
<1> QED BY <1>1, StepLocked, Inductive, PTL DEF Spec

-----------------------------------------------------------------------------
(* Every step does what TurnService promises, or nothing it can see.        *)

LEMMA SameMsgs == Service!Msgs = Msgs
BY DEF Service!Msgs, Msgs

LEMMA StandingTypes ==
    ASSUME NEW p \in Places PROVE Standing(p) \in Service!Standings
BY DEF Places, Standing, Service!Standings, Service!Turns

\* What the standings say of the places.
LEMMA StandingPlaces ==
    ASSUME NEW p \in Places
    PROVE  /\ Standing(p) \in Service!Turns <=> p \in Holding
           /\ Standing(p) \in {"halted", "stopping"} <=> p \in Cancelled
           /\ Standing(p) = "ordering" <=> p \in {"inline", "locking"}
BY DEF Places, Standing, Service!Turns, Holding, Cancelled

\* Nobody's standing changes.
LEMMA Unseen ==
    ASSUME IInv, \A x \in Msgs : Standing(at'[x]) = Standing(at[x]), waiter' = waiter
    PROVE  [Service!Next]_(Service!served)
BY DEF Service!served

\* One message's standing changes.
LEMMA MovesOne ==
    ASSUME NEW m \in Msgs, \A x \in Msgs \ {m} : Standing(at'[x]) = Standing(at[x])
    PROVE  Service!Moves(m, Standing(at[m]), Standing(at'[m]))
<1> DEFINE was == [x \in Msgs |-> Standing(at[x])]
           is == [x \in Msgs |-> Standing(at'[x])]
<1>1. is = [was EXCEPT ![m] = Standing(at'[m])]
  OBVIOUS
<1> QED BY <1>1 DEF Service!Moves

\* The standings of all are what they may be, in the form in which Service states it.
LEMMA StandsAll ==
    ASSUME at \in [Msgs -> Places] PROVE [x \in Msgs |-> Standing(at[x])] \in [Service!Msgs -> Service!Standings]
BY StandingTypes, SameMsgs

LEMMA NoTurnSeen ==
    ASSUME IInv, \A x \in Msgs : at[x] \notin Holding PROVE Service!NoTurn
BY StandingPlaces, SameMsgs DEF Service!NoTurn, IInv, TypeOK

LEMMA NoneHaltedSeen == ASSUME IInv, AllEnded PROVE Service!NoneHalted
BY StandingPlaces, SameMsgs DEF Service!NoneHalted, IInv, TypeOK, AllEnded

LEMMA ArrivesServes == ASSUME IInv, Arrives PROVE Service!Next
<1>1. PICK m \in Msgs : /\ \E kind : Publish(m, kind)
                        /\ waiter' = IF m \in Autos THEN [waiter EXCEPT ![m] = "open"] ELSE waiter
  <2>1. ASSUME NEW m \in Msgs, NEW kind \in {Users, Stops, News}, Send(m, kind)
        PROVE  m \notin Autos /\ Publish(m, kind) /\ waiter' = waiter
    BY <2>1 DEF Send
  <2>2. ASSUME NEW a \in Autos, Submit(a)
        PROVE  a \in Msgs /\ Publish(a, Autos) /\ waiter' = [waiter EXCEPT ![a] = "open"]
    BY <2>2 DEF Submit, Msgs
  <2> QED BY <2>1, <2>2 DEF Arrives
<1>2. at[m] = "unsent" /\ at'[m] = "bus" /\ \A x \in Msgs \ {m} : at'[x] = at[x]
  BY <1>1 DEF Publish, IInv, TypeOK
<1>3. Service!Moves(m, "unsent", "queued")
  <2>1. Standing(at[m]) = "unsent" /\ Standing(at'[m]) = "queued"
    BY <1>2 DEF Standing
  <2> QED BY <1>2, <2>1, MovesOne
<1>4. Service!Tells(m, "open")
  BY <1>1 DEF Service!Tells
<1> QED BY <1>3, <1>4, SameMsgs DEF Service!Next, Service!Send

\* What a cancellation does, as Service sees it.
LEMMA HaltsSeen ==
    ASSUME IInv, IInv', NEW m \in Msgs, NEW place,
           Standing(at'[m]) = place, \A x \in Msgs \ {m} : at'[x] = Reached(at[x]),
           waiter' = waiter
    PROVE  Service!Halts(m, place)
<1>1. ASSUME NEW p \in Places PROVE Standing(Reached(p)) \in Service!Halted(Standing(p))
  BY DEF Places, Standing, Reached, Service!Halted
<1>2. \A x \in Msgs : at[x] \in Places
  BY DEF IInv, TypeOK
<1>3. [x \in Msgs |-> Standing(at'[x])] \in [Service!Msgs -> Service!Standings]
  BY StandsAll, StandingTypes, SameMsgs DEF IInv, TypeOK
<1>4. \A x \in Msgs \ {m} : Standing(at'[x]) \in Service!Halted(Standing(at[x]))
  BY <1>1, <1>2
<1> QED BY <1>3, <1>4, SameMsgs DEF Service!Halts

LEMMA ConsumesServes ==
    ASSUME IInv, IInv', Locked, Consumes PROVE [Service!Next]_(Service!served)
<1> USE DEF IInv, TypeOK
<1>1. ASSUME NEW m \in Msgs, StartsTask(m) \/ Injects(m) \/ Defers(m)
      PROVE  [Service!Next]_(Service!served)
  <2>1. /\ at[m] = "bus" /\ waiter' = waiter
        /\ \E place \in {"spawned", "pending", "deferred"} : at' = [at EXCEPT ![m] = place]
    BY <1>1, TakenHead DEF StartsTask, Spawns, Injects, Defers
  <2>2. /\ at'[m] \in {"spawned", "pending", "deferred"}
        /\ \A x \in Msgs \ {m} : at'[x] = at[x]
    BY <2>1
  <2> QED BY <2>1, <2>2, Unseen DEF Standing
<1>2. ASSUME NEW m \in Msgs, TakesCommand(m) PROVE Service!Next
  <2>1. /\ at[m] = "bus" /\ command = Nobody /\ m \in Stops \cup News /\ waiter' = waiter
        /\ at'[m] = "inline" /\ \A x \in Msgs \ {m} : at'[x] = Reached(at[x])
    BY <1>2, TakenHead DEF TakesCommand, Cancels
  <2>2. \A x \in Msgs : at[x] \notin {"inline", "locking"}
    BY <2>1 DEF Locked
  <2>3. \A x \in Msgs : Standing(at[x]) # "ordering"
    BY <2>2, StandingPlaces
  <2>4. Standing(at[m]) = "queued" /\ Standing(at'[m]) = "ordering"
    BY <2>1 DEF Standing
  <2>5. Service!Halts(m, "ordering")
    BY <2>1, <2>4, HaltsSeen
  <2> QED BY <2>1, <2>3, <2>4, <2>5, SameMsgs DEF Service!Next, Service!Order
<1>3. CASE StopReplies
  <2>1. /\ command \in Stops /\ command \in Msgs /\ AllEnded /\ at'[command] = "done" /\ waiter' = waiter
        /\ \A x \in Msgs \ {command} : at'[x] = IF x \in Range(pending) THEN "stopped" ELSE at[x]
    BY <1>3 DEF StopReplies, Msgs
  <2>2. \A x \in Range(pending) : x \in Users /\ at[x] = "pending"
    BY DEF Range, Keeps
  <2>3. /\ Standing(at[command]) = "ordering" /\ Standing(at'[command]) = "done"
        /\ \A x \in Msgs \ {command} :
              \/ Standing(at'[x]) = Standing(at[x])
              \/ x \in Users /\ Standing(at[x]) = "queued" /\ Standing(at'[x]) = "stopped"
    BY <2>1, <2>2 DEF Standing
  <2>4. [x \in Msgs |-> Standing(at'[x])] \in [Service!Msgs -> Service!Standings]
    BY StandingTypes, SameMsgs
  <2>5. Service!Reply(command)
    BY <2>1, <2>3, <2>4, NoneHaltedSeen, SameMsgs DEF Service!Reply
  <2> QED BY <2>1, <2>5, SameMsgs DEF Service!Next
<1>4. CASE NewWaits
  <2>1. /\ command \in Msgs /\ at'[command] = "locking" /\ at[command] = "inline" /\ waiter' = waiter
        /\ \A x \in Msgs \ {command} : at'[x] = at[x]
    BY <1>4 DEF NewWaits, Msgs
  <2> QED BY <2>1, Unseen DEF Standing
<1>5. CASE NewResets
  <2>1. /\ command \in Msgs /\ at[command] = "locking" /\ Turn = command /\ at'[command] = "done"
        /\ \A x \in Msgs \ {command} : at'[x] = at[x]
        /\ waiter' = waiter /\ command # Nobody
    BY <1>5 DEF NewResets, Msgs
  <2>2. Service!NoTurn /\ Service!NoneHalted
    <3>1. \A x \in Msgs : at[x] \notin Holding
      BY <2>1, LockedOut DEF Holding
    <3> QED BY <2>1, <3>1, NoTurnSeen, NoneHaltedSeen
  <2>3. [x \in Msgs |-> Standing(at'[x])] \in [Service!Msgs -> Service!Standings]
    BY StandingTypes, SameMsgs
  <2>4. Standing(at[command]) = "ordering" /\ Standing(at'[command]) = "done"
    BY <2>1 DEF Standing
  <2>5. Service!Reply(command)
    BY <2>1, <2>2, <2>3, <2>4, SameMsgs DEF Service!Reply
  <2> QED BY <2>1, <2>5, SameMsgs DEF Service!Next
<1> QED BY <1>1, <1>2, <1>3, <1>4, <1>5, Zenon DEF Consumes

\* The end of a task moves that task only: what goes back to the bus was queued before.
LEMMA EndMoves ==
    ASSUME IInv, NEW m \in Msgs, at[m] \in Task, NEW back \in {pending, <<>>},
           bus' = bus \o back \o FirstOf(deferred), pending' \in {pending, <<>>},
           back # <<>> => pending' = <<>>, deferred' = RestOf(deferred),
           NEW place \in {"done", "stopped"}, at' = [Republished EXCEPT ![m] = place]
    PROVE  Service!Moves(m, Standing(at[m]), place)
<1>1. /\ at'[m] = place
      /\ \A x \in Msgs \ {m} :
            at'[x] = at[x] \/ (at[x] \in {"bus", "pending", "deferred"} /\ at'[x] = "bus")
  BY Ended
<1>2. Standing(at'[m]) = place
  BY <1>1 DEF Standing
<1>3. \A x \in Msgs \ {m} : Standing(at'[x]) = Standing(at[x])
  BY <1>1 DEF Standing
<1> QED BY <1>2, <1>3, MovesOne

LEMMA WorksServes ==
    ASSUME IInv, IInv', Locked, NEW m \in Msgs, Works(m) \/ Absorbs(m)
    PROVE  [Service!Next]_(Service!served)
<1> USE DEF IInv, TypeOK
<1>1. CASE Begins(m)
  <2>1. /\ at[m] = "spawned" /\ at'[m] = "waiting" /\ \A x \in Msgs \ {m} : at'[x] = at[x]
        /\ waiter' = waiter
    BY <1>1 DEF Begins
  <2> QED BY <2>1, Unseen DEF Standing
<1>2. CASE TurnStarts(m)
  <2>1. /\ at[m] = "waiting" /\ at'[m] = "running" /\ \A x \in Msgs \ {m} : at'[x] = at[x]
        /\ waiter' = waiter /\ Turn = m /\ m \notin Stops
    BY <1>2 DEF TurnStarts, Task, Holding, Active
  <2>2. Service!NoTurn
    <3>1. \A x \in Msgs : at[x] \notin Holding
      BY <2>1, LockedOut DEF Holding
    <3> QED BY <3>1, NoTurnSeen
  <2>3. Service!Moves(m, "queued", "turn")
    <3>1. Standing(at[m]) = "queued" /\ Standing(at'[m]) = "turn"
      BY <2>1 DEF Standing
    <3> QED BY <2>1, <3>1, MovesOne
  <2> QED BY <2>1, <2>2, <2>3, SameMsgs DEF Service!Next, Service!Start
<1>3. CASE NewCancels(m)
  <2>1. /\ at[m] = "running" /\ at'[m] = "cancelling" /\ m \in News /\ waiter' = waiter
        /\ \A x \in Msgs \ {m} : at'[x] = Reached(at[x])
    BY <1>3 DEF NewCancels
  <2>2. Standing(at[m]) = "turn" /\ Standing(at'[m]) = "clearing"
    BY <2>1 DEF Standing
  <2>3. Service!Halts(m, "clearing")
    BY <2>1, <2>2, HaltsSeen
  <2> QED BY <2>1, <2>2, <2>3, SameMsgs DEF Service!Next, Service!Clear
<1>4. CASE NewGoesOn(m)
  <2>1. /\ at[m] = "cancelling" /\ at'[m] = "resetting" /\ \A x \in Msgs \ {m} : at'[x] = at[x]
        /\ waiter' = waiter /\ AllEnded
    BY <1>4 DEF NewGoesOn
  <2>2. Service!Moves(m, "clearing", "resetting")
    <3>1. Standing(at[m]) = "clearing" /\ Standing(at'[m]) = "resetting"
      BY <2>1 DEF Standing
    <3> QED BY <2>1, <3>1, MovesOne
  <2> QED BY <2>1, <2>2, NoneHaltedSeen, SameMsgs DEF Service!Next, Service!Reset
<1>5. CASE TurnEnds(m)
  <2>1. /\ at[m] \in {"running", "resetting"} /\ EndsTurn(m, "done")
        /\ \E how \in {"answered", "failed"} : Service!Tells(m, how)
    BY <1>5 DEF TurnEnds, Settles, Service!Tells
  <2>2. Service!Moves(m, Standing(at[m]), "done")
    BY <2>1, EndMoves DEF EndsTurn, Releases, Leftovers, Task, Holding
  <2>3. Standing(at[m]) \in {"turn", "resetting"}
    BY <2>1 DEF Standing
  <2> QED BY <2>1, <2>2, <2>3, SameMsgs DEF Service!Next, Service!End
<1>6. CASE StoppedTurnEnds(m)
  <2>1. at[m] = "stopping" /\ EndsTurn(m, "stopped") /\ Service!Tells(m, "failed")
    BY <1>6 DEF StoppedTurnEnds, Settles, Service!Tells
  <2>2. Service!Moves(m, Standing(at[m]), "stopped")
    BY <2>1, EndMoves DEF EndsTurn, Releases, Leftovers, Task, Holding
  <2>3. Standing(at[m]) = "stopping"
    BY <2>1 DEF Standing
  <2> QED BY <2>1, <2>2, <2>3, SameMsgs DEF Service!Next, Service!Fall
<1>7. CASE WaiterEnds(m)
  <2>1. bus \o <<>> = bus
    OBVIOUS
  <2>2. /\ at[m] = "leaving" /\ bus' = bus \o <<>> \o FirstOf(deferred) /\ pending' = pending
        /\ deferred' = RestOf(deferred) /\ at' = [Republished EXCEPT ![m] = "stopped"]
        /\ waiter' = waiter
    BY <1>7, <2>1 DEF WaiterEnds
  <2>3. Service!Moves(m, Standing(at[m]), "stopped")
    BY <2>2, EndMoves DEF Task
  <2>4. Standing(at[m]) = "halted"
    BY <2>2 DEF Standing
  <2> QED BY <2>2, <2>3, <2>4, SameMsgs DEF Service!Next, Service!Fall
<1>8. CASE Absorbs(m)
  <2>1. Head(pending) \in Users /\ Head(pending) \in Msgs /\ at[Head(pending)] = "pending"
    BY <1>8, TailKeeps DEF Absorbs, Msgs
  <2>2. /\ at'[Head(pending)] = "absorbed" /\ \A x \in Msgs \ {Head(pending)} : at'[x] = at[x]
        /\ at[m] = "running" /\ m \notin News /\ waiter' = waiter
    BY <1>8, <2>1 DEF Absorbs
  <2>3. Standing(at[m]) = "turn"
    BY <2>2 DEF Standing
  <2>4. Service!Moves(Head(pending), "queued", "taken")
    <3>1. Standing(at[Head(pending)]) = "queued" /\ Standing(at'[Head(pending)]) = "taken"
      BY <2>1, <2>2 DEF Standing
    <3> QED BY <2>1, <2>2, <3>1, MovesOne
  <2> QED BY <2>1, <2>2, <2>3, <2>4, SameMsgs DEF Service!Next, Service!Take
<1> QED BY <1>1, <1>2, <1>3, <1>4, <1>5, <1>6, <1>7, <1>8, Zenon DEF Works

LEMMA StepServes == IInv /\ IInv' /\ Locked /\ [Next]_vars => [Service!Next]_(Service!served)
<1> SUFFICES ASSUME IInv, IInv', Locked, [Next]_vars PROVE [Service!Next]_(Service!served)
  OBVIOUS
<1>1. CASE UNCHANGED vars \/ \E o \in Others : OtherWaits(o) \/ OtherLeaves(o)
  BY <1>1, Unseen DEF vars, OtherWaits, OtherLeaves
<1> QED BY <1>1, ArrivesServes, ConsumesServes, WorksServes DEF Next

LEMMA InitServes == Init => Service!Init
BY SameMsgs DEF Init, Service!Init, Standing

(* Consumer, tasks, lock and queues implement TurnService: the session has   *)
(* one turn at a time, only ordinary messages are taken into another's turn, *)
(* and a command is carried out when all it halted has ended.                *)
THEOREM RouterServesInTurn == Spec => ServesInTurn
<1>1. Spec => Service!Init /\ [][Service!Next]_(Service!served)
  BY InitServes, StepServes, Inductive, LockHolds, PTL DEF Spec
<1> QED BY <1>1 DEF ServesInTurn, Service!Spec
=============================================================================
