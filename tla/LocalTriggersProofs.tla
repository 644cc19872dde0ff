------------------------- MODULE LocalTriggersProofs -------------------------
(***************************************************************************)
(* Proofs about the queue of local triggers, for any set of triggers and   *)
(* deliveries, any limit on attempts, any batch and any number of faults.  *)
(***************************************************************************)
EXTENDS LocalTriggers, FiniteSetTheorems, TLAPS

\* Nothing is known of a delivery before it is sent.
Fresh(d) ==
    answer[d] = "none" =>
        /\ inbox[d] = Gone /\ processing[d] = Gone /\ held[d] = Gone
        /\ outcome[d] = "none" /\ begun[d] = 0

\* A claimed delivery is in the runner's memory, in no other place than
\* processing/, and not handled.
Held(d) ==
    /\ held[d] # Gone => gateway \notin Off /\ inbox[d] = Gone /\ outcome[d] = "none"
    /\ gateway \notin Off /\ processing[d] # Gone => processing[d] = held[d]
    /\ outcome[d] # "none" => inbox[d] = Gone /\ processing[d] = Gone

\* Each copy counts the turns that were begun, save for the one under way,
\* and no more attempts than there were faults.
Counts(d) ==
    /\ inbox[d] # Gone =>
        begun[d] <= inbox[d] /\ inbox[d] < MaxAttempts /\ inbox[d] <= faults
    /\ processing[d] # Gone =>
        /\ begun[d] <= processing[d] + 1 /\ processing[d] < MaxAttempts
        /\ processing[d] + (IF gateway \in Off THEN 1 ELSE 0) <= faults
    /\ held[d] # Gone =>
        /\ begun[d] <= held[d] + 1 /\ held[d] < MaxAttempts /\ held[d] <= faults
        /\ (gateway \in {"turn", "stalled"} /\ First(d, Files(held))) \/ begun[d] <= held[d]
    /\ begun[d] <= MaxAttempts /\ begun[d] <= 1 + faults

Sound(d) == Fresh(d) /\ Held(d) /\ Counts(d)

IInv ==
    /\ TypeOK
    /\ \A d \in Deliveries : Sound(d)

-----------------------------------------------------------------------------
LEMMA InitType == Init => TypeOK
  BY TriggersAssumption DEF Init, TypeOK, Directory, Phases

\* A retry leaves the three directories well typed.
LEMMA RewrittenType ==
    ASSUME TypeOK, NEW d \in Deliveries, NEW a \in 0..MaxAttempts, a < MaxAttempts,
           Rewritten(d, a)
    PROVE  inbox' \in Directory /\ failed' \in Directory
<1>1. a + 1 \in 0..MaxAttempts /\ MaxAttempts \in Nat
  BY TriggersAssumption
<1> QED BY <1>1 DEF TypeOK, Rewritten, Counted, Directory

LEMMA WithoutType ==
    ASSUME NEW dir \in Directory, NEW S
    PROVE  Without(dir, S) \in Directory
  BY DEF Without, Directory

\* Every step of the runner on one delivery keeps the types.
LEMMA RunnerType ==
    ASSUME IInv, NEW d \in Deliveries, Runner(d)
    PROVE  TypeOK'
<1> USE TriggersAssumption DEF Phases, history, files
<1>1. TypeOK /\ Sound(d)
  BY DEF IInv
<1>2. ASSUME NEW a \in 0..MaxAttempts, a < MaxAttempts, Retried(d, a)
      PROVE  inbox' \in Directory /\ failed' \in Directory /\ processing' \in Directory
  BY <1>1, <1>2, RewrittenType DEF Retried, TypeOK, Directory
<1>3. ASSUME NEW a \in 0..MaxAttempts, a < MaxAttempts, RetryCut(d, a)
      PROVE  inbox' \in Directory /\ failed' \in Directory /\ processing' \in Directory
  BY <1>1, <1>3, RewrittenType DEF RetryCut, TypeOK, Directory
<1>4. First(d, Files(processing)) =>
        processing[d] \in 0..MaxAttempts /\ processing[d] < MaxAttempts
  BY <1>1 DEF Sound, Counts, First, Files, TypeOK, Directory
<1>5. First(d, Files(held)) => held[d] \in 0..MaxAttempts /\ held[d] < MaxAttempts
  BY <1>1 DEF Sound, Counts, First, Files, TypeOK, Directory
<1>6. Fault => faults' \in 0..MaxFaults
  BY <1>1 DEF Fault, TypeOK
<1>7. NothingHeld \in Directory /\ [held EXCEPT ![d] = Gone] \in Directory
  BY <1>1 DEF NothingHeld, Directory, TypeOK
<1>8. CASE Recover(d)
  BY <1>1, <1>2, <1>4, <1>8 DEF Recover, TypeOK
<1>9. CASE RecoverCut(d)
  BY <1>1, <1>3, <1>4, <1>6, <1>9 DEF RecoverCut, TypeOK
<1>10. CASE Drop(d)
  BY <1>1, <1>7, <1>10 DEF Drop, Completed, TypeOK, Directory
<1>11. CASE Begin(d)
  BY <1>1, <1>11 DEF Begin, TypeOK
<1>12. CASE End(d, "ok")
  BY <1>1, <1>7, <1>12 DEF End, Completed, TypeOK, Directory
<1>13. CASE End(d, "error")
  BY <1>1, <1>7, <1>13 DEF End, Completed, TypeOK, Directory
<1>14. CASE Fail(d)
  BY <1>1, <1>2, <1>5, <1>6, <1>7, <1>14 DEF Fail, TypeOK
<1>15. CASE Shutdown(d)
  BY <1>1, <1>2, <1>5, <1>6, <1>7, <1>15 DEF Shutdown, TypeOK
<1>16. CASE FailCut(d)
  BY <1>1, <1>3, <1>5, <1>6, <1>7, <1>16 DEF FailCut, TypeOK
<1> QED BY <1>8, <1>9, <1>10, <1>11, <1>12, <1>13, <1>14, <1>15, <1>16 DEF Runner

LEMMA NextType ==
    ASSUME IInv, [Next]_vars
    PROVE  TypeOK'
<1> USE TriggersAssumption DEF Phases, history, files
<1>1. TypeOK
  BY DEF IInv
<1>2. Fault => faults' \in 0..MaxFaults
  BY <1>1 DEF Fault, TypeOK
<1>3. ASSUME NEW t \in Triggers, Commands(t) PROVE TypeOK'
  <2>1. CASE Create(t) \/ Enable(t, "on") \/ Enable(t, "off")
    BY <1>1, <2>1 DEF Create, Enable, TypeOK
  <2>2. CASE Delete(t)
    BY <1>1, <2>2, WithoutType DEF Delete, TypeOK
  <2>3. CASE DeleteCut(t)
    <3>1. inbox' \in Directory /\ processing' \in Directory /\ failed' \in Directory
      BY <1>1, <2>3, WithoutType DEF DeleteCut, TypeOK
    <3> QED BY <1>1, <1>2, <2>3, <3>1 DEF DeleteCut, TypeOK
  <2> QED BY <1>3, <2>1, <2>2, <2>3 DEF Commands
<1>4. ASSUME NEW d \in Deliveries, Enqueue(d) PROVE TypeOK'
  BY <1>1, <1>4 DEF Enqueue, TypeOK, Directory
<1>5. ASSUME NEW d \in Deliveries, EnqueueCut(d) PROVE TypeOK'
  BY <1>1, <1>2, <1>5 DEF EnqueueCut, TypeOK, Directory
<1>6. ASSUME NEW d \in Deliveries, Runner(d) PROVE TypeOK'
  BY <1>6, RunnerType
<1>7. ASSUME NEW b \in SUBSET Deliveries, Moved(b)
      PROVE  inbox' \in Directory /\ processing' \in Directory /\ failed' \in Directory
  BY <1>1, <1>7, WithoutType DEF Moved, TypeOK, Directory
<1>8. ASSUME NEW b \in SUBSET Deliveries, Claim(b) PROVE TypeOK'
  <2>1. held' \in Directory
    BY <1>1, <1>8 DEF Claim, TypeOK, Directory
  <2> QED BY <1>1, <1>7, <1>8, <2>1 DEF Claim, TypeOK
<1>9. ASSUME NEW b \in SUBSET Deliveries, ClaimCut(b) PROVE TypeOK'
  BY <1>1, <1>2, <1>7, <1>9 DEF ClaimCut, TypeOK
<1>10. CASE Start \/ BeginRecovery \/ Recovered \/ Stall
  BY <1>1, <1>10 DEF Start, BeginRecovery, Recovered, Stall, TypeOK
<1>11. CASE Crash
  BY <1>1, <1>2, <1>11 DEF Crash, TypeOK, NothingHeld, Directory
<1>12. CASE UNCHANGED vars
  BY <1>1, <1>12 DEF vars, TypeOK
<1> QED BY <1>3, <1>4, <1>5, <1>6, <1>8, <1>9, <1>10, <1>11, <1>12 DEF Next

-----------------------------------------------------------------------------
\* A step that leaves a delivery's files, memory, answer and history alone,
\* and the runner's phase, keeps what is known of it.
LEMMA Untouched ==
    ASSUME TypeOK, NEW e \in Deliveries, Sound(e), faults' \in Nat, faults <= faults',
           inbox'[e] = inbox[e], processing'[e] = processing[e], held'[e] = held[e],
           answer'[e] = answer[e], outcome'[e] = outcome[e], begun'[e] = begun[e],
           gateway' = gateway, Files(held) = Files(held')
    PROVE  Sound(e)'
<1> USE TriggersAssumption
<1>1. Fresh(e)' /\ Held(e)'
  BY DEF Sound, Fresh, Held
<1>2. Counts(e)'
  BY DEF Sound, Counts, TypeOK, Directory, First
<1> QED BY <1>1, <1>2 DEF Sound

\* Removing files never does harm.
LEMMA Thinned ==
    ASSUME TypeOK, NEW e \in Deliveries, Sound(e), faults' \in Nat, faults <= faults',
           inbox'[e] \in {inbox[e], Gone}, processing'[e] \in {processing[e], Gone},
           held' = held, answer' = answer, outcome' = outcome, begun' = begun,
           gateway' = gateway
    PROVE  Sound(e)'
<1> USE TriggersAssumption
<1>1. Fresh(e)' /\ Held(e)'
  BY DEF Sound, Fresh, Held
<1>2. Counts(e)'
  BY DEF Sound, Counts, TypeOK, Directory, First, Files
<1> QED BY <1>1, <1>2 DEF Sound

LEMMA CommandsSound ==
    ASSUME IInv, NEW t \in Triggers, Commands(t), NEW e \in Deliveries
    PROVE  Sound(e)'
<1> USE TriggersAssumption DEF history, files
<1>1. TypeOK /\ Sound(e) /\ faults \in Nat
  BY DEF IInv, TypeOK
<1>2. CASE Create(t) \/ Enable(t, "on") \/ Enable(t, "off")
  BY <1>1, <1>2, Thinned DEF Create, Enable
<1>3. CASE Delete(t)
  BY <1>1, <1>3, Thinned DEF Delete, Without
<1>4. CASE DeleteCut(t)
  <2>1. faults' \in Nat /\ faults <= faults'
    BY <1>1, <1>4 DEF DeleteCut, Fault
  <2> QED BY <1>1, <1>4, <2>1, Thinned DEF DeleteCut, Without
<1> QED BY <1>2, <1>3, <1>4 DEF Commands

LEMMA EnqueueSound ==
    ASSUME IInv, NEW d \in Deliveries, Enqueue(d) \/ EnqueueCut(d), NEW e \in Deliveries
    PROVE  Sound(e)'
<1> USE TriggersAssumption DEF history
<1>1. TypeOK /\ Sound(d) /\ Sound(e) /\ faults \in Nat
  BY DEF IInv, TypeOK
<1>2. faults' \in Nat /\ faults <= faults'
  BY <1>1 DEF Enqueue, EnqueueCut, Fault
<1>3. CASE e # d
  BY <1>1, <1>2, <1>3, Untouched DEF Enqueue, EnqueueCut, TypeOK, Directory
<1>4. CASE e = d
  <2>1. /\ processing[d] = Gone /\ held[d] = Gone /\ outcome[d] = "none"
        /\ begun[d] = 0 /\ inbox[d] = Gone
    BY <1>1 DEF Enqueue, EnqueueCut, MayEnqueue, Sound, Fresh
  <2>2. /\ processing'[d] = Gone /\ held'[d] = Gone /\ outcome'[d] = "none"
        /\ begun'[d] = 0 /\ answer'[d] # "none" /\ inbox'[d] \in {0, Gone}
    BY <1>1, <2>1 DEF Enqueue, EnqueueCut, TypeOK, Directory
  <2>3. Fresh(d)' /\ Held(d)'
    BY <2>2 DEF Fresh, Held
  <2>4. Counts(d)'
    <3>1. 0 < MaxAttempts /\ MaxAttempts \in Nat /\ 0 <= faults'
      BY <1>2
    <3>2. faults' \in Nat
      BY <1>2
    <3>3. \A n \in Nat : 0 <= 1 + n
      OBVIOUS
    <3>4. 0 <= 1 + faults'
      BY <3>2, <3>3
    <3> QED BY <2>2, <3>1, <3>4 DEF Counts
  <2> QED BY <1>4, <2>3, <2>4 DEF Sound
<1> QED BY <1>3, <1>4

\* Claimed files become the runner's memory.
LEMMA ClaimSound ==
    ASSUME IInv, NEW b \in SUBSET Deliveries, Claim(b) \/ ClaimCut(b), NEW e \in Deliveries
    PROVE  Sound(e)'
<1> USE TriggersAssumption DEF history
<1>1. TypeOK /\ Sound(e) /\ faults \in Nat /\ gateway = "idle"
  BY DEF IInv, TypeOK, Claim, ClaimCut
<1>2. held[e] = Gone /\ processing[e] = Gone
  BY <1>1 DEF Claim, ClaimCut, Files, Sound, Held, Off
<1>3. b \subseteq Files(inbox)
  BY DEF Claim, ClaimCut, Prefix
<1>4. /\ processing'[e] = (IF e \in b THEN inbox[e] ELSE Gone)
      /\ inbox'[e] = (IF e \in b THEN Gone ELSE inbox[e])
      /\ outcome'[e] = outcome[e] /\ begun'[e] = begun[e] /\ answer'[e] = answer[e]
  BY <1>1, <1>2 DEF Claim, ClaimCut, Moved, Without
<1>5. CASE Claim(b)
  <2>1. /\ held'[e] = (IF e \in b THEN inbox[e] ELSE Gone)
        /\ gateway' = "idle" /\ faults' = faults
    BY <1>1, <1>5 DEF Claim
  <2>2. Fresh(e)' /\ Held(e)'
    BY <1>1, <1>2, <1>3, <1>4, <2>1 DEF Sound, Fresh, Held, Off, Files
  <2>3. Counts(e)'
    BY <1>1, <1>2, <1>3, <1>4, <2>1 DEF Sound, Counts, Off, Files, TypeOK, Directory
  <2> QED BY <2>2, <2>3 DEF Sound
<1>6. CASE ClaimCut(b)
  <2>1. held'[e] = Gone /\ gateway' = "down" /\ faults' = faults + 1
    BY <1>1, <1>2, <1>6 DEF ClaimCut, Fault
  <2>2. Fresh(e)' /\ Held(e)'
    BY <1>1, <1>2, <1>3, <1>4, <2>1 DEF Sound, Fresh, Held, Off, Files
  <2>3. Counts(e)'
    BY <1>1, <1>2, <1>3, <1>4, <2>1 DEF Sound, Counts, Off, Files, TypeOK, Directory
  <2> QED BY <2>2, <2>3 DEF Sound
<1> QED BY <1>5, <1>6

\* The gateway starts, or goes down and forgets what it had claimed.
LEMMA PhaseSound ==
    ASSUME IInv, Start \/ BeginRecovery \/ Recovered \/ Stall \/ Crash, NEW e \in Deliveries
    PROVE  Sound(e)'
<1> USE TriggersAssumption DEF history, files, Off
<1>1. TypeOK /\ Sound(e) /\ faults \in Nat
  BY DEF IInv, TypeOK
<1>2. CASE Start \/ BeginRecovery
  <2>1. held[e] = Gone
    BY <1>1, <1>2 DEF Start, BeginRecovery, Sound, Held
  <2> QED BY <1>1, <1>2, <2>1 DEF Start, BeginRecovery, Sound, Fresh, Held, Counts
<1>3. CASE Recovered
  <2>1. held[e] = Gone /\ processing[e] = Gone
    BY <1>1, <1>3 DEF Recovered, Sound, Held, Files
  <2> QED BY <1>1, <1>3, <2>1 DEF Recovered, Sound, Fresh, Held, Counts
<1>4. CASE Crash
  <2>1. held'[e] = Gone /\ gateway' = "down" /\ faults' = faults + 1
    BY <1>4 DEF Crash, NothingHeld, Fault
  <2>2. Fresh(e)' /\ Held(e)'
    BY <1>1, <1>4, <2>1 DEF Crash, Sound, Fresh, Held
  <2>3. Counts(e)'
    BY <1>1, <1>4, <2>1 DEF Crash, Sound, Counts, TypeOK, Directory
  <2> QED BY <2>2, <2>3 DEF Sound
<1>5. CASE Stall
  BY <1>1, <1>5 DEF Stall, Sound, Fresh, Held, Counts
<1> QED BY <1>2, <1>3, <1>4, <1>5

-----------------------------------------------------------------------------
\* The runner has one delivery in hand, so a step of it leaves the others.
LEMMA OneFirst ==
    ASSUME NEW d \in Deliveries, NEW e \in Deliveries, NEW S,
           First(d, S), First(e, S)
    PROVE  d = e
  BY TriggersAssumption DEF First

\* What an interrupted delivery counts once it has been written again.
LEMMA RewrittenSound ==
    ASSUME TypeOK, NEW d \in Deliveries, NEW a \in 0..MaxAttempts, Rewritten(d, a)
    PROVE  /\ inbox'[d] = inbox[d] \/ (inbox'[d] = a + 1 /\ a + 1 < MaxAttempts)
           /\ \A e \in Deliveries \ {d} : inbox'[e] = inbox[e]
  BY TriggersAssumption DEF Rewritten, Counted, TypeOK, Directory

\* Recovery, file by file.
LEMMA RecoverSound ==
    ASSUME IInv, NEW d \in Deliveries, Recover(d) \/ RecoverCut(d), NEW e \in Deliveries
    PROVE  Sound(e)'
<1> USE TriggersAssumption DEF history, Off
<1>1. TypeOK /\ Sound(d) /\ Sound(e) /\ faults \in Nat /\ gateway = "recovering"
  BY DEF IInv, TypeOK, Recover, RecoverCut
<1>2. /\ processing[d] # Gone /\ processing[d] \in 0..MaxAttempts
      /\ Rewritten(d, processing[d])
  BY <1>1 DEF Recover, RecoverCut, Retried, RetryCut, First, Files, TypeOK, Directory
<1>3. /\ held[e] = Gone /\ held'[e] = Gone /\ gateway' \in {"recovering", "down"}
      /\ answer' = answer /\ outcome' = outcome /\ begun' = begun
      /\ faults' \in Nat /\ faults <= faults'
  BY <1>1 DEF Recover, RecoverCut, Sound, Held, Fault
<1>4. processing'[e] \in {processing[e], Gone}
  BY <1>1 DEF Recover, RecoverCut, Retried, RetryCut, TypeOK, Directory
<1>5. \/ inbox'[e] = inbox[e]
      \/ e = d /\ inbox'[e] = processing[e] + 1 /\ processing[e] + 1 < MaxAttempts
  BY <1>1, <1>2, RewrittenSound
<1>6. e = d => processing[e] # Gone /\ processing[e] \in Nat
  BY <1>2
<1>7. Fresh(e)' /\ Held(e)'
  BY <1>1, <1>3, <1>4, <1>5, <1>6 DEF Sound, Fresh, Held
<1>8. Counts(e)'
  BY <1>1, <1>3, <1>4, <1>5, <1>6 DEF Sound, Counts, TypeOK, Directory
<1> QED BY <1>7, <1>8 DEF Sound

\* A delivery is dropped, or its turn is over.
LEMMA CompletedSound ==
    ASSUME IInv, NEW d \in Deliveries, Drop(d) \/ End(d, "ok") \/ End(d, "error"),
           NEW e \in Deliveries
    PROVE  Sound(e)'
<1> USE TriggersAssumption DEF history, Off
<1>1. TypeOK /\ Sound(d) /\ Sound(e) /\ faults \in Nat
  BY DEF IInv, TypeOK
<1>2. /\ gateway \in {"idle", "turn"} /\ First(d, Files(held)) /\ held[d] # Gone
      /\ gateway' = "idle" /\ begun' = begun /\ answer' = answer /\ faults' = faults
      /\ inbox' = inbox
  BY DEF Drop, End, Completed, First, Files
<1>3. CASE e = d
  <2>1. processing'[d] = Gone /\ held'[d] = Gone
    BY <1>1 DEF Drop, End, Completed, TypeOK, Directory
  <2>2. inbox[d] = Gone /\ answer[d] # "none"
    BY <1>1, <1>2 DEF Sound, Held, Fresh
  <2> QED BY <1>1, <1>2, <1>3, <2>1, <2>2 DEF Sound, Fresh, Held, Counts
<1>4. CASE e # d
  <2>1. processing'[e] = processing[e] /\ held'[e] = held[e] /\ outcome'[e] = outcome[e]
    BY <1>1, <1>4 DEF Drop, End, Completed, TypeOK, Directory
  <2>2. held[e] # Gone => begun[e] <= held[e]
    BY <1>1, <1>2, <1>4, OneFirst DEF Sound, Counts
  <2>3. Fresh(e)' /\ Held(e)'
    BY <1>1, <1>2, <2>1 DEF Sound, Fresh, Held
  <2>4. Counts(e)'
    BY <1>1, <1>2, <2>1, <2>2 DEF Sound, Counts, TypeOK, Directory
  <2> QED BY <2>3, <2>4 DEF Sound
<1> QED BY <1>3, <1>4

LEMMA BeginSound ==
    ASSUME IInv, NEW d \in Deliveries, Begin(d), NEW e \in Deliveries
    PROVE  Sound(e)'
<1> USE TriggersAssumption DEF history, files, Off
<1>1. TypeOK /\ Sound(d) /\ Sound(e) /\ faults \in Nat
  BY DEF IInv, TypeOK
<1>2. /\ gateway = "idle" /\ First(d, Files(held)) /\ held[d] # Gone /\ gateway' = "turn"
      /\ inbox' = inbox /\ processing' = processing /\ held' = held
      /\ answer' = answer /\ outcome' = outcome /\ faults' = faults
  BY DEF Begin, First, Files
<1>3. CASE e = d
  <2>1. begun'[d] = begun[d] + 1 /\ begun[d] \in Nat
    BY <1>1 DEF Begin, TypeOK
  <2>2. First(d, Files(held))'
    BY <1>2 DEF First, Files
  <2>3. answer[d] # "none" /\ inbox[d] = Gone
    BY <1>1, <1>2 DEF Sound, Fresh, Held
  <2>4. begun[d] <= held[d] /\ held[d] \in Nat /\ held[d] < MaxAttempts /\ held[d] <= faults
    BY <1>1, <1>2 DEF Sound, Counts, TypeOK, Directory
  <2>5. processing[d] # Gone => processing[d] = held[d]
    BY <1>1, <1>2 DEF Sound, Held
  <2>6. Fresh(d)' /\ Held(d)'
    BY <1>1, <1>2, <2>3 DEF Sound, Fresh, Held
  <2>7. Counts(d)'
    BY <1>1, <1>2, <2>1, <2>2, <2>3, <2>4, <2>5 DEF Counts
  <2> QED BY <1>3, <2>6, <2>7 DEF Sound
<1>4. CASE e # d
  <2>1. begun'[e] = begun[e]
    BY <1>1, <1>4 DEF Begin, TypeOK
  <2>2. held[e] # Gone => begun[e] <= held[e]
    BY <1>1, <1>2 DEF Sound, Counts
  <2>3. Fresh(e)' /\ Held(e)'
    BY <1>1, <1>2, <2>1 DEF Sound, Fresh, Held
  <2>4. Counts(e)'
    BY <1>1, <1>2, <2>1, <2>2 DEF Sound, Counts, TypeOK, Directory
  <2> QED BY <2>3, <2>4 DEF Sound
<1> QED BY <1>3, <1>4

\* A claimed delivery goes back: after an error, at a shutdown, or cut.
LEMMA FailSound ==
    ASSUME IInv, NEW d \in Deliveries, Fail(d) \/ Shutdown(d) \/ FailCut(d),
           NEW e \in Deliveries
    PROVE  Sound(e)'
<1> USE TriggersAssumption DEF history, Off
<1>1. TypeOK /\ Sound(d) /\ Sound(e) /\ faults \in Nat
  BY DEF IInv, TypeOK
<1>2. /\ gateway \in {"idle", "turn", "stalled"} /\ First(d, Files(held)) /\ held[d] # Gone
      /\ Rewritten(d, held[d]) /\ faults' = faults + 1
      /\ gateway' \in {"idle", "down"}
      /\ begun' = begun /\ answer' = answer /\ outcome' = outcome
  BY DEF Fail, Shutdown, FailCut, Retried, RetryCut, First, Files, Fault
<1>3. held[d] \in 0..MaxAttempts
  BY <1>1, <1>2 DEF TypeOK, Directory
<1>4. CASE e = d
  <2>1. /\ held'[d] = Gone
        /\ \/ processing'[d] = Gone
           \/ processing'[d] = processing[d] /\ gateway' = "down"
    BY <1>1 DEF Fail, Shutdown, FailCut, Retried, RetryCut, NothingHeld, TypeOK, Directory
  <2>2. inbox[d] = Gone /\ outcome[d] = "none" /\ answer[d] # "none"
    BY <1>1, <1>2 DEF Sound, Held, Fresh
  <2>3. inbox'[d] = Gone \/ (inbox'[d] = held[d] + 1 /\ held[d] + 1 < MaxAttempts)
    BY <1>1, <1>2, <1>3, <2>2, RewrittenSound
  <2>4. Fresh(d)' /\ Held(d)'
    BY <1>1, <1>2, <2>1, <2>2 DEF Sound, Fresh, Held
  <2>5. Counts(d)'
    BY <1>1, <1>2, <1>3, <2>1, <2>3 DEF Sound, Counts, TypeOK, Directory
  <2> QED BY <1>4, <2>4, <2>5 DEF Sound
<1>5. CASE e # d
  <2>1. /\ inbox'[e] = inbox[e] /\ processing'[e] = processing[e]
        /\ held'[e] = Gone \/ (held'[e] = held[e] /\ gateway' = "idle")
    BY <1>1, <1>2, <1>3, <1>5, RewrittenSound
       DEF Fail, Shutdown, FailCut, Retried, RetryCut, NothingHeld, TypeOK, Directory
  <2>2. held[e] # Gone => begun[e] <= held[e]
    BY <1>1, <1>2, <1>5, OneFirst DEF Sound, Counts
  <2>3. gateway' = "idle" => held'[e] = held[e]
    BY <1>1, <1>2, <1>5 DEF Fail, Shutdown, FailCut, TypeOK, Directory
  <2>4. Fresh(e)' /\ Held(e)'
    BY <1>1, <1>2, <2>1, <2>3 DEF Sound, Fresh, Held
  <2>5. Counts(e)'
    BY <1>1, <1>2, <2>1, <2>2, <2>3 DEF Sound, Counts, TypeOK, Directory
  <2> QED BY <2>4, <2>5 DEF Sound
<1> QED BY <1>4, <1>5

-----------------------------------------------------------------------------
LEMMA InitInv == Init => IInv
<1>1. Init => \A d \in Deliveries : Sound(d)
  BY TriggersAssumption DEF Init, Sound, Fresh, Held, Counts
<1> QED BY <1>1, InitType DEF IInv

LEMMA NextInv ==
    ASSUME IInv, [Next]_vars
    PROVE  IInv'
<1>1. ASSUME NEW e \in Deliveries PROVE Sound(e)'
  <2>1. CASE \E t \in Triggers : Commands(t)
    BY <2>1, CommandsSound
  <2>2. CASE \E d \in Deliveries : Enqueue(d) \/ EnqueueCut(d)
    BY <2>2, EnqueueSound
  <2>3. CASE \E d \in Deliveries : Runner(d)
    <3>1. PICK d \in Deliveries : Runner(d)
      BY <2>3
    <3> QED BY <3>1, RecoverSound, CompletedSound, BeginSound, FailSound DEF Runner
  <2>4. CASE \E b \in SUBSET Deliveries : Claim(b) \/ ClaimCut(b)
    BY <2>4, ClaimSound
  <2>5. CASE Start \/ BeginRecovery \/ Recovered \/ Stall \/ Crash
    BY <2>5, PhaseSound
  <2>6. CASE UNCHANGED vars
    BY <2>6 DEF vars, history, files, IInv, Sound, Fresh, Held, Counts, First, Files
  <2> QED BY <2>1, <2>2, <2>3, <2>4, <2>5, <2>6 DEF Next
<1> QED BY <1>1, NextType DEF IInv

\* The state of the queue is well typed.
THEOREM TriggerTypes == Spec => []TypeOK
<1>1. IInv => TypeOK
  BY DEF IInv
<1> QED BY InitInv, NextInv, <1>1, PTL DEF Spec

\* Across any number of kills a delivery gets no more turns than the limit,
\* and none gets a second turn without a fault.
THEOREM TurnsAreBounded == Spec => []TurnsBounded
<1>1. IInv => TurnsBounded
  BY DEF IInv, Sound, Counts, TurnsBounded
<1> QED BY InitInv, NextInv, <1>1, PTL DEF Spec

\* What was handled or dropped has no file that could be taken up again.
THEOREM SettledForGood == Spec => []SettledStaysSettled
<1>1. IInv => SettledStaysSettled
  BY DEF IInv, Sound, Held, SettledStaysSettled, Files
<1> QED BY InitInv, NextInv, <1>1, PTL DEF Spec

-----------------------------------------------------------------------------
\* NothingForgotten, for one delivery.
Kept(d) ==
    (/\ answer[d] = "queued" /\ outcome[d] = "none"
     /\ trigger[TriggerOf[d]] # "deleted")
    => inbox[d] # Gone \/ processing[d] # Gone \/ failed[d] # Gone

LEMMA CommandsKeep ==
    ASSUME TypeOK, NEW t \in Triggers, Commands(t), NEW e \in Deliveries, Kept(e)
    PROVE  Kept(e)'
<1> USE TriggersAssumption DEF history, files
<1>1. CASE Create(t) \/ Enable(t, "on") \/ Enable(t, "off")
  BY <1>1 DEF Create, Enable, Kept, TypeOK
<1>2. CASE Delete(t)
  <2>1. CASE TriggerOf[e] = t
    BY <1>2, <2>1 DEF Delete, Kept, TypeOK
  <2>2. CASE TriggerOf[e] # t
    BY <1>2, <2>2 DEF Delete, Kept, Without, Of, TypeOK
  <2> QED BY <2>1, <2>2
<1>3. CASE DeleteCut(t)
  <2>1. CASE TriggerOf[e] = t
    BY <1>3, <2>1 DEF DeleteCut, Kept, TypeOK
  <2>2. CASE TriggerOf[e] # t
    <3>1. inbox'[e] = inbox[e] /\ processing'[e] = processing[e] /\ failed'[e] = failed[e]
      BY <1>3, <2>2 DEF DeleteCut, Without, Of, TypeOK
    <3> QED BY <1>3, <2>2, <3>1 DEF DeleteCut, Kept, TypeOK
  <2> QED BY <2>1, <2>2
<1> QED BY <1>1, <1>2, <1>3 DEF Commands

\* Whatever cuts a retry, the delivery's new file is there.
LEMMA RetryKeeps ==
    ASSUME TypeOK, NEW d \in Deliveries, NEW a \in 0..MaxAttempts,
           Retried(d, a) \/ RetryCut(d, a)
    PROVE  /\ inbox'[d] # Gone \/ failed'[d] # Gone
           /\ \A e \in Deliveries \ {d} :
                 inbox'[e] = inbox[e] /\ processing'[e] = processing[e] /\ failed'[e] = failed[e]
<1> USE TriggersAssumption
<1>1. a + 1 \in Nat /\ a + 1 # Gone
  OBVIOUS
<1> QED BY <1>1 DEF Retried, RetryCut, Rewritten, Counted, TypeOK, Directory

LEMMA RunnerKeeps ==
    ASSUME TypeOK, NEW d \in Deliveries, Runner(d), NEW e \in Deliveries, Kept(e)
    PROVE  Kept(e)'
<1> USE TriggersAssumption DEF history, files
<1>1. CASE Recover(d) \/ RecoverCut(d)
  <2>1. processing[d] \in 0..MaxAttempts
    BY <1>1 DEF Recover, RecoverCut, First, Files, TypeOK, Directory
  <2>2. Retried(d, processing[d]) \/ RetryCut(d, processing[d])
    BY <1>1 DEF Recover, RecoverCut
  <2>3. answer' = answer /\ outcome' = outcome /\ trigger' = trigger
    BY <1>1 DEF Recover, RecoverCut
  <2> QED BY <2>1, <2>2, <2>3, RetryKeeps DEF Kept
<1>2. CASE Fail(d) \/ Shutdown(d) \/ FailCut(d)
  <2>1. held[d] \in 0..MaxAttempts
    BY <1>2 DEF Fail, Shutdown, FailCut, First, Files, TypeOK, Directory
  <2>2. Retried(d, held[d]) \/ RetryCut(d, held[d])
    BY <1>2 DEF Fail, Shutdown, FailCut
  <2>3. answer' = answer /\ outcome' = outcome /\ trigger' = trigger
    BY <1>2 DEF Fail, Shutdown, FailCut
  <2> QED BY <2>1, <2>2, <2>3, RetryKeeps DEF Kept
<1>3. CASE Drop(d) \/ End(d, "ok") \/ End(d, "error")
  <2>1. CASE e = d
    BY <1>3, <2>1 DEF Drop, End, Completed, Kept, TypeOK
  <2>2. CASE e # d
    BY <1>3, <2>2 DEF Drop, End, Completed, Kept, TypeOK, Directory
  <2> QED BY <2>1, <2>2
<1>4. CASE Begin(d)
  BY <1>4 DEF Begin, Kept
<1> QED BY <1>1, <1>2, <1>3, <1>4 DEF Runner

LEMMA NextKeeps ==
    ASSUME TypeOK, [Next]_vars, NEW e \in Deliveries, Kept(e)
    PROVE  Kept(e)'
<1> USE TriggersAssumption DEF history, files
<1>1. ASSUME NEW d \in Deliveries, Enqueue(d) PROVE Kept(e)'
  BY <1>1 DEF Enqueue, Kept, TypeOK, Directory
<1>2. ASSUME NEW d \in Deliveries, EnqueueCut(d) PROVE Kept(e)'
  BY <1>2 DEF EnqueueCut, Kept, TypeOK, Directory
<1>3. ASSUME NEW b \in SUBSET Deliveries, Claim(b) \/ ClaimCut(b) PROVE Kept(e)'
  <2>1. e \in b => inbox[e] # Gone
    BY <1>3 DEF Claim, ClaimCut, Prefix, Files
  <2> QED BY <1>3, <2>1 DEF Claim, ClaimCut, Moved, Without, Kept
<1>4. CASE Start \/ BeginRecovery \/ Recovered \/ Stall \/ Crash
  BY <1>4 DEF Start, BeginRecovery, Recovered, Stall, Crash, Kept
<1>5. CASE UNCHANGED vars
  BY <1>5 DEF vars, Kept
<1> QED BY <1>1, <1>2, <1>3, <1>4, <1>5, CommandsKeep, RunnerKeeps DEF Next

\* A delivery whose sender was told "Queued" has a file at every moment until
\* it has been handled, whatever is killed, or its trigger is deleted.
THEOREM NothingIsForgotten == Spec => []NothingForgotten
<1> DEFINE AllKept == \A d \in Deliveries : Kept(d)
<1>1. Init => AllKept
  BY DEF Init, Kept
<1>2. IInv /\ AllKept /\ [Next]_vars => AllKept'
  BY NextKeeps DEF IInv
<1>3. AllKept => NothingForgotten
  BY DEF Kept, NothingForgotten, Files
<1> HIDE DEF AllKept
<1> QED BY InitInv, NextInv, <1>1, <1>2, <1>3, PTL DEF Spec

-----------------------------------------------------------------------------
\* What the copies of a delivery in several directories have to do with each
\* other: a cut retry leaves the older copy one attempt behind; a claimed
\* delivery has a file unless its trigger is gone.
Copies(d) ==
    /\ answer[d] = "none" => failed[d] = Gone
    /\ failed[d] # Gone => held[d] = Gone /\ inbox[d] = Gone
    /\ processing[d] # Gone /\ failed[d] # Gone => processing[d] + 1 >= MaxAttempts
    /\ processing[d] # Gone /\ inbox[d] # Gone => inbox[d] = processing[d] + 1
    /\ held[d] # Gone /\ processing[d] = Gone => trigger[TriggerOf[d]] = "deleted"

OneBatch == IsFiniteSet(Files(held)) /\ Cardinality(Files(held)) <= BatchSize

QInv == IInv /\ OneBatch /\ \A d \in Deliveries : Copies(d)

LEMMA FewerHeld ==
    ASSUME OneBatch, held' \in Directory, \A d \in Deliveries : held'[d] \in {held[d], Gone}
    PROVE  OneBatch'
<1>1. Files(held)' \subseteq Files(held)
  BY DEF Files
<1>2. /\ IsFiniteSet(Files(held)') /\ Cardinality(Files(held)') <= Cardinality(Files(held))
      /\ Cardinality(Files(held)') \in Nat /\ Cardinality(Files(held)) \in Nat
  BY <1>1, FS_Subset, FS_CardinalityType DEF OneBatch
<1> QED BY <1>2, TriggersAssumption DEF OneBatch

LEMMA NextOneBatch ==
    ASSUME QInv, [Next]_vars
    PROVE  OneBatch'
<1> USE DEF history, files
<1>1. TypeOK /\ TypeOK' /\ OneBatch
  BY NextInv DEF QInv, IInv
<1>2. ASSUME NEW b \in SUBSET Deliveries, Claim(b)  PROVE OneBatch'
  <2>1. Files(held)' = b
    BY <1>2 DEF Claim, Prefix, Files
  <2>2. IsFiniteSet(b) /\ Cardinality(b) <= BatchSize
    BY <1>2, FS_Subset, TriggersAssumption DEF Claim, Prefix
  <2> QED BY <2>1, <2>2 DEF OneBatch
<1>3. CASE \A d \in Deliveries : held'[d] \in {held[d], Gone}
  BY <1>1, <1>3, FewerHeld DEF TypeOK
<1>4. (\A b \in SUBSET Deliveries : ~Claim(b)) => \A d \in Deliveries : held'[d] \in {held[d], Gone}
  <2>1. ASSUME NEW t \in Triggers, Commands(t)  PROVE held' = held
    BY <2>1 DEF Commands, Create, Enable, Delete, DeleteCut
  <2>2. ASSUME NEW d \in Deliveries, Enqueue(d) \/ EnqueueCut(d)  PROVE held' = held
    BY <2>2 DEF Enqueue, EnqueueCut
  <2>3. ASSUME NEW d \in Deliveries, Runner(d)
        PROVE  \A e \in Deliveries : held'[e] \in {held[e], Gone}
    BY <1>1, <2>3 DEF Runner, Recover, RecoverCut, Drop, Begin, End, Completed, Fail, Shutdown,
       FailCut, NothingHeld, TypeOK, Directory
  <2>4. ASSUME NEW b \in SUBSET Deliveries, ClaimCut(b)  PROVE held' = held
    BY <2>4 DEF ClaimCut
  <2>5. Start \/ BeginRecovery \/ Recovered \/ Stall \/ Crash =>
           \A d \in Deliveries : held'[d] \in {held[d], Gone}
    BY DEF Start, BeginRecovery, Recovered, Stall, Crash, NothingHeld
  <2>6. UNCHANGED vars => held' = held
    BY DEF vars
  <2> QED BY <2>1, <2>2, <2>3, <2>4, <2>5, <2>6 DEF Next
<1> QED BY <1>2, <1>3, <1>4

\* A retry, cut or not, keeps what the copies have to do with each other.
LEMMA RetryCopies ==
    ASSUME TypeOK, NEW d \in Deliveries, NEW a \in 0..MaxAttempts,
           Retried(d, a) \/ RetryCut(d, a), Sound(d), Copies(d),
           processing[d] \in {a, Gone}, held'[d] = Gone, answer[d] # "none", answer' = answer,
           inbox[d] = Gone \/ (processing[d] = a /\ held[d] = Gone),
           failed[d] = Gone \/ (processing[d] = a /\ held[d] = Gone)
    PROVE  Copies(d)'
<1> USE TriggersAssumption
<1>1. CASE a + 1 >= MaxAttempts
  <2>1. inbox'[d] = inbox[d] /\ failed'[d] = a + 1 /\ processing'[d] \in {processing[d], Gone}
    BY <1>1 DEF Retried, RetryCut, Rewritten, TypeOK, Directory
  <2>2. inbox[d] = Gone
    BY <1>1 DEF Copies, Sound, Counts, TypeOK, Directory
  <2> QED BY <1>1, <2>1, <2>2 DEF Copies
<1>2. CASE a + 1 < MaxAttempts
  <2>1. /\ inbox'[d] = a + 1 /\ failed'[d] = failed[d]
        /\ processing'[d] \in {processing[d], Gone}
    BY <1>2 DEF Retried, RetryCut, Rewritten, Counted, TypeOK, Directory
  <2>2. failed[d] = Gone
    BY <1>2 DEF Copies
  <2> QED BY <1>2, <2>1, <2>2 DEF Copies
<1> QED BY <1>1, <1>2 DEF TypeOK, Directory

LEMMA CommandCopies ==
    ASSUME QInv, NEW t \in Triggers, Commands(t), NEW e \in Deliveries
    PROVE  Copies(e)'
<1> USE TriggersAssumption DEF history, files
<1>1. TypeOK /\ Copies(e)
  BY DEF QInv, IInv
<1>2. /\ held' = held /\ answer' = answer
      /\ trigger[TriggerOf[e]] = "deleted" => trigger'[TriggerOf[e]] = "deleted"
  BY <1>1 DEF Commands, Create, Enable, Delete, DeleteCut, TypeOK
<1>3. CASE Create(t) \/ Enable(t, "on") \/ Enable(t, "off")
  BY <1>1, <1>2, <1>3 DEF Create, Enable, Copies
<1>4. CASE Delete(t) \/ DeleteCut(t)
  <2>1. /\ inbox'[e] \in {inbox[e], Gone} /\ processing'[e] \in {processing[e], Gone}
        /\ failed'[e] \in {failed[e], Gone}
    BY <1>4 DEF Delete, DeleteCut, Without
  <2>2. processing'[e] = processing[e] \/ trigger'[TriggerOf[e]] = "deleted"
    <3>1. CASE TriggerOf[e] = t
      BY <1>1, <1>4, <3>1 DEF Delete, DeleteCut, TypeOK
    <3>2. CASE TriggerOf[e] # t
      BY <1>4, <3>2 DEF Delete, DeleteCut, Without, Of
    <3> QED BY <3>1, <3>2
  <2> QED BY <1>1, <1>2, <2>1, <2>2 DEF Copies
<1> QED BY <1>3, <1>4 DEF Commands

LEMMA RunnerCopies ==
    ASSUME QInv, NEW d \in Deliveries, Runner(d), NEW e \in Deliveries
    PROVE  Copies(e)'
<1> USE TriggersAssumption DEF history, files
<1>1. TypeOK /\ Sound(d) /\ Sound(e) /\ Copies(d) /\ Copies(e)
  BY DEF QInv, IInv
<1>2. answer' = answer /\ trigger' = trigger
  BY DEF Runner, Recover, RecoverCut, Drop, Begin, End, Fail, Shutdown, FailCut
<1>3. CASE Recover(d) \/ RecoverCut(d)
  <2>1. /\ processing[d] \in 0..MaxAttempts /\ held' = held /\ held[e] = Gone /\ held[d] = Gone
        /\ Retried(d, processing[d]) \/ RetryCut(d, processing[d])
        /\ answer[d] # "none"
    BY <1>1, <1>3 DEF Recover, RecoverCut, First, Files, TypeOK, Directory, Sound, Held, Fresh, Off
  <2>2. CASE e = d
    BY <1>1, <1>2, <2>1, <2>2, RetryCopies
  <2>3. CASE e # d
    BY <1>1, <1>2, <2>1, <2>3, RetryKeeps DEF Copies
  <2> QED BY <2>2, <2>3
<1>4. CASE Fail(d) \/ Shutdown(d) \/ FailCut(d)
  <2>1. /\ held[d] \in 0..MaxAttempts /\ held'[d] = Gone /\ held'[e] \in {held[e], Gone}
        /\ Retried(d, held[d]) \/ RetryCut(d, held[d])
        /\ gateway \notin Off /\ inbox[d] = Gone /\ failed[d] = Gone /\ answer[d] # "none"
        /\ processing[d] \in {held[d], Gone}
    BY <1>1, <1>4 DEF Fail, Shutdown, FailCut, First, Files, TypeOK, Directory, Sound, Held, Fresh,
       Copies, NothingHeld, Off
  <2>2. CASE e = d
    BY <1>1, <1>2, <2>1, <2>2, RetryCopies
  <2>3. CASE e # d
    BY <1>1, <1>2, <2>1, <2>3, RetryKeeps DEF Copies
  <2> QED BY <2>2, <2>3
<1>5. CASE Drop(d) \/ End(d, "ok") \/ End(d, "error")
  <2>1. /\ processing' = [processing EXCEPT ![d] = Gone] /\ held' = [held EXCEPT ![d] = Gone]
        /\ inbox' = inbox /\ failed' = failed
    BY <1>5 DEF Drop, End, Completed
  <2> QED BY <1>1, <1>2, <2>1 DEF Copies, TypeOK, Directory
<1>6. CASE Begin(d)
  BY <1>1, <1>6 DEF Begin, Copies
<1> QED BY <1>3, <1>4, <1>5, <1>6 DEF Runner

LEMMA NextCopies ==
    ASSUME QInv, [Next]_vars, NEW e \in Deliveries
    PROVE  Copies(e)'
<1> USE TriggersAssumption DEF history, files
<1>1. TypeOK /\ Sound(e) /\ Copies(e)
  BY DEF QInv, IInv
<1>2. ASSUME NEW d \in Deliveries, Enqueue(d) \/ EnqueueCut(d)  PROVE Copies(e)'
  <2>1. CASE e = d
    BY <1>1, <1>2, <2>1 DEF Enqueue, EnqueueCut, MayEnqueue, Sound, Fresh, Copies, TypeOK, Directory
  <2>2. CASE e # d
    BY <1>1, <1>2, <2>2 DEF Enqueue, EnqueueCut, Copies, TypeOK, Directory
  <2> QED BY <2>1, <2>2
<1>3. ASSUME NEW b \in SUBSET Deliveries, Claim(b) \/ ClaimCut(b)  PROVE Copies(e)'
  <2>1. /\ held[e] = Gone /\ processing[e] = Gone /\ answer' = answer /\ trigger' = trigger
        /\ failed' = failed
        /\ processing'[e] = IF e \in b THEN inbox[e] ELSE Gone
        /\ inbox'[e] = IF e \in b THEN Gone ELSE inbox[e]
        /\ held'[e] = Gone \/ (e \in b /\ held'[e] = inbox[e])
        /\ e \in b => inbox[e] # Gone
    BY <1>1, <1>3 DEF Claim, ClaimCut, Moved, Without, Prefix, Files, Sound, Held, Off
  <2> QED BY <1>1, <2>1 DEF Copies
<1>4. CASE Start \/ BeginRecovery \/ Recovered \/ Stall \/ Crash
  BY <1>1, <1>4 DEF Start, BeginRecovery, Recovered, Stall, Crash, Copies, NothingHeld
<1>5. CASE UNCHANGED vars
  BY <1>1, <1>5 DEF vars, Copies
<1> QED BY <1>2, <1>3, <1>4, <1>5, CommandCopies, RunnerCopies DEF Next

LEMMA InitQueue == Init => QInv
<1> SUFFICES ASSUME Init  PROVE QInv
  OBVIOUS
<1>1. Files(held) = {}
  BY DEF Init, Files
<1>2. OneBatch
  BY <1>1, FS_EmptySet, TriggersAssumption DEF OneBatch
<1>3. \A d \in Deliveries : Copies(d)
  BY DEF Init, Copies
<1> QED BY <1>2, <1>3, InitInv DEF QInv

LEMMA NextQueue == QInv /\ [Next]_vars => QInv'
<1>1. QInv /\ [Next]_vars => IInv'
  BY NextInv DEF QInv
<1> QED BY <1>1, NextOneBatch, NextCopies DEF QInv

-----------------------------------------------------------------------------
Fates == [d \in Deliveries |-> Fate(d)]
Losses == [d \in Deliveries |-> Lost(d)]

\* A delivery stands where it stood if its copies stay, and whether its trigger
\* is deleted and whether its turn runs.
LEMMA Stays ==
    ASSUME NEW e \in Deliveries,
           inbox'[e] = inbox[e], processing'[e] = processing[e], failed'[e] = failed[e],
           held'[e] = held[e], answer'[e] = answer[e], outcome'[e] = outcome[e],
           Running(e)' <=> Running(e),
           trigger'[TriggerOf[e]] = "deleted" <=> trigger[TriggerOf[e]] = "deleted"
    PROVE  Fate(e)' = Fate(e) /\ Lost(e)' = Lost(e)
BY DEF Fate, Lost, Attempts, Files

\* A step that moves no delivery is none of TriggerQueue's.
LEMMA Quiet ==
    ASSUME \A e \in Deliveries : Fate(e)' = Fate(e) /\ Lost(e)' = Lost(e),
           UNCHANGED <<trigger, answer, begun, faults>>
    PROVE  UNCHANGED Promise!promised
<1>1. Fates' = Fates /\ Losses' = Losses
  BY DEF Fates, Losses
<1> QED BY <1>1 DEF Promise!promised, Fates, Losses

\* A step that moves one delivery moves it alone in TriggerQueue too.
LEMMA Moves ==
    ASSUME NEW d \in Deliveries, \A e \in Deliveries \ {d} : Fate(e)' = Fate(e) /\ Lost(e)' = Lost(e)
    PROVE  /\ Fates' = [Fates EXCEPT ![d] = Fate(d)']
           /\ Losses' = [Losses EXCEPT ![d] = Lost(d)']
           /\ Lost(d)' = Lost(d) => Losses' = Losses
<1>1. \A e \in Deliveries : /\ Fates'[e] = IF e = d THEN Fate(d)' ELSE Fates[e]
                            /\ Losses'[e] = IF e = d THEN Lost(d)' ELSE Losses[e]
  BY DEF Fates, Losses
<1> QED BY <1>1 DEF Fates, Losses

\* How a claimed delivery stands.
LEMMA ClaimedStands ==
    ASSUME QInv, NEW d \in Deliveries, held[d] # Gone
    PROVE  /\ answer[d] # "none" /\ outcome[d] = "none" /\ failed[d] = Gone /\ inbox[d] = Gone
           /\ Attempts(d) = held[d] /\ held[d] \in Nat /\ held[d] < MaxAttempts
           /\ gateway \notin Off
           /\ trigger[TriggerOf[d]] # "deleted" => processing[d] = held[d]
           /\ Fate(d) = IF Running(d) THEN "turn"
                        ELSE IF trigger[TriggerOf[d]] = "deleted" THEN "withdrawn" ELSE "queued"
<1>1. TypeOK /\ Sound(d) /\ Copies(d)
  BY DEF QInv, IInv
<1>2. /\ answer[d] # "none" /\ outcome[d] = "none" /\ failed[d] = Gone /\ inbox[d] = Gone
      /\ held[d] \in Nat /\ held[d] < MaxAttempts /\ gateway \notin Off
      /\ trigger[TriggerOf[d]] # "deleted" => processing[d] = held[d]
  BY <1>1 DEF Sound, Fresh, Held, Counts, Copies, TypeOK, Directory
<1> QED BY <1>1, <1>2, TriggersAssumption DEF Attempts, Fate, Files

-----------------------------------------------------------------------------
\* What a fault makes of a delivery that it costs an attempt.
After(d) ==
    IF trigger[TriggerOf[d]] = "deleted" THEN "withdrawn"
    ELSE IF Lost(d) + 1 >= MaxAttempts THEN "failed"
    ELSE "queued"

\* The files say so at once, before the gateway recovers: its new file counts
\* one attempt more, or the old one is left in processing/.
LEMMA LosesOne ==
    ASSUME TypeOK, NEW d \in Deliveries, Fate(d) \in {"queued", "turn"}, Attempts(d) \in Nat,
           held'[d] = Gone, UNCHANGED <<answer, outcome, trigger>>,
           trigger[TriggerOf[d]] # "deleted" =>
               \/ /\ inbox'[d] = Attempts(d) + 1 /\ Attempts(d) + 1 < MaxAttempts
                  /\ failed'[d] = Gone
               \/ /\ failed'[d] # Gone /\ Attempts(d) + 1 >= MaxAttempts
               \/ /\ inbox'[d] = Gone /\ processing'[d] = Attempts(d) /\ failed'[d] = Gone
    PROVE  /\ Fate(d)' = After(d)
           /\ Lost(d)' = IF After(d) = "queued" THEN Lost(d) + 1 ELSE 0
<1> USE TriggersAssumption
<1>1. Lost(d) = Attempts(d)
  BY DEF Lost
<1>2. ~Running(d)' /\ answer'[d] # "none" /\ outcome'[d] = "none"
  BY DEF Running, First, Files, Fate, TypeOK
<1>3. CASE trigger[TriggerOf[d]] = "deleted"
  BY <1>2, <1>3 DEF After, Fate, Lost
<1>4. CASE trigger[TriggerOf[d]] # "deleted"
  <2>1. CASE failed'[d] # Gone /\ Attempts(d) + 1 >= MaxAttempts
    BY <1>1, <1>2, <1>4, <2>1 DEF After, Fate, Lost
  <2>2. CASE /\ inbox'[d] = Attempts(d) + 1 /\ Attempts(d) + 1 < MaxAttempts
             /\ failed'[d] = Gone
    <3>1. Attempts(d)' = Attempts(d) + 1 /\ inbox'[d] # Gone
      BY <2>2 DEF Attempts
    <3> QED BY <1>1, <1>2, <1>4, <2>2, <3>1 DEF After, Fate, Lost, Files
  <2>3. CASE inbox'[d] = Gone /\ processing'[d] = Attempts(d) /\ failed'[d] = Gone
    <3>1. Attempts(d)' = Attempts(d) + 1 /\ processing'[d] # Gone
      BY <2>3 DEF Attempts
    <3> QED BY <1>1, <1>2, <1>4, <2>3, <3>1 DEF After, Fate, Lost, Files
  <2> QED BY <1>4, <2>1, <2>2, <2>3
<1> QED BY <1>3, <1>4

\* A step that costs some claimed or queued deliveries an attempt, and moves no
\* other, is a fault of TriggerQueue.
LEMMA Hits ==
    ASSUME NEW S \in SUBSET Deliveries, Cardinality(S) <= BatchSize,
           \A d \in S : /\ Fate(d) \in {"queued", "turn"}
                        /\ Fate(d)' = After(d)
                        /\ Lost(d)' = IF After(d) = "queued" THEN Lost(d) + 1 ELSE 0,
           \A d \in Deliveries \ S : Fate(d)' = Fate(d) /\ Lost(d)' = Lost(d),
           faults' = faults + 1, UNCHANGED <<trigger, answer, begun>>
    PROVE  Promise!Next
<1>1. \A d \in S : Promise!Afterwards(d) = After(d)
  BY DEF Promise!Afterwards, After
<1>2. Fates' = [d \in Deliveries |-> IF d \in S THEN After(d) ELSE Fates[d]]
  BY DEF Fates
<1>3. Losses' = [d \in Deliveries |->
                    IF d \notin S THEN Losses[d]
                    ELSE IF After(d) = "queued" THEN Losses[d] + 1 ELSE 0]
  BY DEF Losses
<1>4. S \subseteq Promise!InQueue
  BY DEF Promise!InQueue
<1>5. Fates' = [d \in Deliveries |-> IF d \in S THEN Promise!Afterwards(d) ELSE Fates[d]]
  BY <1>1, <1>2
<1>6. Losses' = [d \in Deliveries |->
                    IF d \notin S THEN Losses[d]
                    ELSE IF Promise!Afterwards(d) = "queued" THEN Losses[d] + 1 ELSE 0]
  BY <1>1, <1>3, Zenon
<1>7. Promise!Cardinality(S) = Cardinality(S)
  BY Zenon DEF Promise!Cardinality, Cardinality
<1>8. Promise!Fault(S)
  BY <1>4, <1>5, <1>6, <1>7, Zenon DEF Promise!Fault, Fates, Losses
<1> QED BY <1>8 DEF Promise!Next

\* Faults that hit nothing claimed.
LEMMA HitsNothing ==
    ASSUME \A d \in Deliveries : Fate(d)' = Fate(d) /\ Lost(d)' = Lost(d),
           faults' = faults + 1, UNCHANGED <<trigger, answer, begun>>
    PROVE  Promise!Next
<1>1. Cardinality({}) <= BatchSize
  BY FS_EmptySet, TriggersAssumption
<1> QED BY <1>1, Hits

-----------------------------------------------------------------------------
\* The runner goes down, or gives a claimed delivery back: every claimed one
\* that it no longer holds has lost an attempt.
LEMMA FaultPromise ==
    ASSUME QInv, \/ Crash
                 \/ \E d \in Deliveries : Fail(d) \/ Shutdown(d) \/ FailCut(d)
    PROVE  Promise!Next
<1> USE TriggersAssumption DEF history, files, Off
<1>1. TypeOK /\ OneBatch
  BY DEF QInv, IInv
<1>2. /\ faults' = faults + 1 /\ UNCHANGED <<trigger, answer, outcome, begun>>
      /\ gateway' \in {"idle", "down"}
      /\ \A e \in Deliveries : held'[e] \in {held[e], Gone}
  BY <1>1 DEF Crash, Fail, Shutdown, FailCut, Fault, NothingHeld, TypeOK, Directory
<1>3. ASSUME NEW e \in Deliveries
      PROVE  /\ held[e] = Gone => UNCHANGED <<inbox[e], processing[e], failed[e]>>
             /\ held[e] # Gone /\ held'[e] = held[e] =>
                   UNCHANGED <<inbox[e], processing[e], failed[e]>> /\ ~Running(e)
             /\ held[e] # Gone /\ held'[e] = Gone =>
                   \/ UNCHANGED <<inbox[e], processing[e], failed[e]>>
                   \/ inbox'[e] = held[e] + 1 /\ held[e] + 1 < MaxAttempts /\ failed'[e] = failed[e]
                   \/ failed'[e] # Gone /\ held[e] + 1 >= MaxAttempts
  <2>1. CASE Crash
    BY <2>1 DEF Crash, NothingHeld
  <2>2. CASE \E d \in Deliveries : Fail(d) \/ Shutdown(d) \/ FailCut(d)
    <3>1. PICK d \in Deliveries : Fail(d) \/ Shutdown(d) \/ FailCut(d)
      BY <2>2
    <3>2. /\ First(d, Files(held)) /\ held[d] # Gone /\ held[d] \in 0..MaxAttempts
          /\ held'[d] = Gone
          /\ Retried(d, held[d]) \/ RetryCut(d, held[d])
      BY <1>1, <3>1 DEF Fail, Shutdown, FailCut, First, Files, NothingHeld, TypeOK, Directory
    <3>3. CASE e = d
      <4>1. \/ inbox'[d] = held[d] + 1 /\ held[d] + 1 < MaxAttempts /\ failed'[d] = failed[d]
            \/ failed'[d] = held[d] + 1 /\ held[d] + 1 >= MaxAttempts
        BY <1>1, <3>2 DEF Retried, RetryCut, Rewritten, Counted, TypeOK, Directory
      <4> QED BY <3>2, <3>3, <4>1
    <3>4. CASE e # d
      <4>1. UNCHANGED <<inbox[e], processing[e], failed[e]>>
        BY <1>1, <3>2, <3>4, RetryKeeps
      <4>2. ~Running(e)
        BY <3>2, <3>4, OneFirst DEF Running
      <4> QED BY <4>1, <4>2
    <3> QED BY <3>3, <3>4
  <2> QED BY <2>1, <2>2
<1> DEFINE Gives(e) == held[e] # Gone /\ held'[e] = Gone
           S == {e \in Deliveries : Gives(e) /\ Fate(e) \in {"queued", "turn"}}
<1>4. Cardinality(S) <= BatchSize
  <2>1. S \subseteq Files(held)
    BY DEF Files
  <2> QED BY <1>1, <2>1, FS_Subset, FS_CardinalityType DEF OneBatch
<1>5. ASSUME NEW e \in S
      PROVE  /\ Fate(e) \in {"queued", "turn"} /\ Fate(e)' = After(e)
             /\ Lost(e)' = IF After(e) = "queued" THEN Lost(e) + 1 ELSE 0
  <2>1. /\ Attempts(e) = held[e] /\ held[e] \in Nat /\ inbox[e] = Gone /\ failed[e] = Gone
        /\ trigger[TriggerOf[e]] # "deleted" => processing[e] = held[e]
    BY <1>5, ClaimedStands
  <2> QED BY <1>1, <1>2, <1>3, <1>5, <2>1, LosesOne
<1>6. ASSUME NEW e \in Deliveries \ S
      PROVE  Fate(e)' = Fate(e) /\ Lost(e)' = Lost(e)
  <2>1. ~Running(e)'
    BY <1>2 DEF Running
  <2>2. CASE held[e] = Gone
    <3>1. ~Running(e) /\ held'[e] = held[e]
      BY <1>2, <2>2 DEF Running, First, Files
    <3> QED BY <1>2, <1>3, <2>1, <2>2, <3>1, Stays
  <2>3. CASE held[e] # Gone /\ held'[e] = held[e]
    BY <1>2, <1>3, <2>1, <2>3, Stays
  <2>4. CASE Gives(e)
    <3>1. Fate(e) = "withdrawn" /\ trigger[TriggerOf[e]] = "deleted"
          /\ answer[e] # "none" /\ outcome[e] = "none"
      BY <1>6, <2>4, ClaimedStands
    <3>2. Fate(e)' = "withdrawn"
      BY <1>2, <2>1, <3>1 DEF Fate
    <3> QED BY <3>1, <3>2 DEF Lost
  <2> QED BY <1>2, <2>2, <2>3, <2>4
<1> HIDE DEF S
<1>7. S \in SUBSET Deliveries
  BY DEF S
<1> QED BY <1>2, <1>4, <1>5, <1>6, <1>7, Hits

\* A claim that is cut has cost the moved files an attempt.
LEMMA ClaimCutPromise ==
    ASSUME QInv, NEW b \in SUBSET Deliveries, ClaimCut(b)
    PROVE  Promise!Next
<1> USE TriggersAssumption DEF history, files, Off
<1>1. TypeOK /\ OneBatch /\ \A e \in Deliveries : Sound(e) /\ Copies(e)
  BY DEF QInv, IInv
<1>2. /\ faults' = faults + 1 /\ UNCHANGED <<trigger, answer, outcome, begun, failed, held>>
      /\ gateway = "idle" /\ gateway' = "down" /\ b \subseteq Files(inbox)
      /\ Cardinality(b) <= BatchSize
  BY DEF ClaimCut, Fault, Prefix, Moved
<1>3. ASSUME NEW e \in Deliveries
      PROVE  /\ held[e] = Gone /\ processing[e] = Gone /\ ~Running(e) /\ ~Running(e)'
             /\ processing'[e] = IF e \in b THEN inbox[e] ELSE Gone
             /\ inbox'[e] = IF e \in b THEN Gone ELSE inbox[e]
  BY <1>1, <1>2 DEF ClaimCut, Moved, Without, Files, Sound, Held, Running
<1> DEFINE S == {e \in b : Fate(e) \in {"queued", "turn"}}
<1>4. Cardinality(S) <= BatchSize
  <2>1. IsFiniteSet(b) /\ S \subseteq b
    BY FS_Subset
  <2> QED BY <1>2, <2>1, FS_Subset, FS_CardinalityType
<1>5. ASSUME NEW e \in S
      PROVE  /\ Fate(e) \in {"queued", "turn"} /\ Fate(e)' = After(e)
             /\ Lost(e)' = IF After(e) = "queued" THEN Lost(e) + 1 ELSE 0
  <2>1. inbox[e] # Gone /\ inbox[e] \in Nat /\ failed[e] = Gone /\ Attempts(e) = inbox[e]
    BY <1>1, <1>2, <1>3 DEF Files, TypeOK, Directory, Copies, Attempts
  <2>2. held'[e] = Gone /\ failed'[e] = Gone /\ inbox'[e] = Gone /\ processing'[e] = Attempts(e)
    BY <1>2, <1>3, <2>1
  <2> QED BY <1>1, <1>2, <2>1, <2>2, LosesOne
<1>6. ASSUME NEW e \in Deliveries \ S
      PROVE  Fate(e)' = Fate(e) /\ Lost(e)' = Lost(e)
  <2>1. CASE e \notin b
    <3>1. /\ inbox'[e] = inbox[e] /\ processing'[e] = processing[e] /\ failed'[e] = failed[e]
          /\ held'[e] = held[e] /\ answer'[e] = answer[e] /\ outcome'[e] = outcome[e]
      BY <1>2, <1>3, <2>1
    <3> QED BY <1>2, <1>3, <3>1, Stays
  <2>2. CASE e \in b
    <3>1. inbox[e] # Gone /\ failed[e] = Gone /\ Attempts(e) = inbox[e] /\ inbox[e] < MaxAttempts
          /\ inbox[e] \in Nat /\ answer[e] # "none" /\ outcome[e] = "none"
      BY <1>1, <1>2, <1>3, <2>2
         DEF Files, TypeOK, Directory, Copies, Attempts, Sound, Counts, Fresh, Held
    <3>2. Fate(e) = "withdrawn" /\ trigger[TriggerOf[e]] = "deleted"
      BY <1>3, <1>6, <2>2, <3>1 DEF Fate, Files
    <3>3. Fate(e)' = "withdrawn"
      BY <1>2, <1>3, <3>1, <3>2 DEF Fate
    <3> QED BY <3>2, <3>3 DEF Lost
  <2> QED BY <2>1, <2>2
<1> HIDE DEF S
<1>7. S \in SUBSET Deliveries
  BY DEF S
<1> QED BY <1>2, <1>4, <1>5, <1>6, <1>7, Hits

-----------------------------------------------------------------------------
\* A claim only moves files.
LEMMA ClaimPromise ==
    ASSUME QInv, NEW b \in SUBSET Deliveries, Claim(b)
    PROVE  UNCHANGED Promise!promised
<1> USE TriggersAssumption DEF history, Off
<1>1. ASSUME NEW e \in Deliveries  PROVE Fate(e)' = Fate(e) /\ Lost(e)' = Lost(e)
  <2>1. TypeOK /\ Sound(e) /\ Copies(e)
    BY DEF QInv, IInv
  <2>2. /\ gateway = "idle" /\ gateway' = "idle" /\ held[e] = Gone /\ processing[e] = Gone
        /\ UNCHANGED <<trigger, answer, outcome, failed>> /\ b \subseteq Files(inbox)
        /\ processing'[e] = IF e \in b THEN inbox[e] ELSE Gone
        /\ inbox'[e] = IF e \in b THEN Gone ELSE inbox[e]
        /\ held'[e] = IF e \in b THEN inbox[e] ELSE Gone
    BY <2>1 DEF Claim, Moved, Without, Prefix, Files, Sound, Held
  <2>3. ~Running(e) /\ ~Running(e)'
    BY <2>2 DEF Running
  <2>4. CASE e \notin b
    BY <2>2, <2>3, <2>4, Stays
  <2>5. CASE e \in b
    <3>1. inbox[e] # Gone /\ Attempts(e) = inbox[e] /\ Attempts(e)' = inbox[e]
      BY <2>2, <2>5 DEF Files, Attempts
    <3>2. Fate(e)' = Fate(e)
      BY <2>2, <2>3, <2>5, <3>1 DEF Fate, Files
    <3> QED BY <3>1, <3>2 DEF Lost
  <2> QED BY <2>4, <2>5
<1>2. UNCHANGED <<trigger, answer, begun, faults>>
  BY DEF Claim
<1> QED BY <1>1, <1>2, Quiet

\* Recovery writes down what the fault has cost.
LEMMA RecoverPromise ==
    ASSUME QInv, NEW d \in Deliveries, Recover(d) \/ RecoverCut(d)
    PROVE  [Promise!Next]_(Promise!promised)
<1> USE TriggersAssumption DEF history, Off
<1>1. TypeOK /\ Sound(d) /\ Copies(d)
  BY DEF QInv, IInv
<1>2. /\ UNCHANGED <<trigger, answer, outcome, begun, held>> /\ {gateway, gateway'} \cap {"turn", "stalled"} = {}
      /\ processing[d] # Gone /\ processing[d] \in 0..MaxAttempts
      /\ Retried(d, processing[d]) \/ RetryCut(d, processing[d])
      /\ gateway = "recovering"
  BY <1>1 DEF Recover, RecoverCut, First, Files, TypeOK, Directory
<1>3. \A e \in Deliveries : ~Running(e) /\ ~Running(e)'
  BY <1>2 DEF Running
<1>4. ASSUME NEW e \in Deliveries \ {d}  PROVE Fate(e)' = Fate(e) /\ Lost(e)' = Lost(e)
  BY <1>1, <1>2, <1>3, RetryKeeps, Stays
<1>5. Fate(d)' = Fate(d) /\ Lost(d)' = Lost(d)
  <2>1. held[d] = Gone /\ held'[d] = Gone
    BY <1>1, <1>2 DEF Sound, Held
  <2>2. Attempts(d) = processing[d] + 1
    BY <1>1, <1>2, <2>1 DEF Attempts, Copies
  <2>3. CASE processing[d] + 1 >= MaxAttempts
    <3>1. failed'[d] # Gone
      BY <1>1, <1>2, <2>3 DEF Retried, RetryCut, Rewritten, TypeOK, Directory
    <3>2. Fate(d)' = Fate(d) /\ Fate(d) \notin {"queued", "turn"}
      BY <1>1, <1>2, <1>3, <2>2, <2>3, <3>1 DEF Fate, TypeOK
    <3> QED BY <3>2 DEF Lost
  <2>4. CASE processing[d] + 1 < MaxAttempts
    <3>1. inbox'[d] = processing[d] + 1 /\ failed'[d] = failed[d]
      BY <1>1, <1>2, <2>4 DEF Retried, RetryCut, Rewritten, Counted, TypeOK, Directory
    <3>2. Attempts(d)' = Attempts(d) /\ inbox'[d] # Gone /\ failed[d] = Gone
      BY <1>1, <1>2, <2>1, <2>2, <2>4, <3>1 DEF Attempts, Copies
    <3>3. Fate(d)' = Fate(d)
      BY <1>2, <1>3, <3>1, <3>2 DEF Fate, Files
    <3> QED BY <3>2, <3>3 DEF Lost
  <2> QED BY <1>2, <2>3, <2>4
<1>6. \A e \in Deliveries : Fate(e)' = Fate(e) /\ Lost(e)' = Lost(e)
  BY <1>4, <1>5
<1>7. faults' = faults \/ faults' = faults + 1
  BY DEF Recover, RecoverCut, Fault
<1> QED BY <1>2, <1>6, <1>7, Quiet, HitsNothing

\* A turn begins only for the first claimed delivery, while its trigger is on.
LEMMA BeginPromise ==
    ASSUME QInv, NEW d \in Deliveries, Begin(d)
    PROVE  Promise!Next
<1> USE TriggersAssumption DEF history, files, Off
<1>1. /\ UNCHANGED <<trigger, inbox, processing, failed, held, answer, outcome, faults>>
      /\ gateway = "idle" /\ gateway' = "turn" /\ First(d, Files(held)) /\ held[d] # Gone
      /\ begun' = [begun EXCEPT ![d] = @ + 1] /\ Deliverable(d)
  BY DEF Begin, First, Files
<1>2. \A e \in Deliveries : ~Running(e)
  BY <1>1 DEF Running
<1>3. ASSUME NEW e \in Deliveries \ {d}  PROVE Fate(e)' = Fate(e) /\ Lost(e)' = Lost(e)
  <2>1. ~Running(e)'
    BY <1>1, OneFirst DEF Running, First, Files
  <2> QED BY <1>1, <1>2, <2>1, Stays
<1>4. Fate(d) = "queued" /\ Fate(d)' = "turn" /\ Lost(d)' = Lost(d)
  <2>1. answer[d] # "none" /\ outcome[d] = "none" /\ Fate(d) = "queued"
    BY <1>1, <1>2, ClaimedStands DEF Deliverable
  <2>2. Running(d)'
    BY <1>1 DEF Running, First, Files
  <2>3. Fate(d)' = "turn"
    BY <1>1, <2>1, <2>2 DEF Fate
  <2> QED BY <1>1, <2>1, <2>3 DEF Lost, Attempts
<1>5. \A e \in Deliveries : Fate(e) # "turn"
  <2>1. \A e \in Deliveries : outcome[e] # "turn"
    BY DEF QInv, IInv, TypeOK
  <2> QED BY <1>2, <2>1 DEF Fate
<1>6. Fates' = [Fates EXCEPT ![d] = "turn"] /\ Losses' = Losses
  BY <1>3, <1>4, Moves
<1>7. Promise!Begin(d)
  BY <1>1, <1>4, <1>5, <1>6
     DEF Promise!Begin, Promise!Becomes, Promise!Deliverable, Deliverable, Fates, Losses
<1> QED BY <1>7 DEF Promise!Next

\* What is dropped waited, and had a reason; what has ended had its turn.
LEMMA SettlePromise ==
    ASSUME QInv, NEW d \in Deliveries, Drop(d) \/ End(d, "ok") \/ End(d, "error")
    PROVE  Promise!Next
<1> USE TriggersAssumption DEF history, Off
<1>1. TypeOK /\ answer[d] # "none" /\ held[d] # Gone
  BY ClaimedStands DEF QInv, IInv, Drop, End, First, Files
<1>2. /\ UNCHANGED <<trigger, answer, begun, faults>> /\ gateway' = "idle"
      /\ First(d, Files(held))
      /\ \A e \in Deliveries \ {d} :
            UNCHANGED <<inbox[e], processing[e], failed[e], held[e], outcome[e]>>
  BY <1>1 DEF Drop, End, Completed, TypeOK, Directory
<1>3. ASSUME NEW e \in Deliveries \ {d}  PROVE Fate(e)' = Fate(e) /\ Lost(e)' = Lost(e)
  <2>1. ~Running(e) /\ ~Running(e)'
    BY <1>2, OneFirst DEF Running
  <2> QED BY <1>2, <2>1, Stays
<1>4. ASSUME NEW how \in {"ok", "error", "dropped"}, outcome' = [outcome EXCEPT ![d] = how]
      PROVE  Fates' = [Fates EXCEPT ![d] = how] /\ Losses' = [Losses EXCEPT ![d] = 0]
  <2>1. Fate(d)' = how
    BY <1>1, <1>2, <1>4 DEF Fate, TypeOK
  <2>2. Lost(d)' = 0
    BY <2>1 DEF Lost
  <2> QED BY <1>3, <2>1, <2>2, Moves
<1>5. CASE Drop(d)
  <2>1. outcome' = [outcome EXCEPT ![d] = "dropped"] /\ gateway = "idle" /\ ~Deliverable(d)
    BY <1>5 DEF Drop, Completed
  <2>2. Fate(d) \in {"queued", "withdrawn"}
    BY <1>1, <2>1, ClaimedStands DEF Running
  <2>3. Promise!Drop(d)
    BY <1>2, <1>4, <2>1, <2>2 DEF Promise!Drop, Promise!Settles, Promise!Becomes,
       Promise!Deliverable, Deliverable, Fates, Losses
  <2> QED BY <2>3 DEF Promise!Next
<1>6. ASSUME NEW how \in {"ok", "error"}, End(d, how)  PROVE Promise!Next
  <2>1. outcome' = [outcome EXCEPT ![d] = how] /\ Running(d)
    BY <1>6 DEF End, Completed, Running
  <2>2. Fate(d) = "turn"
    BY <1>1, <2>1, ClaimedStands
  <2>3. Promise!End(d)
    BY <1>2, <1>4, <2>1, <2>2 DEF Promise!End, Promise!Settles, Promise!Becomes, Fates, Losses
  <2> QED BY <2>3 DEF Promise!Next
<1> QED BY <1>5, <1>6

-----------------------------------------------------------------------------
\* Creating a trigger, or switching it, moves no delivery.
LEMMA SwitchPromise ==
    ASSUME QInv, NEW t \in Triggers, Create(t) \/ Enable(t, "on") \/ Enable(t, "off")
    PROVE  Promise!Next
<1> USE DEF history, files
<1>1. /\ UNCHANGED <<inbox, processing, failed, gateway, held, answer, outcome, begun, faults>>
      /\ \/ trigger[t] = "none" /\ trigger' = [trigger EXCEPT ![t] = "on"]
         \/ trigger[t] = "on" /\ trigger' = [trigger EXCEPT ![t] = "off"]
         \/ trigger[t] = "off" /\ trigger' = [trigger EXCEPT ![t] = "on"]
  BY DEF Create, Enable
<1>2. \A e \in Deliveries :
         trigger'[TriggerOf[e]] = "deleted" <=> trigger[TriggerOf[e]] = "deleted"
  BY <1>1, TriggersAssumption DEF QInv, IInv, TypeOK
<1>3. ASSUME NEW e \in Deliveries  PROVE Fate(e)' = Fate(e) /\ Lost(e)' = Lost(e)
  <2>1. Running(e)' <=> Running(e)
    BY <1>1 DEF Running, First, Files
  <2> QED BY <1>1, <1>2, <2>1, Stays
<1>4. Fates' = Fates /\ Losses' = Losses
  BY <1>3 DEF Fates, Losses
<1>5. Promise!Switch(t)
  BY <1>1, <1>4 DEF Promise!Switch, Fates, Losses
<1> QED BY <1>5 DEF Promise!Next

\* Deleting a trigger withdraws what waits for it, whichever of its files are
\* left behind, and nothing else.
LEMMA DeletePromise ==
    ASSUME QInv, NEW t \in Triggers, Delete(t) \/ DeleteCut(t)
    PROVE  Promise!Next
<1> USE TriggersAssumption DEF history
<1>1. TypeOK
  BY DEF QInv, IInv
<1>2. /\ UNCHANGED <<gateway, held, answer, outcome, begun>>
      /\ trigger[t] \in {"on", "off"} /\ trigger' = [trigger EXCEPT ![t] = "deleted"]
      /\ faults' \in {faults, faults + 1}
  BY DEF Delete, DeleteCut, Fault
<1>3. ASSUME NEW e \in Deliveries  PROVE Running(e)' <=> Running(e)
  BY <1>2 DEF Running, First, Files
<1>4. ASSUME NEW e \in Deliveries, TriggerOf[e] # t
      PROVE  Fate(e)' = Fate(e) /\ Lost(e)' = Lost(e)
  <2>1. inbox'[e] = inbox[e] /\ processing'[e] = processing[e] /\ failed'[e] = failed[e]
    BY <1>4 DEF Delete, DeleteCut, Without, Of
  <2>2. trigger'[TriggerOf[e]] = trigger[TriggerOf[e]]
    BY <1>1, <1>2, <1>4 DEF TypeOK
  <2> QED BY <1>2, <1>3, <2>1, <2>2, Stays
<1>5. ASSUME NEW e \in Deliveries, TriggerOf[e] = t
      PROVE  IF Fate(e) \in {"queued", "failed", "refused"}
             THEN Fate(e)' = "withdrawn" /\ Lost(e)' = 0
             ELSE Fate(e)' = Fate(e) /\ Lost(e)' = Lost(e)
  <2>1. trigger[TriggerOf[e]] # "deleted" /\ trigger'[TriggerOf[e]] = "deleted"
    BY <1>1, <1>2, <1>5 DEF TypeOK
  <2>2. CASE answer[e] = "none" \/ outcome[e] # "none"
    <3>1. Fate(e)' = Fate(e) /\ Fate(e) \notin {"queued", "turn", "failed", "refused"}
      BY <1>1, <1>2, <2>2 DEF Fate, TypeOK
    <3> QED BY <3>1 DEF Lost
  <2>3. CASE answer[e] # "none" /\ outcome[e] = "none" /\ Running(e)
    <3>1. Fate(e)' = "turn" /\ Fate(e) = "turn"
      BY <1>2, <1>3, <2>3 DEF Fate
    <3>2. held[e] # Gone
      BY <2>3 DEF Running, First, Files
    <3> QED BY <1>2, <3>1, <3>2 DEF Lost, Attempts
  <2>4. CASE answer[e] # "none" /\ outcome[e] = "none" /\ ~Running(e)
    <3>1. Fate(e)' = "withdrawn" /\ Fate(e) \in {"queued", "failed", "refused"}
      BY <1>2, <1>3, <2>1, <2>4 DEF Fate
    <3> QED BY <3>1 DEF Lost
  <2> QED BY <2>2, <2>3, <2>4
<1>6. \A e \in Deliveries : e \in Promise!Withdrawn(t) <=>
         TriggerOf[e] = t /\ Fate(e) \in {"queued", "failed", "refused"}
  BY DEF Promise!Withdrawn
<1>7. Fates' = [e \in Deliveries |-> IF e \in Promise!Withdrawn(t) THEN "withdrawn" ELSE Fates[e]]
  BY <1>4, <1>5, <1>6 DEF Fates
<1>8. Losses' = [e \in Deliveries |-> IF e \in Promise!Withdrawn(t) THEN 0 ELSE Losses[e]]
  BY <1>4, <1>5, <1>6 DEF Losses
<1>9. Promise!Delete(t)
  BY <1>2, <1>7, <1>8, Zenon DEF Promise!Delete, Fates, Losses
<1> QED BY <1>9 DEF Promise!Next

\* Sending puts a delivery in the queue; a failed sending may.
LEMMA SendPromise ==
    ASSUME QInv, NEW d \in Deliveries, Enqueue(d) \/ EnqueueCut(d)
    PROVE  Promise!Next
<1> USE TriggersAssumption DEF history
<1>1. TypeOK /\ Sound(d) /\ Copies(d)
  BY DEF QInv, IInv
<1>2. /\ UNCHANGED <<trigger, processing, failed, gateway, held, outcome, begun>>
      /\ answer[d] = "none" /\ trigger[TriggerOf[d]] = "on"
      /\ \A e \in Deliveries \ {d} : inbox'[e] = inbox[e] /\ answer'[e] = answer[e]
  BY <1>1 DEF Enqueue, EnqueueCut, MayEnqueue, TypeOK, Directory
<1>3. ASSUME NEW e \in Deliveries  PROVE Running(e)' <=> Running(e)
  BY <1>2 DEF Running, First, Files
<1>4. ASSUME NEW e \in Deliveries \ {d}  PROVE Fate(e)' = Fate(e) /\ Lost(e)' = Lost(e)
  BY <1>2, <1>3, Stays
<1>5. /\ Fate(d) = "unsent" /\ inbox[d] = Gone /\ processing[d] = Gone /\ held[d] = Gone
      /\ failed[d] = Gone /\ outcome[d] = "none" /\ ~Running(d)
  BY <1>1, <1>2 DEF Fate, Sound, Fresh, Copies, Running, First, Files
<1>6. ASSUME answer'[d] # "none", inbox'[d] \in {0, Gone}
      PROVE  /\ Fate(d)' = IF inbox'[d] = 0 THEN "queued" ELSE "refused"
             /\ Lost(d)' = Lost(d)
  <2>1. Attempts(d)' = 0 /\ 0 < MaxAttempts /\ 0 # Gone
    BY <1>2, <1>5, <1>6 DEF Attempts
  <2>2. Fate(d)' = IF inbox'[d] = 0 THEN "queued" ELSE "refused"
    BY <1>2, <1>3, <1>5, <1>6, <2>1 DEF Fate, Files
  <2> QED BY <1>5, <2>1, <2>2 DEF Lost
<1>7. CASE Enqueue(d)
  <2>1. inbox'[d] = 0 /\ answer' = [answer EXCEPT ![d] = "queued"] /\ faults' = faults
        /\ answer'[d] # "none"
    BY <1>1, <1>7 DEF Enqueue, TypeOK, Directory
  <2>2. Fates' = [Fates EXCEPT ![d] = "queued"] /\ Losses' = Losses
    BY <1>4, <1>6, <2>1, Moves
  <2>3. Promise!Send(d)
    BY <1>2, <1>5, <2>1, <2>2 DEF Promise!Send, Promise!Sendable, Promise!Becomes, Fates, Losses
  <2> QED BY <2>3 DEF Promise!Next
<1>8. CASE EnqueueCut(d)
  <2>1. /\ inbox'[d] \in {0, Gone} /\ answer' = [answer EXCEPT ![d] = "error"]
        /\ faults' = faults + 1 /\ answer'[d] # "none"
    BY <1>1, <1>5, <1>8 DEF EnqueueCut, Fault, TypeOK, Directory
  <2>2. /\ \/ Fates' = [Fates EXCEPT ![d] = "queued"]
           \/ Fates' = [Fates EXCEPT ![d] = "refused"]
        /\ Losses' = Losses
    BY <1>4, <1>6, <2>1, Moves
  <2>3. Promise!SendFails(d)
    BY <1>2, <1>5, <2>1, <2>2
       DEF Promise!SendFails, Promise!Sendable, Promise!Becomes, Fates, Losses
  <2> QED BY <2>3 DEF Promise!Next
<1> QED BY <1>7, <1>8

\* That the gateway comes up moves nothing.
LEMMA PhasePromise ==
    ASSUME Start \/ BeginRecovery \/ Recovered \/ Stall
    PROVE  UNCHANGED Promise!promised
<1> USE DEF history, files
<1>1. /\ UNCHANGED <<trigger, inbox, processing, failed, held, answer, outcome, begun, faults>>
      /\ gateway \in {"turn", "stalled"} <=> gateway' \in {"turn", "stalled"}
  BY DEF Start, BeginRecovery, Recovered, Stall
<1>2. \A e \in Deliveries : Running(e)' <=> Running(e)
  BY <1>1 DEF Running, First, Files
<1> QED BY <1>1, <1>2, Stays, Quiet

LEMMA NextPromise ==
    ASSUME QInv, [Next]_vars
    PROVE  [Promise!Next]_(Promise!promised)
<1>1. ASSUME NEW t \in Triggers, Commands(t)  PROVE Promise!Next
  BY <1>1, SwitchPromise, DeletePromise DEF Commands
<1>2. ASSUME NEW d \in Deliveries, Enqueue(d) \/ EnqueueCut(d)  PROVE Promise!Next
  BY <1>2, SendPromise
<1>3. ASSUME NEW d \in Deliveries, Runner(d)  PROVE [Promise!Next]_(Promise!promised)
  BY <1>3, RecoverPromise, SettlePromise, BeginPromise, FaultPromise DEF Runner
<1>4. ASSUME NEW b \in SUBSET Deliveries, Claim(b) \/ ClaimCut(b)
      PROVE  [Promise!Next]_(Promise!promised)
  BY <1>4, ClaimPromise, ClaimCutPromise
<1>5. Start \/ BeginRecovery \/ Recovered \/ Stall \/ Crash => [Promise!Next]_(Promise!promised)
  BY PhasePromise, FaultPromise
<1>6. CASE UNCHANGED vars
  <2>1. \A e \in Deliveries : Fate(e)' = Fate(e) /\ Lost(e)' = Lost(e)
    BY <1>6 DEF vars, files, history, Fate, Lost, Attempts, Running, First, Files
  <2> QED BY <1>6, <2>1, Quiet DEF vars, history
<1> QED BY <1>1, <1>2, <1>3, <1>4, <1>5, <1>6 DEF Next

LEMMA InitPromise == Init => Promise!Init
<1> SUFFICES ASSUME Init  PROVE Promise!Init
  OBVIOUS
<1>1. \A d \in Deliveries : Fate(d) = "unsent" /\ Lost(d) = 0
  BY DEF Init, Fate, Lost
<1> QED BY <1>1 DEF Init, Promise!Init

\* The queue implements TriggerQueue: whatever is killed between whichever two
\* writes, a delivery stands in one place for its sender, gets one turn at a
\* time, and loses exactly one attempt to a fault that hits its batch.
THEOREM QueueIsFaithful == Spec => QueueKeepsFaith
<1>1. QInv /\ [Next]_vars => [Promise!Next]_(Promise!promised)
  BY NextPromise
<1>2. Spec => Promise!Init /\ [][Promise!Next]_(Promise!promised)
  BY <1>1, InitPromise, InitQueue, NextQueue, PTL DEF Spec
<1> QED BY <1>2 DEF QueueKeepsFaith, Promise!Spec
=============================================================================
