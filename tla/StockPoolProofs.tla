--------------------------- MODULE StockPoolProofs ---------------------------
(***************************************************************************)
(* Proofs about StockPool for any number of SKUs, calls and keys and any    *)
(* limits.  The invariant is built up in three layers: the shapes of the    *)
(* tables and of what calls hold (Sound), what the ledger and the callers   *)
(* know of the pools (Explained), and which call owns a key's row (Keyed).  *)
(***************************************************************************)
EXTENDS StockPool, TLAPS

MovementOperations == {"inventory.adjust", "inventory.correct"}

ReservationOperations == {"inventory.reserve", "inventory.release"}

\* What a call holds agrees with the operation it is, and an activation about to
\* be inserted was accepted.
Fits(x) ==
  \/ x = Idle
  \/ /\ x \in MoveTasks
     /\ x.id[2] \in MovementOperations
     /\ x.pc = "create" =>
          /\ x.print.version = 0
          /\ MovementPermitted(InitialPool, x.print.movement)
  \/ x \in ReservationTasks /\ x.id[2] \in ReservationOperations
  \/ x \in CompleteTasks

Sound ==
  /\ TypeOK
  /\ NeverOversold
  /\ \A s \in Skus : pool[s].version = 0 => pool[s] = NoPool
  /\ \A t \in Calls : Fits(task[t])

-------------------------------------------------------------------------------

\* The step a call is at says what it holds.
LEMMA TaskShapes ==
  ASSUME NEW x, Fits(x)
  PROVE  /\ x = Idle <=> x.pc = "idle"
         /\ x.pc = "acquire" =>
              \/ x \in MoveTasks /\ x.id[2] \in MovementOperations
              \/ x \in ReservationTasks /\ x.id[2] \in ReservationOperations
         /\ x.pc \in {"move", "create", "abandon"} =>
              x \in MoveTasks /\ x.id[2] \in MovementOperations
         /\ x.pc \in ReservationOperations =>
              x \in ReservationTasks /\ x.id[2] \in ReservationOperations
         /\ x.pc = "complete" => x \in CompleteTasks
         /\ x.pc = "create" =>
              /\ x.print.version = 0
              /\ MovementPermitted(InitialPool, x.print.movement)
         /\ x # Idle => x.id \in IdemKeys
  BY DEF Fits, Idle, MoveTasks, ReservationTasks, CompleteTasks,
         ReservationOperations, MovementOperations

LEMMA PoolShapes ==
  /\ NoPool \in Pools
  /\ InitialPool \in Pools
  BY UnitsAssumption DEF NoPool, InitialPool, Pools, Units

\* The pools the policy makes from a pool.
LEMMA ChangedPool ==
  ASSUME NEW p \in Pools, NEW u \in Units, NEW v \in Nat
  PROVE  /\ [p EXCEPT !.onHand = u, !.version = v] \in Pools
         /\ [p EXCEPT !.reserved = u, !.version = v] \in Pools
  BY DEF Pools

\* An accepted movement leaves a pool that is not oversold, one version on.
LEMMA MovedPool ==
  ASSUME NEW p \in Pools, NEW m \in Movements, MovementPermitted(p, m)
  PROVE  /\ Moved(p, m) \in Pools
         /\ Moved(p, m).reserved = p.reserved
         /\ Moved(p, m).onHand = Resulting(p.onHand, m)
         /\ Moved(p, m).reserved <= Moved(p, m).onHand
         /\ Moved(p, m).version = p.version + 1
         /\ RecordedDelta(p.onHand, m) \in Deltas
<1>1. /\ p.version + 1 \in Nat
      /\ Resulting(p.onHand, m) \in Units
      /\ p.reserved <= Resulting(p.onHand, m)
      /\ RecordedDelta(p.onHand, m) \in Deltas
  BY DEF MovementPermitted, Pools
<1>2. Moved(p, m) \in Pools
  BY <1>1, ChangedPool DEF Moved
<1>3. /\ Moved(p, m).reserved = p.reserved
      /\ Moved(p, m).onHand = Resulting(p.onHand, m)
      /\ Moved(p, m).version = p.version + 1
  BY DEF Moved, Pools
<1>4. QED
  BY <1>1, <1>2, <1>3

LEMMA RaisedPool ==
  ASSUME NEW p \in Pools, NEW q \in Deltas, ReservePermitted(p, q)
  PROVE  /\ Raised(p, q) \in Pools
         /\ Raised(p, q).onHand = p.onHand
         /\ Raised(p, q).reserved = p.reserved + q
         /\ Raised(p, q).reserved <= p.onHand
         /\ Raised(p, q).version = p.version + 1
<1>1. p.onHand \in Units /\ p.reserved \in Units /\ p.version \in Nat
  BY DEF Pools
<1>2. p.reserved + q <= p.onHand /\ p.reserved + q \in Units /\ p.version + 1 \in Nat
  BY <1>1, UnitsAssumption DEF ReservePermitted, Available, Units, Deltas
<1>3. Raised(p, q) \in Pools
  BY <1>2, ChangedPool DEF Raised
<1>4. /\ Raised(p, q).onHand = p.onHand
      /\ Raised(p, q).reserved = p.reserved + q
      /\ Raised(p, q).version = p.version + 1
  BY DEF Raised, Pools
<1>5. QED
  BY <1>2, <1>3, <1>4

LEMMA LoweredPool ==
  ASSUME NEW p \in Pools, NEW q \in Deltas, ReleasePermitted(p, q)
  PROVE  /\ Lowered(p, q) \in Pools
         /\ Lowered(p, q).onHand = p.onHand
         /\ Lowered(p, q).reserved = p.reserved - q
         /\ Lowered(p, q).reserved <= p.reserved
         /\ Lowered(p, q).version = p.version + 1
<1>1. p.onHand \in Units /\ p.reserved \in Units /\ p.version \in Nat
  BY DEF Pools
<1>2. p.reserved - q <= p.reserved /\ p.reserved - q \in Units /\ p.version + 1 \in Nat
  BY <1>1, UnitsAssumption DEF ReleasePermitted, Units, Deltas
<1>3. Lowered(p, q) \in Pools
  BY <1>2, ChangedPool DEF Lowered
<1>4. /\ Lowered(p, q).onHand = p.onHand
      /\ Lowered(p, q).reserved = p.reserved - q
      /\ Lowered(p, q).version = p.version + 1
  BY DEF Lowered, Pools
<1>5. QED
  BY <1>2, <1>3, <1>4

-------------------------------------------------------------------------------

\* Only the call that steps changes what it holds.
LEMMA TaskStep ==
  ASSUME Sound, NEW t \in Calls, NEW x, Fits(x), task' = [task EXCEPT ![t] = x]
  PROVE  /\ task' \in [Calls -> {Idle} \cup MoveTasks \cup ReservationTasks
                                 \cup CompleteTasks]
         /\ \A u \in Calls : Fits(task'[u])
<1>1. task \in [Calls -> {Idle} \cup MoveTasks \cup ReservationTasks
                          \cup CompleteTasks]
  BY DEF Sound, TypeOK
<1>2. x \in {Idle} \cup MoveTasks \cup ReservationTasks \cup CompleteTasks
  BY DEF Fits
<1>3. \A u \in Calls : Fits(task[u])
  BY DEF Sound
<1>4. \A u \in Calls : task'[u] = IF u = t THEN x ELSE task[u]
  BY <1>1
<1>5. QED
  BY <1>1, <1>2, <1>3, <1>4

LEMMA FinishStep ==
  ASSUME Sound, NEW t \in Calls, Finish(t)
  PROVE  /\ task' \in [Calls -> {Idle} \cup MoveTasks \cup ReservationTasks
                                 \cup CompleteTasks]
         /\ \A u \in Calls : Fits(task'[u])
<1>1. Fits(Idle)
  BY DEF Fits
<1>2. QED
  BY <1>1, TaskStep DEF Finish

LEMMA ConcludeStep ==
  ASSUME Sound, NEW t \in Calls, NEW result \in Results,
         task[t].id \in IdemKeys, task[t].print \in Prints, Conclude(t, result)
  PROVE  /\ task' \in [Calls -> {Idle} \cup MoveTasks \cup ReservationTasks
                                 \cup CompleteTasks]
         /\ \A u \in Calls : Fits(task'[u])
<1> DEFINE x == IF task[t].id[3] = NoKey THEN Idle
                ELSE [pc |-> "complete", id |-> task[t].id, print |-> task[t].print,
                      result |-> result]
<1>1. Fits(x)
  BY DEF Fits, CompleteTasks
<1>2. task' = [task EXCEPT ![t] = x]
  BY DEF Conclude
<1>3. QED
  BY <1>1, <1>2, TaskStep

\* A call that goes on with its movement.
LEMMA GotoStep ==
  ASSUME Sound, NEW t \in Calls, NEW step, Goto(t, step),
         \/ /\ task[t] \in MoveTasks /\ task[t].id[2] \in MovementOperations
            /\ step \in {"move", "create", "abandon"}
            /\ step = "create" =>
                 /\ task[t].print.version = 0
                 /\ MovementPermitted(InitialPool, task[t].print.movement)
         \/ /\ task[t] \in ReservationTasks
            /\ task[t].id[2] \in ReservationOperations
            /\ step \in ReservationOperations
  PROVE  /\ task' \in [Calls -> {Idle} \cup MoveTasks \cup ReservationTasks
                                 \cup CompleteTasks]
         /\ \A u \in Calls : Fits(task'[u])
<1> DEFINE x == [task[t] EXCEPT !.pc = step]
<1>1. Fits(x)
  BY DEF Fits, MoveTasks, ReservationTasks, ReservationOperations
<1>2. task' = [task EXCEPT ![t] = x]
  BY DEF Goto
<1>3. QED
  BY <1>1, <1>2, TaskStep

\* An accepted movement is applied to p, the pool of the call's SKU or the one an
\* activation starts from.
LEMMA RecordStep ==
  ASSUME Sound, NEW t \in Calls, task[t] \in MoveTasks,
         NEW p \in Pools, MovementPermitted(p, task[t].print.movement),
         Record(t, p)
  PROVE  /\ pool' \in [Skus -> Pools]
         /\ ledger' \in [Skus -> Seq(Entries)]
         /\ \A s \in Skus :
              /\ pool'[s].reserved <= pool'[s].onHand
              /\ pool'[s].version = 0 => pool'[s] = NoPool
<1> DEFINE m == task[t].print.movement
           q == Moved(p, m)
           e == [movement |-> m, delta |-> RecordedDelta(p.onHand, m),
                 resultingOnHand |-> q.onHand, resultingReserved |-> q.reserved,
                 version |-> q.version, id |-> task[t].id, seen |-> task[t].seen]
<1>1. /\ m \in Movements /\ task[t].id \in IdemKeys /\ task[t].seen \in Pools
      /\ Sku(t) \in Skus
  BY DEF MoveTasks, IdemKeys, Sku
<1>2. /\ q \in Pools /\ q.reserved <= q.onHand /\ q.version = p.version + 1
      /\ RecordedDelta(p.onHand, m) \in Deltas
  BY <1>1, MovedPool
<1>3. q.version # 0 /\ q.onHand \in Units /\ q.reserved \in Units /\ q.version \in Nat
  BY <1>2 DEF Pools
<1>4. e \in Entries
  BY <1>1, <1>2, <1>3 DEF Entries
<1>5. pool' = [pool EXCEPT ![Sku(t)] = q]
  BY DEF Record
<1>6. ledger' = [ledger EXCEPT ![Sku(t)] = Append(ledger[Sku(t)], e)]
  BY DEF Record
<1>7. /\ pool \in [Skus -> Pools] /\ ledger \in [Skus -> Seq(Entries)]
      /\ \A s \in Skus : /\ pool[s].reserved <= pool[s].onHand
                         /\ pool[s].version = 0 => pool[s] = NoPool
  BY DEF Sound, TypeOK, NeverOversold
<1>8. ledger' \in [Skus -> Seq(Entries)]
  <2>1. Append(ledger[Sku(t)], e) \in Seq(Entries)
    BY <1>1, <1>4, <1>7
  <2>2. QED
    BY <2>1, <1>6, <1>7
<1>9. QED
  BY <1>1, <1>2, <1>3, <1>5, <1>7, <1>8

-------------------------------------------------------------------------------

\* A row inserted or completed is a row of the table.
LEMMA RowStep ==
  ASSUME Sound, NEW id \in IdemKeys,
         NEW row \in Rows(Calls, Prints, Results),
         record' = [record EXCEPT ![id] = row]
  PROVE  record' \in [IdemKeys -> Rows(Calls, Prints, Results)]
  BY DEF Sound, TypeOK

LEMMA SoundInit == Init => Sound
<1> SUFFICES ASSUME Init PROVE Sound
  OBVIOUS
<1>1. /\ pool \in [Skus -> Pools]
      /\ \A s \in Skus : pool[s] = NoPool
  BY PoolShapes DEF Init
<1>2. ledger \in [Skus -> Seq(Entries)]
  BY DEF Init
<1>3. record \in [IdemKeys -> Rows(Calls, Prints, Results)]
  BY DEF Init, Rows
<1>4. /\ task \in [Calls -> {Idle} \cup MoveTasks \cup ReservationTasks
                             \cup CompleteTasks]
      /\ \A t \in Calls : Fits(task[t])
  BY DEF Init, Fits
<1>5. NeverOversold
  BY <1>1 DEF NeverOversold, NoPool
<1>6. QED
  BY <1>1, <1>2, <1>3, <1>4, <1>5 DEF Sound, TypeOK

LEMMA SoundNext == Sound /\ [Next]_vars => Sound'
<1> SUFFICES ASSUME Sound, [Next]_vars PROVE Sound'
  OBVIOUS
<1> DEFINE TasksFit == /\ task' \in [Calls -> {Idle} \cup MoveTasks
                                       \cup ReservationTasks \cup CompleteTasks]
                       /\ \A u \in Calls : Fits(task'[u])
           PoolsFit == /\ pool' \in [Skus -> Pools]
                       /\ ledger' \in [Skus -> Seq(Entries)]
                       /\ \A s \in Skus :
                            /\ pool'[s].reserved <= pool'[s].onHand
                            /\ pool'[s].version = 0 => pool'[s] = NoPool
           RowsFit == record' \in [IdemKeys -> Rows(Calls, Prints, Results)]
<1>a. ASSUME TasksFit, PoolsFit, RowsFit PROVE Sound'
  BY <1>a DEF Sound, TypeOK, NeverOversold
<1>b. ASSUME UNCHANGED <<pool, ledger>> PROVE PoolsFit
  BY <1>b DEF Sound, TypeOK, NeverOversold
<1>c. ASSUME UNCHANGED record PROVE RowsFit
  BY <1>c DEF Sound, TypeOK
<1>d. \A t \in Calls : Fits(task[t])
  BY DEF Sound
<1>e. \A s \in Skus : pool[s] \in Pools
  BY DEF Sound, TypeOK
<1> HIDE DEF TasksFit, PoolsFit, RowsFit
<1>1. ASSUME NEW t \in Calls, NEW s \in Skus, NEW movement \in Movements,
             NEW k \in Keys, RequestMovement(t, s, movement, k)
      PROVE  Sound'
  <2> DEFINE op == IF movement.type = "COUNT_CORRECTION" THEN "inventory.correct"
                   ELSE "inventory.adjust"
             x == [pc |-> "acquire", id |-> <<s, op, k>>,
                   print |-> [movement |-> movement, version |-> pool[s].version],
                   seen |-> pool[s]]
  <2>1. op \in Operations /\ op \in MovementOperations
    BY DEF Operations, MovementOperations
  <2> HIDE DEF op
  <2>2. <<s, op, k>> \in IdemKeys
    BY <2>1 DEF IdemKeys
  <2>3. pool[s].version \in Nat
    BY <1>e DEF Pools
  <2>4. x \in MoveTasks /\ x.id[2] = op /\ x.pc # "create"
    BY <1>e, <2>2, <2>3 DEF MoveTasks
  <2>5. Fits(x)
    BY <2>1, <2>4 DEF Fits
  <2>6. task' = [task EXCEPT ![t] = x]
    BY <1>1 DEF RequestMovement, op
  <2>7. TasksFit
    BY <2>5, <2>6, TaskStep DEF TasksFit
  <2>8. QED
    BY <1>1, <2>7, <1>a, <1>b, <1>c DEF RequestMovement
<1>2. ASSUME NEW t \in Calls, NEW s \in Skus, NEW operation \in Operations,
             NEW quantity \in Deltas, NEW k \in Keys \cup {NoKey},
             RequestReservation(t, s, operation, quantity, k)
      PROVE  Sound'
  <2> DEFINE step == IF k = NoKey THEN operation ELSE "acquire"
             x == [pc |-> step, id |-> <<s, operation, k>>,
                   print |-> [quantity |-> quantity]]
  <2>1. operation \in ReservationOperations /\ step \in {"acquire"} \cup ReservationOperations
    BY <1>2 DEF RequestReservation, ReservationOperations
  <2> HIDE DEF step
  <2>2. <<s, operation, k>> \in IdemKeys
    BY DEF IdemKeys
  <2>3. x \in ReservationTasks /\ x.id[2] = operation
    BY <2>1, <2>2 DEF ReservationTasks, ReservationOperations
  <2>4. Fits(x)
    BY <2>1, <2>3 DEF Fits
  <2>5. task' = [task EXCEPT ![t] = x]
    BY <1>2 DEF RequestReservation, step
  <2>6. TasksFit
    BY <2>4, <2>5, TaskStep DEF TasksFit
  <2>7. QED
    BY <1>2, <2>6, <1>a, <1>b, <1>c DEF RequestReservation
<1>3. ASSUME NEW t \in Calls, Acquire(t) PROVE Sound'
  <2>1. \/ task[t] \in MoveTasks /\ task[t].id[2] \in MovementOperations
        \/ task[t] \in ReservationTasks /\ task[t].id[2] \in ReservationOperations
    BY <1>3, <1>d, TaskShapes DEF Acquire
  <2>2. task[t].id \in IdemKeys /\ task[t].print \in Prints
    BY <2>1 DEF MoveTasks, ReservationTasks, Prints
  <2>3. CASE /\ record' = [record EXCEPT ![task[t].id] = Processing(t, task[t].print)]
             /\ Goto(t, IF Operation(t) \in {"inventory.reserve", "inventory.release"}
                          THEN Operation(t) ELSE "move")
    <3>1. Processing(t, task[t].print) \in Rows(Calls, Prints, Results)
      BY <2>2 DEF Processing, Rows
    <3>2. RowsFit
      BY <2>2, <2>3, <3>1, RowStep DEF RowsFit
    <3>3. TasksFit
      <4> DEFINE step == IF Operation(t) \in {"inventory.reserve", "inventory.release"}
                           THEN Operation(t) ELSE "move"
      <4>1. \/ /\ task[t] \in MoveTasks /\ task[t].id[2] \in MovementOperations
               /\ step = "move"
            \/ /\ task[t] \in ReservationTasks
               /\ task[t].id[2] \in ReservationOperations
               /\ step \in ReservationOperations
        BY <2>1 DEF Operation, MovementOperations, ReservationOperations
      <4>2. Goto(t, step)
        BY <2>3
      <4> HIDE DEF step
      <4>3. QED
        BY <4>1, <4>2, GotoStep DEF TasksFit
    <3>4. QED
      BY <1>3, <3>2, <3>3, <1>a, <1>b DEF Acquire
  <2>4. CASE Finish(t) /\ UNCHANGED record
    BY <1>3, <2>4, FinishStep, <1>a, <1>b, <1>c DEF Acquire, TasksFit
  <2>5. QED
    BY <1>3, <2>3, <2>4 DEF Acquire
<1>4. ASSUME NEW t \in Calls, FindNoPool(t) PROVE Sound'
  <2>1. task[t] \in MoveTasks /\ task[t].id[2] \in MovementOperations
    BY <1>4, <1>d, TaskShapes DEF FindNoPool
  <2>2. TasksFit
    BY <1>4, <2>1, GotoStep DEF FindNoPool, TasksFit
  <2>3. QED
    BY <1>4, <2>2, <1>a, <1>b, <1>c DEF FindNoPool
<1>5. ASSUME NEW t \in Calls, NEW p \in Pools, task[t] \in MoveTasks,
             MovementPermitted(p, task[t].print.movement),
             Record(t, p), Conclude(t, "APPLIED"), UNCHANGED record
      PROVE  Sound'
  <2>1. task[t].id \in IdemKeys /\ task[t].print \in Prints /\ "APPLIED" \in Results
    BY <1>5 DEF MoveTasks, Prints, Results
  <2>2. TasksFit
    BY <1>5, <2>1, ConcludeStep DEF TasksFit
  <2>3. PoolsFit
    BY <1>5, RecordStep DEF PoolsFit
  <2>4. QED
    BY <1>5, <2>2, <2>3, <1>a, <1>c
<1>6. ASSUME NEW t \in Calls, task[t].pc \in {"move", "create"},
             Goto(t, "abandon"), UNCHANGED <<pool, ledger, record>>
      PROVE  Sound'
  <2>1. task[t] \in MoveTasks /\ task[t].id[2] \in MovementOperations
    BY <1>6, <1>d, TaskShapes
  <2>2. TasksFit
    BY <1>6, <2>1, GotoStep DEF TasksFit
  <2>3. QED
    BY <1>6, <2>2, <1>a, <1>b, <1>c
<1>7. ASSUME NEW t \in Calls, CreatePool(t) PROVE Sound'
  <2>1. /\ task[t] \in MoveTasks
        /\ MovementPermitted(InitialPool, task[t].print.movement)
    BY <1>7, <1>d, TaskShapes DEF CreatePool
  <2>2. CASE Record(t, InitialPool) /\ Conclude(t, "APPLIED")
    BY <1>7, <2>1, <2>2, PoolShapes, <1>5 DEF CreatePool
  <2>3. CASE Goto(t, "abandon") /\ UNCHANGED <<pool, ledger>>
    BY <1>7, <2>3, <1>6 DEF CreatePool
  <2>4. QED
    BY <1>7, <2>2, <2>3 DEF CreatePool
<1>8. ASSUME NEW t \in Calls, ApplyMovement(t) PROVE Sound'
  <2>1. task[t] \in MoveTasks /\ pool[Sku(t)] \in Pools
    BY <1>8, <1>d, <1>e, TaskShapes DEF ApplyMovement, MoveTasks, IdemKeys, Sku
  <2>2. CASE /\ MovementPermitted(pool[Sku(t)], task[t].print.movement)
             /\ Record(t, pool[Sku(t)]) /\ Conclude(t, "APPLIED")
    BY <1>8, <2>1, <2>2, <1>5 DEF ApplyMovement
  <2>3. CASE Goto(t, "abandon") /\ UNCHANGED <<pool, ledger>>
    BY <1>8, <2>3, <1>6 DEF ApplyMovement
  <2>4. QED
    BY <1>8, <2>2, <2>3 DEF ApplyMovement
<1>9. ASSUME NEW t \in Calls, task[t].pc \in ReservationOperations,
             NEW result \in Results, Conclude(t, result), UNCHANGED <<ledger, record>>,
             \/ UNCHANGED pool
             \/ \E p \in Pools : /\ pool' = [pool EXCEPT ![Sku(t)] = p]
                                 /\ p.reserved <= p.onHand /\ p.version # 0
      PROVE  Sound'
  <2>1. task[t] \in ReservationTasks
    BY <1>9, <1>d, TaskShapes
  <2>2. task[t].id \in IdemKeys /\ task[t].print \in Prints
    BY <2>1 DEF ReservationTasks, Prints
  <2>3. TasksFit
    BY <1>9, <2>2, ConcludeStep DEF TasksFit
  <2>4. PoolsFit
    BY <1>9 DEF PoolsFit, Sound, TypeOK, NeverOversold
  <2>5. QED
    BY <1>9, <2>3, <2>4, <1>a, <1>c
<1>10. ASSUME NEW t \in Calls, Reserve(t) PROVE Sound'
  <2>1. /\ task[t].pc \in ReservationOperations
        /\ task[t].print.quantity \in Deltas /\ pool[Sku(t)] \in Pools
    BY <1>10, <1>d, <1>e, TaskShapes
    DEF Reserve, ReservationOperations, ReservationTasks, IdemKeys, Sku
  <2>2. CASE /\ ReservePermitted(pool[Sku(t)], task[t].print.quantity)
             /\ pool' = [pool EXCEPT ![Sku(t)] =
                           Raised(pool[Sku(t)], task[t].print.quantity)]
             /\ Conclude(t, "RESERVED")
    <3>1. LET p == Raised(pool[Sku(t)], task[t].print.quantity)
          IN  p \in Pools /\ p.reserved <= p.onHand /\ p.version # 0
      BY <2>1, <2>2, RaisedPool DEF Pools
    <3>2. QED
      BY <1>10, <2>1, <2>2, <3>1, <1>9 DEF Reserve, Results
  <2>3. CASE Conclude(t, "DENIED") /\ UNCHANGED pool
    BY <1>10, <2>1, <2>3, <1>9 DEF Reserve, Results
  <2>4. QED
    BY <1>10, <2>2, <2>3 DEF Reserve
<1>11. ASSUME NEW t \in Calls, Release(t) PROVE Sound'
  <2>1. /\ task[t].pc \in ReservationOperations
        /\ task[t].print.quantity \in Deltas /\ pool[Sku(t)] \in Pools
        /\ Sku(t) \in Skus
    BY <1>11, <1>d, <1>e, TaskShapes
    DEF Release, ReservationOperations, ReservationTasks, IdemKeys, Sku
  <2>2. CASE /\ ReleasePermitted(pool[Sku(t)], task[t].print.quantity)
             /\ pool' = [pool EXCEPT ![Sku(t)] =
                           Lowered(pool[Sku(t)], task[t].print.quantity)]
             /\ Conclude(t, "RESERVED")
    <3> DEFINE p == Lowered(pool[Sku(t)], task[t].print.quantity)
    <3>1. /\ p \in Pools /\ p.onHand = pool[Sku(t)].onHand
          /\ p.reserved <= pool[Sku(t)].reserved /\ p.version # 0
      BY <2>1, <2>2, LoweredPool DEF Pools
    <3>2. pool[Sku(t)].reserved <= pool[Sku(t)].onHand
      BY <2>1 DEF Sound, NeverOversold
    <3>3. p.reserved <= p.onHand
      BY <2>1, <3>1, <3>2 DEF Pools, Units
    <3>4. QED
      BY <1>11, <2>1, <2>2, <3>1, <3>3, <1>9 DEF Release, Results
  <2>3. CASE Conclude(t, "DENIED") /\ UNCHANGED pool
    BY <1>11, <2>1, <2>3, <1>9 DEF Release, Results
  <2>4. QED
    BY <1>11, <2>2, <2>3 DEF Release
<1>12. ASSUME NEW t \in Calls, ReservationFails(t) PROVE Sound'
  BY <1>12, <1>9 DEF ReservationFails, ReservationOperations, Results
<1>13. ASSUME NEW t \in Calls, Abandon(t) PROVE Sound'
  <2>1. task[t].id \in IdemKeys
    BY <1>13, <1>d, TaskShapes DEF Abandon, MoveTasks
  <2>2. record[task[t].id] \in Rows(Calls, Prints, Results)
    BY <2>1 DEF Sound, TypeOK
  <2>3. RowsFit
    BY <1>13, <2>1, <2>2, RowStep DEF Abandon, RowsFit, Rows
  <2>4. QED
    BY <1>13, <2>3, FinishStep, <1>a, <1>b DEF Abandon, TasksFit
<1>14. ASSUME NEW t \in Calls, Complete(t) PROVE Sound'
  <2>1. task[t] \in CompleteTasks
    BY <1>14, <1>d, TaskShapes DEF Complete
  <2>2. /\ task[t].id \in IdemKeys
        /\ Completed(task[t].print, task[t].result) \in Rows(Calls, Prints, Results)
    BY <2>1 DEF CompleteTasks, Completed, Rows
  <2>3. RowsFit
    BY <1>14, <2>2, RowStep DEF Complete, RowsFit
  <2>4. QED
    BY <1>14, <2>3, FinishStep, <1>a, <1>b DEF Complete, TasksFit
<1>15. ASSUME NEW t \in Calls, Drop(t) PROVE Sound'
  BY <1>15, FinishStep, <1>a, <1>b, <1>c DEF Drop, TasksFit
<1>16. CASE UNCHANGED vars
  BY <1>16 DEF vars, Sound, TypeOK, NeverOversold
<1>17. QED
  BY <1>1, <1>2, <1>3, <1>4, <1>7, <1>8, <1>10, <1>11, <1>12, <1>13, <1>14,
     <1>15, <1>16 DEF Next

LEMMA AlwaysSound == Spec => []Sound
  BY SoundInit, SoundNext, PTL DEF Spec

\* The tables and what calls hold always have the shapes the schema and the
\* services give them: no quantity leaves the range of its column.
THEOREM TypeCorrect == Spec => []TypeOK
<1>1. Sound => TypeOK
  BY DEF Sound
<1>2. QED
  BY <1>1, AlwaysSound, PTL

\* For any number of SKUs and calls, and whatever the limits, more is never
\* reserved of a SKU than there is.
THEOREM StockNeverOversold == Spec => []NeverOversold
<1>1. Sound => NeverOversold
  BY DEF Sound
<1>2. QED
  BY <1>1, AlwaysSound, PTL

-------------------------------------------------------------------------------
(* What a step does to the pools: nothing, one accepted movement, or one       *)
(* reservation or release.                                                     *)

\* Call t applies its movement to p: the pool it finds, or one it activates.
Moves(t, p) ==
  /\ task[t] \in MoveTasks
  /\ task[t].pc \in {"move", "create"}
  /\ Sku(t) \in Skus
  /\ p \in Pools
  /\ MovementPermitted(p, task[t].print.movement)
  /\ \/ p = pool[Sku(t)] /\ p # NoPool /\ p.version = task[t].print.version
     \/ p = InitialPool /\ pool[Sku(t)] = NoPool /\ task[t].print.version = 0
  /\ Record(t, p)
  /\ UNCHANGED record

Reserves(s, q) ==
  /\ pool[s] # NoPool
  /\ \/ ReservePermitted(pool[s], q) /\ pool' = [pool EXCEPT ![s] = Raised(pool[s], q)]
     \/ ReleasePermitted(pool[s], q) /\ pool' = [pool EXCEPT ![s] = Lowered(pool[s], q)]
  /\ UNCHANGED ledger

LEMMA PoolSteps ==
  ASSUME Sound, Next
  PROVE  \/ UNCHANGED <<pool, ledger>>
         \/ \E t \in Calls, p \in Pools : Moves(t, p)
         \/ \E s \in Skus, q \in Deltas : Reserves(s, q)
<1>d. \A t \in Calls : Fits(task[t])
  BY DEF Sound
<1>e. \A s \in Skus : pool[s] \in Pools
  BY DEF Sound, TypeOK
<1>1. ASSUME NEW t \in Calls, CreatePool(t), ~UNCHANGED <<pool, ledger>>
      PROVE  Moves(t, InitialPool)
  <2>1. /\ task[t] \in MoveTasks /\ Sku(t) \in Skus /\ task[t].print.version = 0
        /\ MovementPermitted(InitialPool, task[t].print.movement)
    BY <1>1, <1>d, TaskShapes DEF CreatePool, MoveTasks, IdemKeys, Sku
  <2>2. QED
    BY <1>1, <2>1, PoolShapes DEF CreatePool, Moves
<1>2. ASSUME NEW t \in Calls, ApplyMovement(t), ~UNCHANGED <<pool, ledger>>
      PROVE  Moves(t, pool[Sku(t)]) /\ pool[Sku(t)] \in Pools
  <2>1. task[t] \in MoveTasks /\ Sku(t) \in Skus
    BY <1>2, <1>d, TaskShapes DEF ApplyMovement, MoveTasks, IdemKeys, Sku
  <2>2. QED
    BY <1>2, <2>1, <1>e DEF ApplyMovement, Moves
<1>3. ASSUME NEW t \in Calls, Reserve(t) \/ Release(t), ~UNCHANGED <<pool, ledger>>
      PROVE  \E s \in Skus, q \in Deltas : Reserves(s, q)
  <2>1. task[t].print.quantity \in Deltas /\ Sku(t) \in Skus
    BY <1>3, <1>d, TaskShapes
    DEF Reserve, Release, ReservationOperations, ReservationTasks, IdemKeys, Sku
  <2>2. Reserves(Sku(t), task[t].print.quantity)
    BY <1>3 DEF Reserve, Release, Reserves
  <2>3. QED
    BY <2>1, <2>2
<1>4. QED
  BY <1>1, <1>2, <1>3, PoolShapes
  DEF Next, RequestMovement, RequestReservation, Acquire, FindNoPool,
      ReservationFails, Abandon, Complete, Drop

\* Whatever changes a pool raises its version.
LEMMA VersionsRise ==
  ASSUME Sound, Next, NEW s \in Skus
  PROVE  pool'[s] = pool[s] \/ pool[s].version < pool'[s].version
<1>e. pool \in [Skus -> Pools]
  BY DEF Sound, TypeOK
<1>1. ASSUME NEW t \in Calls, NEW p \in Pools, Moves(t, p)
      PROVE  pool'[s] = pool[s] \/ pool[s].version < pool'[s].version
  <2>1. pool' = [pool EXCEPT ![Sku(t)] = Moved(p, task[t].print.movement)]
    BY <1>1 DEF Moves, Record
  <2>2. Moved(p, task[t].print.movement).version = p.version + 1
    BY <1>1, MovedPool DEF Moves, MoveTasks
  <2>3. pool[Sku(t)].version <= p.version /\ p.version \in Nat
    BY <1>1 DEF Moves, NoPool, InitialPool, Pools
  <2>4. pool[Sku(t)].version \in Nat
    BY <1>1, <1>e DEF Moves, Pools
  <2>5. QED
    BY <2>1, <2>2, <2>3, <2>4, <1>e
<1>2. ASSUME NEW r \in Skus, NEW q \in Deltas, Reserves(r, q)
      PROVE  pool'[s] = pool[s] \/ pool[s].version < pool'[s].version
  <2>1. pool[r] \in Pools /\ pool[r].version \in Nat
    BY <1>e DEF Pools
  <2>2. CASE /\ ReservePermitted(pool[r], q)
             /\ pool' = [pool EXCEPT ![r] = Raised(pool[r], q)]
    BY <2>1, <2>2, RaisedPool, <1>e
  <2>3. CASE /\ ReleasePermitted(pool[r], q)
             /\ pool' = [pool EXCEPT ![r] = Lowered(pool[r], q)]
    BY <2>1, <2>3, LoweredPool, <1>e
  <2>4. QED
    BY <1>2, <2>2, <2>3 DEF Reserves
<1>3. QED
  BY <1>1, <1>2, PoolSteps

\* StockPool implements Stock: a movement, a reservation and a release are each
\* one step of the abstract stock, and every other step leaves it alone.
THEOREM StockImplemented == Spec => ImplementsStock
<1>1. Init => Abstract!Init
  BY DEF Init, Abstract!Init, NoPool
<1>2. Sound /\ [Next]_vars => [Abstract!Next]_<<[s \in Skus |-> pool[s].onHand],
                                               [s \in Skus |-> pool[s].reserved]>>
  <2> SUFFICES ASSUME Sound, [Next]_vars
               PROVE  \/ Abstract!Next
                      \/ UNCHANGED <<[s \in Skus |-> pool[s].onHand],
                                     [s \in Skus |-> pool[s].reserved]>>
    OBVIOUS
  <2>e. pool \in [Skus -> Pools]
    BY DEF Sound, TypeOK
  <2>1. CASE UNCHANGED pool
    BY <2>1
  <2>2. ASSUME NEW t \in Calls, NEW p \in Pools, Moves(t, p)
        PROVE  Abstract!Next
    <3> DEFINE q == Moved(p, task[t].print.movement)
    <3>1. /\ q \in Pools /\ q.reserved = p.reserved /\ q.reserved <= q.onHand
      BY <2>2, MovedPool DEF Moves, MoveTasks
    <3>2. p.reserved = pool[Sku(t)].reserved /\ Sku(t) \in Skus
      BY <2>2 DEF Moves, NoPool, InitialPool
    <3>3. pool' = [pool EXCEPT ![Sku(t)] = q]
      BY <2>2 DEF Moves, Record
    <3>4. q.onHand \in 0..MaxUnits
      BY <3>1 DEF Pools, Units
    <3> HIDE DEF q
    <3>5. PICK s \in Skus, units \in 0..MaxUnits : s = Sku(t) /\ units = q.onHand
      BY <3>2, <3>4
    <3>6. Abstract!Move(s, units)
      BY <3>1, <3>2, <3>3, <3>5, <2>e DEF Abstract!Move
    <3>7. QED
      BY <3>6 DEF Abstract!Next
  <2>3. ASSUME NEW s \in Skus, NEW q \in Deltas, Reserves(s, q)
        PROVE  Abstract!Next
    <3>1. /\ pool[s] \in Pools /\ pool[s].onHand \in 0..MaxUnits
          /\ pool[s].reserved \in 0..MaxUnits
      BY <2>e DEF Pools, Units
    <3>0. q \in Nat /\ pool[s].reserved <= pool[s].onHand
      BY UnitsAssumption DEF Deltas, Sound, NeverOversold
    <3>2. CASE /\ ReservePermitted(pool[s], q)
               /\ pool' = [pool EXCEPT ![s] = Raised(pool[s], q)]
      <4> DEFINE r == Raised(pool[s], q)
      <4>1. r.onHand = pool[s].onHand /\ r.reserved = pool[s].reserved + q
            /\ r.reserved <= pool[s].onHand
        BY <3>1, <3>2, RaisedPool
      <4>2. pool' = [pool EXCEPT ![s] = r]
        BY <3>2
      <4> HIDE DEF r
      <4>3. Abstract!Reserve(s, q)
        BY <4>1, <4>2, <2>e DEF Abstract!Reserve
      <4>4. q \in 0..MaxUnits
        BY <4>1, <3>1, <3>0, UnitsAssumption
      <4>5. QED
        BY <4>3, <4>4 DEF Abstract!Next
    <3>3. CASE /\ ReleasePermitted(pool[s], q)
               /\ pool' = [pool EXCEPT ![s] = Lowered(pool[s], q)]
      <4> DEFINE r == Lowered(pool[s], q)
      <4>1. r.onHand = pool[s].onHand /\ r.reserved = pool[s].reserved - q
        BY <3>1, <3>3, LoweredPool
      <4>2. pool' = [pool EXCEPT ![s] = r] /\ q <= pool[s].reserved
        BY <3>3 DEF ReleasePermitted
      <4> HIDE DEF r
      <4>3. Abstract!Release(s, q)
        BY <4>1, <4>2, <2>e DEF Abstract!Release
      <4>4. q \in 0..MaxUnits
        BY <4>2, <3>1, <3>0, UnitsAssumption
      <4>5. QED
        BY <4>3, <4>4 DEF Abstract!Next
    <3>4. QED
      BY <2>3, <3>2, <3>3 DEF Reserves
  <2>4. QED
    BY <2>1, <2>2, <2>3, PoolSteps DEF vars
<1>3. QED
  BY <1>1, <1>2, AlwaysSound, PTL DEF Spec, ImplementsStock, Abstract!Spec

-------------------------------------------------------------------------------
(* The ledger and the pool it explains.                                        *)

\* What the author of movement x saw: the pool of that version, which is the
\* pool there is as long as the version is.
Seen(x) ==
  x \in MoveTasks =>
    LET p == pool[x.id[1]] IN
    /\ x.seen.version = x.print.version
    /\ x.seen.version <= p.version
    /\ x.seen.version = p.version => x.seen = p

Explained ==
  /\ LedgerExplainsStock
  /\ MovementsActOnWhatWasSeen
  /\ \A t \in Calls : Seen(task[t])

\* A call that holds a movement after a step held it before, or asks for it now.
LEMMA HeldMovement ==
  ASSUME Sound, Next, NEW u \in Calls, task'[u] \in MoveTasks
  PROVE  \/ /\ task[u] \in MoveTasks
            /\ task'[u].id = task[u].id
            /\ task'[u].print = task[u].print
            /\ task'[u].seen = task[u].seen
         \/ /\ UNCHANGED pool
            /\ task'[u].seen = pool[task'[u].id[1]]
            /\ task'[u].print.version = task'[u].seen.version
<1>1. \A t \in Calls : Fits(task[t])
  BY DEF Sound
<1>2. task \in [Calls -> {Idle} \cup MoveTasks \cup ReservationTasks
                          \cup CompleteTasks]
  BY DEF Sound, TypeOK
<1>3. Idle \notin MoveTasks
  BY DEF Idle, MoveTasks
<1>4. ASSUME NEW t \in Calls, Finish(t) PROVE task'[u] = task[u]
  BY <1>2, <1>3, <1>4 DEF Finish
<1>5. ASSUME NEW t \in Calls, NEW result, Conclude(t, result) PROVE task'[u] = task[u]
  BY <1>2, <1>3, <1>5 DEF Conclude, MoveTasks
<1>6. ASSUME NEW t \in Calls, NEW step, Goto(t, step), task[t] \in MoveTasks
      PROVE  /\ task[u] \in MoveTasks
             /\ task'[u].id = task[u].id
             /\ task'[u].print = task[u].print
             /\ task'[u].seen = task[u].seen
  BY <1>2, <1>6 DEF Goto, MoveTasks
<1>7. ASSUME NEW t \in Calls, NEW s \in Skus, NEW movement \in Movements,
             NEW k \in Keys, RequestMovement(t, s, movement, k)
      PROVE  \/ task'[u] = task[u]
             \/ /\ UNCHANGED pool
                /\ task'[u].seen = pool[task'[u].id[1]]
                /\ task'[u].print.version = task'[u].seen.version
  BY <1>2, <1>7 DEF RequestMovement
<1>8. ASSUME NEW t \in Calls, NEW s \in Skus, NEW operation, NEW quantity, NEW k,
             RequestReservation(t, s, operation, quantity, k)
      PROVE  task'[u] = task[u]
  BY <1>2, <1>8 DEF RequestReservation, MoveTasks
<1>9. ASSUME NEW t \in Calls, Acquire(t)
      PROVE  \/ task'[u] = task[u]
             \/ /\ task[u] \in MoveTasks
                /\ task'[u].id = task[u].id
                /\ task'[u].print = task[u].print
                /\ task'[u].seen = task[u].seen
  <2>1. CASE task[t] \in MoveTasks
    BY <1>9, <2>1, <1>4, <1>6 DEF Acquire
  <2>2. CASE task[t] \in ReservationTasks
    <3>1. \A step : [task[t] EXCEPT !.pc = step] \notin MoveTasks
      BY <2>2 DEF ReservationTasks, MoveTasks
    <3>2. QED
      BY <1>2, <1>4, <1>9, <2>2, <3>1 DEF Acquire, Goto
  <2>3. QED
    BY <1>1, <1>9, <2>1, <2>2, TaskShapes DEF Acquire
<1>10. ASSUME NEW t \in Calls, FindNoPool(t) \/ CreatePool(t) \/ ApplyMovement(t)
       PROVE  \/ task'[u] = task[u]
              \/ /\ task[u] \in MoveTasks
                 /\ task'[u].id = task[u].id
                 /\ task'[u].print = task[u].print
                 /\ task'[u].seen = task[u].seen
  <2>1. task[t] \in MoveTasks
    BY <1>1, <1>10, TaskShapes DEF FindNoPool, CreatePool, ApplyMovement
  <2>2. (\E step : Goto(t, step)) \/ (\E result : Conclude(t, result))
    BY <1>10 DEF FindNoPool, CreatePool, ApplyMovement
  <2>3. QED
    BY <2>1, <2>2, <1>5, <1>6
<1>11. ASSUME NEW t \in Calls, \/ Reserve(t) \/ Release(t) \/ ReservationFails(t)
                               \/ Abandon(t) \/ Complete(t) \/ Drop(t)
       PROVE  task'[u] = task[u]
  <2>1. Finish(t) \/ (\E result : Conclude(t, result))
    BY <1>11 DEF Reserve, Release, ReservationFails, Abandon, Complete, Drop
  <2>2. QED
    BY <2>1, <1>4, <1>5
<1>12. QED
  BY <1>7, <1>8, <1>9, <1>10, <1>11 DEF Next

LEMMA SeenNext ==
  ASSUME Sound, \A t \in Calls : Seen(task[t]), Next
  PROVE  \A t \in Calls : Seen(task[t])'
<1> SUFFICES ASSUME NEW u \in Calls, task'[u] \in MoveTasks
             PROVE  LET p == pool'[task'[u].id[1]] IN
                    /\ task'[u].seen.version = task'[u].print.version
                    /\ task'[u].seen.version <= p.version
                    /\ task'[u].seen.version = p.version => task'[u].seen = p
  BY DEF Seen
<1>1. /\ task'[u].id[1] \in Skus
      /\ task'[u].seen.version \in Nat
  BY DEF MoveTasks, IdemKeys, Pools
<1>2. pool[task'[u].id[1]].version \in Nat /\ pool'[task'[u].id[1]].version \in Nat
  <2>1. pool \in [Skus -> Pools] /\ pool' \in [Skus -> Pools]
    BY SoundNext DEF Sound, TypeOK
  <2>2. QED
    BY <1>1, <2>1 DEF Pools
<1>3. CASE /\ task[u] \in MoveTasks
           /\ task'[u].id = task[u].id
           /\ task'[u].print = task[u].print
           /\ task'[u].seen = task[u].seen
  <2>1. LET p == pool[task'[u].id[1]] IN
        /\ task'[u].seen.version = task'[u].print.version
        /\ task'[u].seen.version <= p.version
        /\ task'[u].seen.version = p.version => task'[u].seen = p
    BY <1>3 DEF Seen
  <2>2. \/ pool'[task'[u].id[1]] = pool[task'[u].id[1]]
        \/ pool[task'[u].id[1]].version < pool'[task'[u].id[1]].version
    BY <1>1, VersionsRise
  <2>3. QED
    BY <1>1, <1>2, <2>1, <2>2
<1>4. CASE /\ UNCHANGED pool
           /\ task'[u].seen = pool[task'[u].id[1]]
           /\ task'[u].print.version = task'[u].seen.version
  BY <1>1, <1>4
<1>5. QED
  BY <1>3, <1>4, HeldMovement

LEMMA LedgerOf ==
  ASSUME LedgerExplainsStock, NEW s \in Skus
  PROVE  /\ pool[s] = NoPool <=> ledger[s] = <<>>
         /\ pool[s].onHand = Before(s, Len(ledger[s]) + 1)
         /\ \A i \in 1..Len(ledger[s]) : Follows(s, i)
  BY DEF LedgerExplainsStock

\* The entry a movement appends starts from the quantity the ledger ends with,
\* and was made from the pool its author saw.
LEMMA EntryStep ==
  ASSUME Sound, Explained, NEW t \in Calls, NEW p \in Pools, Moves(t, p),
         NEW z \in Skus, z = Sku(t)
  PROVE  (LedgerExplainsStock /\ MovementsActOnWhatWasSeen)'
<1> DEFINE m == task[t].print.movement
           q == Moved(p, m)
           e == [movement |-> m, delta |-> RecordedDelta(p.onHand, m),
                 resultingOnHand |-> q.onHand, resultingReserved |-> q.reserved,
                 version |-> q.version, id |-> task[t].id, seen |-> task[t].seen]
<1>1. z \in Skus /\ m \in Movements /\ task[t].id[1] = z
  BY DEF Moves, MoveTasks, Sku
<1>2. /\ pool \in [Skus -> Pools] /\ ledger \in [Skus -> Seq(Entries)]
      /\ \A s \in Skus : pool[s].version = 0 => pool[s] = NoPool
  BY DEF Sound, TypeOK
<1>3. /\ q.reserved = p.reserved /\ q.onHand = Resulting(p.onHand, m)
      /\ q.version = p.version + 1
  BY <1>1, MovedPool DEF Moves
<1>4. pool' = [pool EXCEPT ![z] = q]
  BY DEF Moves, Record
<1>5. ledger' = [ledger EXCEPT ![z] = Append(ledger[z], e)]
  BY DEF Moves, Record
<1>6. p.onHand = pool[z].onHand /\ p.reserved = pool[z].reserved
      /\ pool[z].version <= p.version /\ p.version \in Nat /\ p.version # 0
  BY <1>1, <1>2 DEF Moves, NoPool, InitialPool, Pools
<1>7. /\ e.resultingOnHand = Resulting(pool[z].onHand, m)
      /\ e.delta = Distance(e.resultingOnHand, pool[z].onHand)
      /\ e.movement = m /\ e.version = p.version + 1 /\ e.id = task[t].id
  BY <1>3, <1>6 DEF RecordedDelta
<1>8. e.seen.onHand = pool[z].onHand /\ e.seen.reserved = e.resultingReserved
  <2>1. Seen(task[t]) /\ task[t] \in MoveTasks
    BY DEF Explained, Moves
  <2>2. task[t].seen = pool[z]
    BY <2>1, <1>1 DEF Seen, Moves, NoPool
  <2>3. QED
    BY <2>2, <1>3, <1>6
<1>n. PICK n \in Nat : n = Len(ledger[z])
  BY <1>2
<1>9. /\ Len(Append(ledger[z], e)) = n + 1
      /\ \A i \in 1..n : Append(ledger[z], e)[i] = ledger[z][i]
      /\ Append(ledger[z], e)[n + 1] = e
  BY <1>2, <1>n
<1>10. /\ ledger'[z] = Append(ledger[z], e) /\ pool'[z] = q
       /\ \A s \in Skus \ {z} : ledger'[s] = ledger[s] /\ pool'[s] = pool[s]
  BY <1>1, <1>2, <1>4, <1>5
<1> HIDE DEF e, q
<1>11. /\ \A i \in 1..(n + 1) : Before(z, i)' = Before(z, i)
       /\ Before(z, n + 2)' = e.resultingOnHand
  BY <1>9, <1>10 DEF Before
<1>12. /\ pool[z].onHand = Before(z, n + 1)
       /\ \A i \in 1..n : Follows(z, i)
  <2>1. LedgerExplainsStock
    BY DEF Explained
  <2>2. pool[z].onHand = Before(z, n + 1)
    BY <2>1, <1>n, LedgerOf
  <2>3. \A i \in 1..n : Follows(z, i)
    BY <2>1, <1>n, LedgerOf
  <2>4. QED
    BY <2>2, <2>3
<1>13. \A i \in 1..n : ledger[z][i].version \in Nat
  <2>1. ledger[z] \in Seq(Entries)
    BY <1>2
  <2>2. \A i \in 1..n : ledger[z][i] \in Entries
    BY <2>1, <1>n
  <2>3. QED
    BY <2>2 DEF Entries
<1>14. LedgerExplainsStock'
  <2> SUFFICES ASSUME NEW s \in Skus
               PROVE  \E k \in Nat :
                        /\ Len(ledger'[s]) = k
                        /\ pool'[s] = NoPool <=> ledger'[s] = <<>>
                        /\ pool'[s].onHand = Before(s, k + 1)'
                        /\ \A i \in 1..k : Follows(s, i)'
    BY DEF LedgerExplainsStock, Before
  <2>1. CASE s # z
    <3>1. ledger'[s] = ledger[s] /\ pool'[s] = pool[s]
      BY <2>1, <1>10
    <3>2. PICK k \in Nat : k = Len(ledger[s])
      BY <1>2
    <3>3. /\ Before(s, k + 1)' = Before(s, k + 1)
          /\ \A i \in 1..k : Follows(s, i) => Follows(s, i)'
      BY <3>1 DEF Before, Follows
    <3>4. /\ pool[s] = NoPool <=> ledger[s] = <<>>
          /\ pool[s].onHand = Before(s, k + 1)
          /\ \A i \in 1..k : Follows(s, i)
      BY <3>2, LedgerOf DEF Explained
    <3>5. Len(ledger'[s]) = k
      BY <3>1, <3>2
    <3>6. QED
      BY <3>1, <3>3, <3>4, <3>5
  <2>2. CASE s = z
    <3>1. Len(ledger'[z]) = n + 1 /\ ledger'[z] # <<>>
      <4>1. Len(ledger'[z]) = n + 1
        BY <1>9, <1>10
      <4>2. Len(<<>>) = 0 /\ n + 1 # 0
        OBVIOUS
      <4>3. QED
        BY <4>1, <4>2
    <3>2. pool'[z] # NoPool
      BY <1>3, <1>6, <1>10 DEF NoPool
    <3>3. pool'[z].onHand = Before(z, n + 2)'
      BY <1>3, <1>6, <1>7, <1>10, <1>11
    <3>4. ASSUME NEW i \in 1..n PROVE Follows(z, i)'
      <4>1. ledger'[z][i] = ledger[z][i]
            /\ (i > 1 => ledger'[z][i-1] = ledger[z][i-1])
        BY <1>9, <1>10
      <4>2. Before(z, i)' = Before(z, i)
        BY <1>9, <1>11
      <4>3. ledger[z][i].version <= pool'[z].version
        <5>1. ledger[z][i].version <= pool[z].version /\ pool[z].version <= p.version
          BY <1>6, <1>12 DEF Follows
        <5>2. pool'[z].version = p.version + 1 /\ pool[z].version \in Nat
          BY <1>1, <1>2, <1>3, <1>10 DEF Pools
        <5>3. QED
          BY <5>1, <5>2, <1>6, <1>13
      <4>4. QED
        BY <4>1, <4>2, <4>3, <1>12 DEF Follows
    <3>5. Follows(z, n + 1)'
      <4>1. ledger'[z][n + 1] = e /\ (n + 1 > 1 => ledger'[z][n] = ledger[z][n])
        BY <1>9, <1>10
      <4>2. Before(z, n + 1)' = pool[z].onHand
        BY <1>9, <1>11, <1>12
      <4>3. e.version <= pool'[z].version
        BY <1>3, <1>6, <1>7, <1>10
      <4>4. n + 1 > 1 => ledger[z][n].version < e.version
        <5>1. SUFFICES ASSUME n >= 1 PROVE ledger[z][n].version < e.version
          BY <1>9
        <5>2. ledger[z][n].version <= pool[z].version /\ ledger[z][n].version \in Nat
          BY <5>1, <1>9, <1>12, <1>13 DEF Follows
        <5>3. pool[z].version \in Nat
          BY <1>1, <1>2 DEF Pools
        <5>4. QED
          BY <5>2, <5>3, <1>6, <1>7
      <4>5. n + 1 - 1 = n
        OBVIOUS
      <4>6. QED
        BY <4>1, <4>2, <4>3, <4>4, <4>5, <1>7 DEF Follows
    <3>6. \A i \in 1..(n + 1) : Follows(z, i)'
      BY <3>4, <3>5
    <3>7. n + 1 + 1 = n + 2
      OBVIOUS
    <3>8. QED
      BY <2>2, <3>1, <3>2, <3>3, <3>6, <3>7
  <2>3. QED
    BY <2>1, <2>2
<1>15. MovementsActOnWhatWasSeen'
  <2> SUFFICES ASSUME NEW s \in Skus, NEW i \in DOMAIN ledger'[s]
               PROVE  /\ ledger'[s][i].seen.onHand = Before(s, i)'
                      /\ ledger'[s][i].seen.reserved = ledger'[s][i].resultingReserved
    BY DEF MovementsActOnWhatWasSeen
  <2>1. CASE s # z
    BY <2>1, <1>10 DEF Explained, MovementsActOnWhatWasSeen, Before
  <2>2. CASE s = z /\ i \in 1..n
    <3>1. i \in DOMAIN ledger[z]
      BY <1>n, <1>2, <2>2
    <3>2. QED
      BY <2>2, <3>1, <1>1, <1>9, <1>10, <1>11
      DEF Explained, MovementsActOnWhatWasSeen
  <2>3. CASE s = z /\ i = n + 1
    BY <2>3, <1>8, <1>9, <1>10, <1>11, <1>12
  <2>4. s = z => i \in 1..(n + 1)
    <3>1. SUFFICES ASSUME s = z PROVE i \in 1..(n + 1)
      OBVIOUS
    <3>2. DOMAIN ledger'[z] = 1..(n + 1)
      BY <1>2, <1>n, <1>10 DEF e
    <3>3. QED
      BY <3>1, <3>2
  <2>5. QED
    BY <2>1, <2>2, <2>3, <2>4, <1>9
<1>16. QED
  BY <1>14, <1>15

\* Reservations and releases leave the ledger and what it explains alone.
LEMMA ReserveStep ==
  ASSUME Sound, Explained, NEW z \in Skus, NEW q \in Deltas, Reserves(z, q)
  PROVE  (LedgerExplainsStock /\ MovementsActOnWhatWasSeen)'
<1>1. pool \in [Skus -> Pools] /\ ledger \in [Skus -> Seq(Entries)] /\ ledger' = ledger
  BY DEF Sound, TypeOK, Reserves
<1>2. pool[z] \in Pools /\ pool[z].version \in Nat
  BY <1>1 DEF Pools
<1>3. /\ pool'[z].onHand = pool[z].onHand
      /\ pool'[z].version = pool[z].version + 1
      /\ \A s \in Skus \ {z} : pool'[s] = pool[s]
  <2>1. CASE /\ ReservePermitted(pool[z], q)
             /\ pool' = [pool EXCEPT ![z] = Raised(pool[z], q)]
    BY <1>1, <1>2, <2>1, RaisedPool
  <2>2. CASE /\ ReleasePermitted(pool[z], q)
             /\ pool' = [pool EXCEPT ![z] = Lowered(pool[z], q)]
    BY <1>1, <1>2, <2>2, LoweredPool
  <2>3. QED
    BY <2>1, <2>2 DEF Reserves
<1>4. pool[z] # NoPool /\ pool'[z] # NoPool
  BY <1>2, <1>3 DEF Reserves, NoPool
<1>5. \A s \in Skus : /\ pool'[s] = NoPool <=> pool[s] = NoPool
                      /\ pool'[s].onHand = pool[s].onHand
                      /\ pool[s].version <= pool'[s].version
                      /\ pool[s].version \in Nat /\ pool'[s].version \in Nat
  BY <1>1, <1>2, <1>3, <1>4 DEF Pools
<1>6. \A s \in Skus : \A i : Before(s, i)' = Before(s, i)
  BY <1>1 DEF Before
<1>7. ASSUME NEW s \in Skus, NEW i \in 1..Len(ledger[s]), Follows(s, i)
      PROVE  Follows(s, i)'
  <2>1. ledger[s][i].version \in Nat
    <3>1. ledger[s][i] \in Entries
      BY <1>1
    <3>2. QED
      BY <3>1 DEF Entries
  <2>2. ledger[s][i].version <= pool'[s].version
    BY <1>5, <1>7, <2>1 DEF Follows
  <2>3. QED
    BY <1>1, <1>6, <1>7, <2>2 DEF Follows
<1>8. LedgerExplainsStock'
  <2> SUFFICES ASSUME NEW s \in Skus
               PROVE  \E k \in Nat :
                        /\ Len(ledger'[s]) = k
                        /\ pool'[s] = NoPool <=> ledger'[s] = <<>>
                        /\ pool'[s].onHand = Before(s, k + 1)'
                        /\ \A i \in 1..k : Follows(s, i)'
    BY DEF LedgerExplainsStock, Before
  <2>1. PICK k \in Nat : k = Len(ledger[s])
    BY <1>1
  <2>2. LedgerExplainsStock
    BY DEF Explained
  <2>3. pool[s].onHand = Before(s, k + 1)
    BY <2>1, <2>2, LedgerOf
  <2>4. \A i \in 1..k : Follows(s, i)
    BY <2>1, <2>2, LedgerOf
  <2>5. pool[s] = NoPool <=> ledger[s] = <<>>
    BY <2>2, LedgerOf
  <2>6. \A i \in 1..k : Follows(s, i)'
    BY <2>1, <2>4, <1>7
  <2>7. pool'[s].onHand = Before(s, k + 1)'
    BY <2>3, <1>5, <1>6
  <2>8. QED
    BY <2>1, <2>5, <2>6, <2>7, <1>1, <1>5
<1>9. MovementsActOnWhatWasSeen'
  BY <1>1, <1>6 DEF Explained, MovementsActOnWhatWasSeen
<1>10. QED
  BY <1>8, <1>9

LEMMA ExplainedInit == Init => Explained
<1> SUFFICES ASSUME Init PROVE Explained
  OBVIOUS
<1>1. LedgerExplainsStock
  BY DEF Init, LedgerExplainsStock, Before, NoPool
<1>2. MovementsActOnWhatWasSeen
  BY DEF Init, MovementsActOnWhatWasSeen
<1>3. \A t \in Calls : Seen(task[t])
  BY DEF Init, Seen, Idle, MoveTasks
<1>4. QED
  BY <1>1, <1>2, <1>3 DEF Explained

LEMMA ExplainedNext == Sound /\ Explained /\ [Next]_vars => Explained'
<1> SUFFICES ASSUME Sound, Explained, [Next]_vars PROVE Explained'
  OBVIOUS
<1>1. CASE UNCHANGED vars
  BY <1>1 DEF vars, Explained, LedgerExplainsStock, MovementsActOnWhatWasSeen,
              Follows, Before, Seen
<1>2. CASE Next
  <2>1. \A t \in Calls : Seen(task[t])'
    BY <1>2, SeenNext DEF Explained
  <2>2. CASE UNCHANGED <<pool, ledger>>
    BY <2>1, <2>2 DEF Explained, LedgerExplainsStock, MovementsActOnWhatWasSeen,
                      Follows, Before
  <2>3. ASSUME NEW t \in Calls, NEW p \in Pools, Moves(t, p) PROVE Explained'
    <3>1. PICK z \in Skus : z = Sku(t)
      BY <2>3 DEF Moves
    <3>2. QED
      BY <2>1, <2>3, <3>1, EntryStep DEF Explained
  <2>4. ASSUME NEW s \in Skus, NEW q \in Deltas, Reserves(s, q) PROVE Explained'
    BY <2>1, <2>4, ReserveStep DEF Explained
  <2>5. QED
    BY <1>2, <2>2, <2>3, <2>4, PoolSteps
<1>3. QED
  BY <1>1, <1>2

LEMMA AlwaysExplained == Spec => []Explained
  BY ExplainedInit, ExplainedNext, AlwaysSound, PTL DEF Spec

\* For any number of calls, the movements of a SKU follow one another without a
\* gap and end with what the pool holds: no update is lost, no pool activated
\* twice.
THEOREM LedgerIsComplete == Spec => []LedgerExplainsStock
<1>1. Explained => LedgerExplainsStock
  BY DEF Explained
<1>2. QED
  BY <1>1, AlwaysExplained, PTL

\* A movement is only applied to the pool its author saw, however many others
\* move, reserve and release in between.
THEOREM MovementsActOnSeenStock == Spec => []MovementsActOnWhatWasSeen
<1>1. Explained => MovementsActOnWhatWasSeen
  BY DEF Explained
<1>2. QED
  BY <1>1, AlwaysExplained, PTL

-------------------------------------------------------------------------------
(* Keys: which call owns a row, and which movements were made under it.        *)

Unused(id) == \A s \in Skus : \A i \in DOMAIN ledger[s] : ledger[s][i].id # id

\* A call that has acquired its key and not yet moved owns the row, and nothing
\* was moved under the key.
Owns(t) ==
  task[t].pc \in {"move", "create", "abandon"} =>
    /\ record[task[t].id] = Processing(t, task[t].print)
    /\ Unused(task[t].id)

\* The key of a movement is taken, whoever has it, and stands for its SKU.
Kept ==
  \A s \in Skus : \A i \in DOMAIN ledger[s] :
    /\ ledger[s][i].id \in IdemKeys
    /\ record[ledger[s][i].id] # Absent

Keyed ==
  /\ \A t \in Calls : Owns(t)
  /\ Kept
  /\ OneMovementPerKey

LEMMA RowFields ==
  /\ \A h, f : /\ Processing(h, f) # Absent
               /\ Processing(h, f).state = "PROCESSING"
               /\ Processing(h, f).holder = h
  /\ \A f, r : Completed(f, r) # Absent
  /\ \A f : AcquireOutcome(Absent, f) = "ACQUIRED"
  /\ \A row, f : AcquireOutcome(row, f) = "ACQUIRED" => row = Absent
  BY DEF Processing, Absent, Completed, AcquireOutcome

\* A step that leaves the rows and the ledger alone, and lets its call hold no
\* key it did not own.
LEMMA QuietStep ==
  ASSUME Sound, Keyed, NEW t \in Calls, UNCHANGED <<record, ledger>>,
         \A u \in Calls \ {t} : task'[u] = task[u],
         task'[t].pc \in {"move", "create", "abandon"} =>
           /\ task[t].pc \in {"move", "create"}
           /\ task'[t].id = task[t].id
           /\ task'[t].print = task[t].print
  PROVE  Keyed'
<1>1. Kept' /\ OneMovementPerKey'
  BY DEF Keyed, Kept, OneMovementPerKey
<1>2. ASSUME NEW u \in Calls PROVE Owns(u)'
  <2>1. CASE u = t
    BY <2>1 DEF Keyed, Owns, Unused
  <2>2. CASE u # t
    BY <2>2 DEF Keyed, Owns, Unused
  <2>3. QED
    BY <2>1, <2>2
<1>3. QED
  BY <1>1, <1>2 DEF Keyed

\* A call inserts the row of its key, which nobody had.
LEMMA AcquireStep ==
  ASSUME Sound, Keyed, NEW t \in Calls, UNCHANGED ledger,
         task[t].id \in IdemKeys, record[task[t].id] = Absent,
         record' = [record EXCEPT ![task[t].id] = Processing(t, task[t].print)],
         \A u \in Calls \ {t} : task'[u] = task[u],
         task'[t].id = task[t].id, task'[t].print = task[t].print
  PROVE  Keyed'
<1>1. record'[task[t].id] = Processing(t, task[t].print)
      /\ \A id \in IdemKeys \ {task[t].id} : record'[id] = record[id]
  BY DEF Sound, TypeOK
<1>2. Kept' /\ OneMovementPerKey'
  BY <1>1, RowFields DEF Keyed, Kept, OneMovementPerKey
<1>3. Unused(task[t].id)
  BY DEF Keyed, Kept, Unused
<1>4. ASSUME NEW u \in Calls PROVE Owns(u)'
  <2>1. CASE u = t
    BY <2>1, <1>1, <1>3 DEF Owns, Unused
  <2>2. CASE u # t
    <3>1. SUFFICES ASSUME task[u].pc \in {"move", "create", "abandon"}
                   PROVE  /\ record'[task[u].id] = Processing(u, task[u].print)
                          /\ Unused(task[u].id)'
      BY <2>2 DEF Owns
    <3>2. /\ record[task[u].id] = Processing(u, task[u].print)
          /\ Unused(task[u].id)
      BY <3>1 DEF Keyed, Owns
    <3>3. task[u].id \in IdemKeys
      BY <3>1, TaskShapes DEF Sound, MoveTasks
    <3>4. task[u].id # task[t].id
      BY <3>2, RowFields
    <3>5. Unused(task[u].id)'
      BY <2>2, <3>2 DEF Unused
    <3>6. QED
      BY <1>1, <3>2, <3>3, <3>4, <3>5
  <2>3. QED
    BY <2>1, <2>2
<1>5. QED
  BY <1>2, <1>4 DEF Keyed

\* A call gives up or completes the row it owns, and holds nothing any more.
LEMMA CloseStep ==
  ASSUME Sound, Keyed, NEW t \in Calls, UNCHANGED ledger, Finish(t),
         task[t].id \in IdemKeys, OwnProcessingRow(record[task[t].id], t),
         NEW row, record' = [record EXCEPT ![task[t].id] = row],
         row = Absent => Unused(task[t].id)
  PROVE  Keyed'
<1>1. record'[task[t].id] = row
      /\ \A id \in IdemKeys \ {task[t].id} : record'[id] = record[id]
  BY DEF Sound, TypeOK
<1>2. \A u \in Calls : task'[u] = IF u = t THEN Idle ELSE task[u]
  BY DEF Sound, TypeOK, Finish
<1>3. Kept' /\ OneMovementPerKey'
  BY <1>1 DEF Keyed, Kept, OneMovementPerKey, Unused
<1>4. ASSUME NEW u \in Calls PROVE Owns(u)'
  <2>1. CASE u = t
    BY <2>1, <1>2 DEF Owns, Idle
  <2>2. CASE u # t
    <3>1. SUFFICES ASSUME task[u].pc \in {"move", "create", "abandon"}
                   PROVE  /\ record'[task[u].id] = Processing(u, task[u].print)
                          /\ Unused(task[u].id)'
      BY <1>2, <2>2 DEF Owns
    <3>2. /\ record[task[u].id] = Processing(u, task[u].print)
          /\ Unused(task[u].id)
      BY <3>1 DEF Keyed, Owns
    <3>3. task[u].id \in IdemKeys
      BY <3>1, TaskShapes DEF Sound, MoveTasks
    <3>4. task[u].id # task[t].id
      BY <2>2, <3>2, RowFields DEF OwnProcessingRow
    <3>5. Unused(task[u].id)'
      BY <1>2, <2>2, <3>2 DEF Unused
    <3>6. QED
      BY <1>1, <3>2, <3>3, <3>4, <3>5
  <2>3. QED
    BY <2>1, <2>2
<1>5. QED
  BY <1>3, <1>4 DEF Keyed

\* A movement is appended under a key nothing was moved under before.
LEMMA MoveStep ==
  ASSUME Sound, Keyed, NEW t \in Calls, NEW p \in Pools, Moves(t, p),
         \A u \in Calls \ {t} : task'[u] = task[u],
         task'[t].pc \notin {"move", "create", "abandon"}
  PROVE  Keyed'
<1> DEFINE m == task[t].print.movement
           q == Moved(p, m)
           e == [movement |-> m, delta |-> RecordedDelta(p.onHand, m),
                 resultingOnHand |-> q.onHand, resultingReserved |-> q.reserved,
                 version |-> q.version, id |-> task[t].id, seen |-> task[t].seen]
<1>1. PICK z \in Skus : z = Sku(t)
  BY DEF Moves
<1>2. ledger \in [Skus -> Seq(Entries)]
  BY DEF Sound, TypeOK
<1>3. ledger' = [ledger EXCEPT ![z] = Append(ledger[z], e)] /\ e.id = task[t].id
  BY <1>1 DEF Moves, Record
<1> HIDE DEF e
<1>4. PICK n \in Nat : n = Len(ledger[z])
  BY <1>2
<1>5. /\ DOMAIN ledger[z] = 1..n
      /\ DOMAIN ledger'[z] = 1..(n + 1)
      /\ \A i \in 1..n : ledger'[z][i] = ledger[z][i]
      /\ ledger'[z][n + 1] = e
      /\ \A s \in Skus \ {z} : ledger'[s] = ledger[s]
  BY <1>2, <1>3, <1>4
<1>6. /\ record[task[t].id] = Processing(t, task[t].print)
      /\ Unused(task[t].id)
  BY DEF Keyed, Owns, Moves
<1>7. task[t].id \in IdemKeys /\ UNCHANGED record
  BY DEF Moves, MoveTasks
<1>8. \A i \in 1..(n + 1) : i \in 1..n \/ i = n + 1
  OBVIOUS
<1>9. Kept'
  <2> SUFFICES ASSUME NEW s \in Skus, NEW i \in DOMAIN ledger'[s]
               PROVE  /\ ledger'[s][i].id \in IdemKeys
                      /\ record[ledger'[s][i].id] # Absent
    BY <1>7 DEF Kept
  <2>1. CASE s = z /\ i = n + 1
    BY <2>1, <1>3, <1>5, <1>6, <1>7, RowFields
  <2>2. CASE i \in DOMAIN ledger[s] /\ ledger'[s][i] = ledger[s][i]
    BY <2>2 DEF Keyed, Kept
  <2>3. QED
    BY <2>1, <2>2, <1>5, <1>8
<1>10. OneMovementPerKey'
  <2> SUFFICES ASSUME NEW s \in Skus, NEW i \in DOMAIN ledger'[s],
                      NEW j \in DOMAIN ledger'[s], ledger'[s][i].id = ledger'[s][j].id
               PROVE  i = j
    BY DEF OneMovementPerKey
  <2>1. CASE s # z
    BY <2>1, <1>5 DEF Keyed, OneMovementPerKey
  <2>2. CASE s = z /\ i \in 1..n /\ j \in 1..n
    BY <2>2, <1>5 DEF Keyed, OneMovementPerKey
  <2>3. CASE s = z /\ (i = n + 1 \/ j = n + 1)
    <3>1. \A k \in 1..n : ledger[z][k].id # e.id
      BY <1>3, <1>5, <1>6 DEF Unused
    <3>2. QED
      BY <2>3, <3>1, <1>5, <1>8
  <2>4. QED
    BY <2>1, <2>2, <2>3, <1>5, <1>8
<1>11. ASSUME NEW u \in Calls PROVE Owns(u)'
  <2>1. CASE u = t
    BY <2>1 DEF Owns
  <2>2. CASE u # t
    <3>1. SUFFICES ASSUME task[u].pc \in {"move", "create", "abandon"}
                   PROVE  /\ record[task[u].id] = Processing(u, task[u].print)
                          /\ Unused(task[u].id)'
      BY <2>2, <1>7 DEF Owns
    <3>2. /\ record[task[u].id] = Processing(u, task[u].print)
          /\ Unused(task[u].id)
      BY <3>1 DEF Keyed, Owns
    <3>3. task[u].id # e.id
      BY <2>2, <3>2, <1>3, <1>6, RowFields
    <3>4. PICK id : id = task[u].id
      OBVIOUS
    <3>5. task'[u].id = id
      BY <2>2, <3>4
    <3>6. ASSUME NEW s \in Skus, NEW i \in DOMAIN ledger'[s]
          PROVE  ledger'[s][i].id # id
      <4>1. CASE s = z /\ i = n + 1
        BY <4>1, <1>5, <3>3, <3>4
      <4>2. CASE i \in DOMAIN ledger[s] /\ ledger'[s][i] = ledger[s][i]
        BY <4>2, <3>2, <3>4 DEF Unused
      <4>3. QED
        BY <4>1, <4>2, <1>5, <1>8
    <3>7. QED
      BY <3>2, <3>5, <3>6 DEF Unused
  <2>3. QED
    BY <2>1, <2>2
<1>12. QED
  BY <1>9, <1>10, <1>11 DEF Keyed

LEMMA KeyedInit == Init => Keyed
  BY DEF Init, Keyed, Owns, Kept, OneMovementPerKey, Idle

LEMMA KeyedNext == Sound /\ Keyed /\ [Next]_vars => Keyed'
<1> SUFFICES ASSUME Sound, Keyed, [Next]_vars PROVE Keyed'
  OBVIOUS
<1>1. \A t \in Calls : Fits(task[t])
  BY DEF Sound
<1>2. task \in [Calls -> {Idle} \cup MoveTasks \cup ReservationTasks
                          \cup CompleteTasks]
  BY DEF Sound, TypeOK
<1>3. record \in [IdemKeys -> Rows(Calls, Prints, Results)]
  BY DEF Sound, TypeOK
<1>4. ASSUME NEW t \in Calls, Finish(t)
      PROVE  /\ \A u \in Calls \ {t} : task'[u] = task[u]
             /\ task'[t].pc \notin {"move", "create", "abandon"}
  BY <1>2, <1>4 DEF Finish, Idle
<1>5. ASSUME NEW t \in Calls, NEW result, Conclude(t, result)
      PROVE  /\ \A u \in Calls \ {t} : task'[u] = task[u]
             /\ task'[t].pc \notin {"move", "create", "abandon"}
  BY <1>2, <1>5 DEF Conclude, Idle
<1>6. ASSUME NEW t \in Calls, NEW step, Goto(t, step),
             task[t] \in MoveTasks \cup ReservationTasks
      PROVE  /\ \A u \in Calls \ {t} : task'[u] = task[u]
             /\ task'[t].pc = step
             /\ task'[t].id = task[t].id
             /\ task'[t].print = task[t].print
  BY <1>2, <1>6 DEF Goto, MoveTasks, ReservationTasks
<1>7. ASSUME NEW t \in Calls, NEW s \in Skus, NEW movement \in Movements,
             NEW k \in Keys, RequestMovement(t, s, movement, k)
      PROVE  Keyed'
  <2>1. /\ \A u \in Calls \ {t} : task'[u] = task[u]
        /\ task'[t].pc = "acquire"
    BY <1>2, <1>7 DEF RequestMovement
  <2>2. QED
    BY <1>7, <2>1, QuietStep DEF RequestMovement
<1>8. ASSUME NEW t \in Calls, NEW s \in Skus, NEW operation \in Operations,
             NEW quantity \in Deltas, NEW k \in Keys \cup {NoKey},
             RequestReservation(t, s, operation, quantity, k)
      PROVE  Keyed'
  <2>1. /\ \A u \in Calls \ {t} : task'[u] = task[u]
        /\ task'[t].pc \in {"acquire", "inventory.reserve", "inventory.release"}
    BY <1>2, <1>8 DEF RequestReservation
  <2>2. QED
    BY <1>8, <2>1, QuietStep DEF RequestReservation
<1>9. ASSUME NEW t \in Calls, Acquire(t) PROVE Keyed'
  <2>1. task[t] \in MoveTasks \cup ReservationTasks /\ task[t].id \in IdemKeys
    BY <1>1, <1>9, TaskShapes DEF Acquire, MoveTasks, ReservationTasks
  <2>2. CASE /\ AcquireOutcome(record[task[t].id], task[t].print) = "ACQUIRED"
             /\ record' = [record EXCEPT ![task[t].id] = Processing(t, task[t].print)]
             /\ \E step : Goto(t, step)
    <3>1. record[task[t].id] = Absent
      BY <2>2, RowFields
    <3>2. /\ \A u \in Calls \ {t} : task'[u] = task[u]
          /\ task'[t].id = task[t].id
          /\ task'[t].print = task[t].print
      BY <2>1, <2>2, <1>6
    <3>3. QED
      BY <1>9, <2>1, <2>2, <3>1, <3>2, AcquireStep DEF Acquire
  <2>3. CASE Finish(t) /\ UNCHANGED record
    BY <1>4, <1>9, <2>3, QuietStep DEF Acquire
  <2>4. QED
    BY <1>9, <2>2, <2>3 DEF Acquire
<1>10. ASSUME NEW t \in Calls, task[t].pc \in {"move", "create"},
              \E step : Goto(t, step), UNCHANGED <<record, ledger>>
       PROVE  Keyed'
  <2>1. task[t] \in MoveTasks
    BY <1>1, <1>10, TaskShapes
  <2>2. /\ \A u \in Calls \ {t} : task'[u] = task[u]
        /\ task'[t].id = task[t].id
        /\ task'[t].print = task[t].print
    BY <1>6, <1>10, <2>1
  <2>3. QED
    BY <1>10, <2>2, QuietStep
<1>11. ASSUME NEW t \in Calls, NEW p \in Pools, Record(t, p), Conclude(t, "APPLIED"),
              UNCHANGED record, task[t].pc \in {"move", "create"},
              MovementPermitted(p, task[t].print.movement),
              \/ p = pool[Sku(t)] /\ p # NoPool /\ p.version = task[t].print.version
              \/ p = InitialPool /\ pool[Sku(t)] = NoPool /\ task[t].print.version = 0
       PROVE  Keyed'
  <2>1. task[t] \in MoveTasks /\ Sku(t) \in Skus
    BY <1>1, <1>11, TaskShapes DEF MoveTasks, IdemKeys, Sku
  <2>2. Moves(t, p)
    BY <1>11, <2>1 DEF Moves
  <2>3. /\ \A u \in Calls \ {t} : task'[u] = task[u]
        /\ task'[t].pc \notin {"move", "create", "abandon"}
    BY <1>5, <1>11
  <2>4. QED
    BY <2>2, <2>3, MoveStep
<1>12. ASSUME NEW t \in Calls, FindNoPool(t) PROVE Keyed'
  BY <1>10, <1>12 DEF FindNoPool
<1>13. ASSUME NEW t \in Calls, CreatePool(t) PROVE Keyed'
  <2>1. /\ task[t].print.version = 0
        /\ MovementPermitted(InitialPool, task[t].print.movement)
    BY <1>1, <1>13, TaskShapes DEF CreatePool
  <2>2. CASE pool[Sku(t)] = NoPool /\ Record(t, InitialPool) /\ Conclude(t, "APPLIED")
    BY <1>11, <1>13, <2>1, <2>2, PoolShapes DEF CreatePool
  <2>3. CASE Goto(t, "abandon") /\ UNCHANGED <<pool, ledger>>
    BY <1>10, <1>13, <2>3 DEF CreatePool
  <2>4. QED
    BY <1>13, <2>2, <2>3 DEF CreatePool
<1>14. ASSUME NEW t \in Calls, ApplyMovement(t) PROVE Keyed'
  <2>1. pool[Sku(t)] \in Pools
    BY <1>1, <1>14, TaskShapes
    DEF ApplyMovement, MoveTasks, IdemKeys, Sku, Sound, TypeOK
  <2>2. CASE Goto(t, "abandon") /\ UNCHANGED <<pool, ledger>>
    BY <1>10, <1>14, <2>2 DEF ApplyMovement
  <2>3. CASE /\ pool[Sku(t)].version = task[t].print.version
             /\ MovementPermitted(pool[Sku(t)], task[t].print.movement)
             /\ Record(t, pool[Sku(t)]) /\ Conclude(t, "APPLIED")
    BY <1>11, <1>14, <2>1, <2>3 DEF ApplyMovement
  <2>4. QED
    BY <1>14, <2>2, <2>3 DEF ApplyMovement
<1>15. ASSUME NEW t \in Calls, Reserve(t) \/ Release(t) \/ ReservationFails(t)
       PROVE  Keyed'
  <2>1. UNCHANGED <<record, ledger>> /\ \E result : Conclude(t, result)
    BY <1>15 DEF Reserve, Release, ReservationFails
  <2>2. QED
    BY <1>5, <2>1, QuietStep
<1>16. ASSUME NEW t \in Calls, Abandon(t) PROVE Keyed'
  <2>1. task[t].id \in IdemKeys
    BY <1>1, <1>16, TaskShapes DEF Abandon, MoveTasks
  <2>2. OwnProcessingRow(record[task[t].id], t) /\ Unused(task[t].id)
    BY <1>16, RowFields DEF Abandon, Keyed, Owns, OwnProcessingRow
  <2>3. QED
    BY <1>16, <2>1, <2>2, CloseStep DEF Abandon
<1>17. ASSUME NEW t \in Calls, Complete(t) PROVE Keyed'
  <2>1. task[t].id \in IdemKeys
    BY <1>1, <1>17, TaskShapes DEF Complete, CompleteTasks
  <2>2. PICK row : /\ row = Completed(task[t].print, task[t].result)
                   /\ row # Absent
    BY RowFields
  <2>3. /\ UNCHANGED ledger /\ Finish(t)
        /\ OwnProcessingRow(record[task[t].id], t)
        /\ record' = [record EXCEPT ![task[t].id] = row]
    BY <1>17, <2>2 DEF Complete
  <2>4. row = Absent => Unused(task[t].id)
    BY <2>2
  <2>5. QED
    BY <2>1, <2>3, <2>4, CloseStep
<1>18. ASSUME NEW t \in Calls, Drop(t) PROVE Keyed'
  BY <1>4, <1>18, QuietStep DEF Drop
<1>19. CASE UNCHANGED vars
  BY <1>19 DEF vars, Keyed, Owns, Unused, Kept, OneMovementPerKey
<1>20. QED
  BY <1>7, <1>8, <1>9, <1>12, <1>13, <1>14, <1>15, <1>16, <1>17, <1>18, <1>19 DEF Next

\* For any number of calls and keys, and wherever calls are interrupted, no key
\* moves stock twice.
THEOREM KeysMoveOnce == Spec => []OneMovementPerKey
<1>1. Keyed => OneMovementPerKey
  BY DEF Keyed
<1>2. QED
  BY <1>1, KeyedInit, KeyedNext, AlwaysSound, PTL DEF Spec
===============================================================================
