----------------------------- MODULE SweepProofs -----------------------------
(***************************************************************************)
(* Theorems about Sweep for any number of jobs, sources and items, any     *)
(* bound of the pools and any cap, with any faults.                        *)
(*                                                                         *)
(* That two sweeps never overlap rests on two things at once: the token is *)
(* out while a job is not idle (TokenOK), and a job has work in flight     *)
(* only where its pool waits for it (PoolsOK).  The watermark is then      *)
(* never ahead of the sweep that runs (ClockOK).                           *)
(***************************************************************************)
EXTENDS Sweep, ListsProofs, FiniteSetTheorems, TLAPS

\* One job at a time, and none while the token is in its channel or the process down.
TokenOK ==
    /\ \A i, j \in Jobs : pc[i] # "idle" /\ pc[j] # "idle" => i = j
    /\ token => \A j \in Jobs : pc[j] = "idle"
    /\ ~up => token

\* A pool has something in flight only in its own part of a sweep, and no more than its bound.
PoolOK(j) ==
    /\ fetching[j] # {} => pc[j] = "fetch"
    /\ working[j] # {} => pc[j] = "process"
    /\ IsFiniteSet(fetching[j]) /\ Cardinality(fetching[j]) <= Concurrency
    /\ IsFiniteSet(working[j]) /\ Cardinality(working[j]) <= Concurrency

PoolsOK == \A j \in Jobs : PoolOK(j)

\* The watermark is not ahead of the sweep that runs, nor of the clock.
ClockOK ==
    /\ watermark <= now
    /\ \A j \in Jobs : pc[j] # "idle" => watermark <= started[j] /\ started[j] <= now

IInv == TypeOK /\ TokenOK /\ PoolsOK /\ ClockOK

----------------------------------------------------------------------------
(* Types.                                                                  *)

\* The items of a feed are items, in a list.
LEMMA FeedsHoldItems ==
  ASSUME NEW s \in Range(Sources)
  PROVE  FeedOf[s] \in Seq(Items)
  BY SweepAssumption DEF Items

\* What a feed brings is a list of items.
LEMMA DiscoveredIsList ==
  ASSUME NEW s \in Range(Sources)
  PROVE  Discovered(s) \in Seq(Items)
  BY FeedsHoldItems, KeptProperties DEF Discovered

\* The cap cuts a list short.
LEMMA CappedIsList ==
  ASSUME NEW list \in Seq(Items)
  PROVE  Capped(list) \in Seq(Items)
<1>1. CASE MaxArticles >= 0 /\ Len(list) > MaxArticles
  <2>1. MaxArticles \in Nat /\ \A i \in 1 .. MaxArticles : list[i] \in Items
    BY <1>1, SweepAssumption, LenProperties, ElementOfSeq
  <2>2. SubSeq(list, 1, MaxArticles) \in Seq(Items)
    BY <2>1, SubSeqProperties
  <2>3. QED
    BY <1>1, <2>2 DEF Capped
<1>2. QED
  BY <1>1 DEF Capped

\* What Run leaves behind.
LEMMA ReturnType ==
  ASSUME TypeOK, NEW j \in Jobs, Return(j)
  PROVE  /\ token' = TRUE
         /\ pc' \in [Jobs -> {"idle", "read", "fetch", "process", "mark"}]
         /\ started' \in [Jobs -> 0 .. MaxTicks]
         /\ toFetch' \in [Jobs -> Seq(Range(Sources))]
         /\ found' \in [Jobs -> Seq(Items)] /\ todo' \in [Jobs -> Seq(Items)]
         /\ pooled' \in [Jobs -> BOOLEAN]
         /\ started'[j] = 0 /\ toFetch'[j] = <<>> /\ found'[j] = <<>> /\ todo'[j] = <<>> /\ pc'[j] = "idle"
         /\ \A i \in Jobs \ {j} : /\ pc'[i] = pc[i] /\ started'[i] = started[i] /\ toFetch'[i] = toFetch[i]
                                  /\ found'[i] = found[i] /\ todo'[i] = todo[i]
  BY SweepAssumption, EmptySeq DEF TypeOK, Return

\* So the types stay when it has nothing under way any more.
LEMMA Returns ==
  ASSUME TypeOK, NEW j \in Jobs, Return(j), UNCHANGED <<up, now, world>>, watermark' \in 0 .. MaxTicks,
         fetching' \in [Jobs -> SUBSET Range(Sources)], working' \in [Jobs -> SUBSET Items],
         \A i \in Jobs \ {j} : fetching'[i] = fetching[i] /\ working'[i] = working[i],
         fetching'[j] = {}, working'[j] = {}
  PROVE  TypeOK'
<1>1. \A i \in Jobs :
         /\ pc'[i] = "idle" => started'[i] = 0
         /\ toFetch'[i] # <<>> \/ fetching'[i] # {} \/ found'[i] # <<>> => pc'[i] = "fetch"
         /\ todo'[i] # <<>> \/ working'[i] # {} => pc'[i] = "process"
  <2> SUFFICES ASSUME NEW i \in Jobs
               PROVE  /\ pc'[i] = "idle" => started'[i] = 0
                      /\ toFetch'[i] # <<>> \/ fetching'[i] # {} \/ found'[i] # <<>> => pc'[i] = "fetch"
                      /\ todo'[i] # <<>> \/ working'[i] # {} => pc'[i] = "process"
    OBVIOUS
  <2>1. CASE i = j
    BY <2>1, ReturnType
  <2>2. CASE i # j
    <3>1. /\ pc'[i] = pc[i] /\ started'[i] = started[i] /\ toFetch'[i] = toFetch[i]
          /\ found'[i] = found[i] /\ todo'[i] = todo[i]
      BY <2>2, ReturnType
    <3>2. fetching'[i] = fetching[i] /\ working'[i] = working[i]
      BY <2>2
    <3>3. /\ pc[i] = "idle" => started[i] = 0
          /\ toFetch[i] # <<>> \/ fetching[i] # {} \/ found[i] # <<>> => pc[i] = "fetch"
          /\ todo[i] # <<>> \/ working[i] # {} => pc[i] = "process"
      BY DEF TypeOK
    <3>4. QED
      BY <3>1, <3>2, <3>3
  <2>3. QED
    BY <2>1, <2>2
<1>2. QED
  BY <1>1, ReturnType DEF TypeOK, world

\* What a halt leaves behind.
LEMMA HaltType ==
  ASSUME TypeOK, Halt
  PROVE  TypeOK'
<1>1. <<>> \in Seq(Range(Sources)) /\ <<>> \in Seq(Items)
  BY EmptySeq
<1>2. 0 \in 0 .. MaxTicks
  BY SweepAssumption
<1>3. QED
  BY <1>1, <1>2 DEF TypeOK, Halt, world

\* The system starts in a state of the right type.
LEMMA InitType == Init => TypeOK
  BY SweepAssumption, EmptySeq DEF Init, TypeOK

\* Every step keeps every variable in its type.
LEMMA NextType ==
  ASSUME TypeOK, PoolsOK, [Next]_vars
  PROVE  TypeOK'
<1> USE SweepAssumption DEF world, job
<1>1. ASSUME NEW j \in Jobs, Tick(j)
      PROVE  TypeOK'
  <2>1. now' \in 1 .. MaxTicks /\ now \in 0 .. MaxTicks
    BY <1>1 DEF TypeOK, Tick, Later
  <2>2. started' \in [Jobs -> 0 .. MaxTicks] /\ pc' \in [Jobs -> {"idle", "read", "fetch", "process", "mark"}]
    BY <1>1, <2>1 DEF TypeOK, Tick
  <2>3. \A i \in Jobs : pc'[i] = "idle" => started'[i] = started[i] /\ pc[i] = "idle"
    BY <1>1 DEF TypeOK, Tick
  <2>4. QED
    BY <1>1, <2>1, <2>2, <2>3 DEF TypeOK, Tick
<1>2. ASSUME NEW j \in Jobs, ReadSystem(j)
      PROVE  TypeOK'
  BY <1>2 DEF TypeOK, ReadSystem, Goroutines
<1>3. ASSUME NEW j \in Jobs, SkipSweep(j)
      PROVE  TypeOK'
  <2>1. fetching[j] = {} /\ working[j] = {}
    BY <1>3 DEF TypeOK, SkipSweep
  <2>2. QED
    BY <1>3, <2>1, Returns DEF SkipSweep, TypeOK
<1>4. ASSUME NEW j \in Jobs, DispatchFetch(j)
      PROVE  TypeOK'
  <2>1. toFetch[j] \in Seq(Range(Sources)) /\ toFetch[j] # <<>>
    BY <1>4 DEF TypeOK, DispatchFetch
  <2>2. Head(toFetch[j]) \in Range(Sources) /\ Tail(toFetch[j]) \in Seq(Range(Sources))
    BY <2>1, HeadTailProperties
  <2>3. QED
    BY <1>4, <2>2 DEF TypeOK, DispatchFetch
<1>5. ASSUME NEW j \in Jobs, NEW s \in Range(Sources), FetchOk(j, s)
      PROVE  TypeOK'
  <2>1. found[j] \o Discovered(s) \in Seq(Items)
    BY DiscoveredIsList, ConcatProperties DEF TypeOK
  <2>2. pc[j] = "fetch"
    BY <1>5 DEF FetchOk, PoolsOK, PoolOK
  <2>3. QED
    BY <1>5, <2>1, <2>2 DEF TypeOK, FetchOk
<1>6. ASSUME NEW j \in Jobs, NEW s \in Range(Sources), FetchFails(j, s)
      PROVE  TypeOK'
  BY <1>6 DEF TypeOK, FetchFails
<1>7. ASSUME NEW j \in Jobs, EndFetch(j)
      PROVE  TypeOK'
  <2>1. Capped(found[j]) \in Seq(Items)
    BY CappedIsList DEF TypeOK
  <2>2. QED
    BY <1>7, <2>1, EmptySeq DEF TypeOK, EndFetch, Goroutines
<1>8. ASSUME NEW j \in Jobs, DispatchItem(j)
      PROVE  TypeOK'
  <2>1. todo[j] \in Seq(Items) /\ todo[j] # <<>>
    BY <1>8 DEF TypeOK, DispatchItem
  <2>2. Head(todo[j]) \in Items /\ Tail(todo[j]) \in Seq(Items)
    BY <2>1, HeadTailProperties
  <2>3. QED
    BY <1>8, <2>2 DEF TypeOK, DispatchItem
<1>9. ASSUME NEW j \in Jobs, NEW i \in Items, Store(j, i) \/ Drop(j, i)
      PROVE  TypeOK'
  BY <1>9 DEF TypeOK, Store, Drop
<1>10. ASSUME NEW j \in Jobs, EndProcess(j)
       PROVE  TypeOK'
  BY <1>10 DEF TypeOK, EndProcess
<1>11. ASSUME NEW j \in Jobs, Mark(j)
       PROVE  TypeOK'
  <2>1. watermark' \in 0 .. MaxTicks
    BY <1>11 DEF TypeOK, Mark
  <2>2. QED
    <3>1. fetching[j] = {} /\ working[j] = {}
      BY <1>11 DEF TypeOK, Mark
    <3>2. QED
      BY <1>11, <2>1, <3>1, Returns DEF Mark, TypeOK
<1>12. ASSUME NEW j \in Jobs, Panic(j)
       PROVE  TypeOK'
  <2>1. CASE Halt
    BY <2>1, HaltType
  <2>2. CASE /\ Return(j)
             /\ fetching' = [fetching EXCEPT ![j] = {}]
             /\ working' = [working EXCEPT ![j] = {}]
             /\ UNCHANGED <<up, now, watermark, world>>
    <3>1. fetching'[j] = {} /\ working'[j] = {}
      BY <2>2 DEF TypeOK
    <3>2. /\ fetching' \in [Jobs -> SUBSET Range(Sources)] /\ working' \in [Jobs -> SUBSET Items]
          /\ \A i \in Jobs \ {j} : fetching'[i] = fetching[i] /\ working'[i] = working[i]
      BY <2>2 DEF TypeOK
    <3>3. watermark' \in 0 .. MaxTicks
      BY <2>2 DEF TypeOK
    <3>4. QED
      BY <2>2, <3>1, <3>2, <3>3, Returns
  <2>3. QED
    BY <1>12, <2>1, <2>2 DEF Panic
<1>13. CASE SkipTick
  BY <1>13 DEF TypeOK, SkipTick, Later
<1>14. CASE UpdateAppStatus
  BY <1>14 DEF TypeOK, UpdateAppStatus
<1>15. ASSUME NEW i \in Items, Appear(i)
       PROVE  TypeOK'
  BY <1>15 DEF TypeOK, Appear
<1>16. CASE Crash
  BY <1>16, HaltType DEF Crash
<1>17. CASE Restart
  BY <1>17 DEF TypeOK, Restart
<1>18. CASE UNCHANGED vars
  BY <1>18 DEF TypeOK, vars
<1>19. QED
  BY <1>1, <1>2, <1>3, <1>4, <1>5, <1>6, <1>7, <1>8, <1>9, <1>10, <1>11, <1>12, <1>13, <1>14, <1>15, <1>16, <1>17, <1>18
  DEF Next, RunStep, FetchDone, ItemDone

----------------------------------------------------------------------------
(* One bounded sweep at a time.                                            *)

\* Return makes room for the next sweep.
LEMMA ReturnPcs ==
  ASSUME TypeOK, NEW j \in Jobs, Return(j)
  PROVE  /\ token' = TRUE /\ pc'[j] = "idle"
         /\ \A i \in Jobs : i # j => pc'[i] = pc[i] /\ started'[i] = started[i]
  BY DEF TypeOK, Return

\* Every step keeps the token out while a job is not idle.
LEMMA NextToken ==
  ASSUME TypeOK, TokenOK, PoolsOK, [Next]_vars
  PROVE  TokenOK'
<1> USE DEF world, job
<1>1. ASSUME NEW j \in Jobs, Tick(j)
      PROVE  TokenOK'
  BY <1>1 DEF TypeOK, TokenOK, Tick
<1>2. ASSUME NEW j \in Jobs, Return(j), UNCHANGED up, pc[j] # "idle"
      PROVE  TokenOK'
  BY <1>2, ReturnPcs DEF TokenOK
<1>3. ASSUME NEW j \in Jobs, up, pc[j] # "idle", UNCHANGED <<up, token>>, \A i \in Jobs : i # j => pc'[i] = pc[i]
      PROVE  TokenOK'
  BY <1>3 DEF TokenOK
<1>4. ASSUME NEW j \in Jobs, ReadSystem(j) \/ EndFetch(j) \/ EndProcess(j)
      PROVE  TokenOK'
  BY <1>3, <1>4 DEF TypeOK, ReadSystem, EndFetch, EndProcess
<1>5. ASSUME NEW j \in Jobs, SkipSweep(j) \/ Mark(j)
      PROVE  TokenOK'
  BY <1>2, <1>5 DEF SkipSweep, Mark
<1>6. CASE Halt
  BY <1>6 DEF Halt, TokenOK
<1>7. ASSUME NEW j \in Jobs, Panic(j)
      PROVE  TokenOK'
  <2>1. pc[j] # "idle"
    BY <1>7 DEF Panic, PoolsOK, PoolOK
  <2>2. QED
    BY <1>2, <1>6, <1>7, <2>1 DEF Panic
<1>8. CASE Crash
  BY <1>6, <1>8 DEF Crash
<1>9. CASE Restart
  BY <1>9 DEF Restart, TokenOK
<1>10. CASE UNCHANGED <<up, token, pc>>
  BY <1>10 DEF TokenOK
<1>11. QED
  BY <1>1, <1>4, <1>5, <1>7, <1>8, <1>9, <1>10
  DEF Next, RunStep, FetchDone, ItemDone, DispatchFetch, FetchOk, FetchFails, DispatchItem, Store, Drop,
      SkipTick, UpdateAppStatus, Appear, vars

\* Every step keeps the pools within their bound and their part of the sweep.
LEMMA NextPools ==
  ASSUME TypeOK, PoolsOK, [Next]_vars
  PROVE  PoolsOK'
<1> USE SweepAssumption DEF world, job
<1>1. ASSUME NEW j \in Jobs, pc[j] \in {"idle", "read", "mark"}, UNCHANGED <<fetching, working>>,
             \A i \in Jobs : i # j => pc'[i] = pc[i]
      PROVE  PoolsOK'
  BY <1>1 DEF PoolsOK, PoolOK
<1>2. ASSUME NEW j \in Jobs, Tick(j) \/ ReadSystem(j) \/ SkipSweep(j) \/ Mark(j)
      PROVE  PoolsOK'
  BY <1>1, <1>2 DEF TypeOK, Tick, ReadSystem, SkipSweep, Mark, Return
<1>3. ASSUME NEW j \in Jobs, EndFetch(j) \/ EndProcess(j)
      PROVE  PoolsOK'
  BY <1>3 DEF TypeOK, PoolsOK, PoolOK, EndFetch, EndProcess
<1>4. ASSUME NEW j \in Jobs, DispatchFetch(j)
      PROVE  PoolsOK'
  <2> DEFINE s == Head(toFetch[j])
  <2>1. /\ fetching'[j] = fetching[j] \cup {s} /\ pc[j] = "fetch"
        /\ \A i \in Jobs : i # j => fetching'[i] = fetching[i]
        /\ UNCHANGED <<pc, working>>
    BY <1>4 DEF TypeOK, DispatchFetch
  <2>2. /\ IsFiniteSet(fetching[j]) /\ Cardinality(fetching[j]) < Concurrency
        /\ Cardinality(fetching[j]) \in Nat
    BY <1>4, FS_CardinalityType DEF DispatchFetch, PoolsOK, PoolOK
  <2>3. IsFiniteSet(fetching'[j]) /\ Cardinality(fetching'[j]) <= Concurrency
    <3>1. /\ IsFiniteSet(fetching[j] \cup {s})
          /\ Cardinality(fetching[j] \cup {s}) = IF s \in fetching[j] THEN Cardinality(fetching[j]) ELSE Cardinality(fetching[j]) + 1
      <4> HIDE DEF s
      <4>1. QED
        BY <2>2, FS_AddElement
    <3>2. QED
      BY <2>1, <2>2, <3>1
  <2>4. QED
    BY <2>1, <2>3 DEF PoolsOK, PoolOK
<1>5. ASSUME NEW j \in Jobs, DispatchItem(j)
      PROVE  PoolsOK'
  <2> DEFINE i == Head(todo[j])
  <2>1. /\ working'[j] = working[j] \cup {i} /\ pc[j] = "process"
        /\ \A k \in Jobs : k # j => working'[k] = working[k]
        /\ UNCHANGED <<pc, fetching>>
    BY <1>5 DEF TypeOK, DispatchItem
  <2>2. /\ IsFiniteSet(working[j]) /\ Cardinality(working[j]) < Concurrency
        /\ Cardinality(working[j]) \in Nat
    BY <1>5, FS_CardinalityType DEF DispatchItem, PoolsOK, PoolOK
  <2>3. IsFiniteSet(working'[j]) /\ Cardinality(working'[j]) <= Concurrency
    <3>1. /\ IsFiniteSet(working[j] \cup {i})
          /\ Cardinality(working[j] \cup {i}) = IF i \in working[j] THEN Cardinality(working[j]) ELSE Cardinality(working[j]) + 1
      <4> HIDE DEF i
      <4>1. QED
        BY <2>2, FS_AddElement
    <3>2. QED
      BY <2>1, <2>2, <3>1
  <2>4. QED
    BY <2>1, <2>3 DEF PoolsOK, PoolOK
<1>6. ASSUME \A j \in Jobs : /\ fetching'[j] \subseteq fetching[j] /\ working'[j] \subseteq working[j]
                             /\ fetching'[j] \cup working'[j] # {} => pc'[j] = pc[j]
      PROVE  PoolsOK'
  <2> SUFFICES ASSUME NEW j \in Jobs
               PROVE  PoolOK(j)'
    BY DEF PoolsOK
  <2>1. fetching'[j] \in SUBSET fetching[j] /\ working'[j] \in SUBSET working[j]
    BY <1>6
  <2>2. /\ IsFiniteSet(fetching'[j]) /\ Cardinality(fetching'[j]) <= Cardinality(fetching[j])
        /\ IsFiniteSet(working'[j]) /\ Cardinality(working'[j]) <= Cardinality(working[j])
    BY <2>1, FS_Subset DEF PoolsOK, PoolOK
  <2>3. /\ Cardinality(fetching[j]) \in Nat /\ Cardinality(fetching'[j]) \in Nat
        /\ Cardinality(working[j]) \in Nat /\ Cardinality(working'[j]) \in Nat
    BY <2>2, FS_CardinalityType DEF PoolsOK, PoolOK
  <2>4. QED
    BY <1>6, <2>2, <2>3 DEF PoolsOK, PoolOK
<1>7. ASSUME NEW j \in Jobs, FetchDone(j) \/ ItemDone(j)
      PROVE  PoolsOK'
  <2>1. ASSUME NEW s, FetchOk(j, s) \/ FetchFails(j, s)
        PROVE  PoolsOK'
    <3>1. CASE FetchOk(j, s)
      BY <1>6, <3>1 DEF TypeOK, FetchOk
    <3>2. CASE FetchFails(j, s)
      BY <1>6, <3>2 DEF TypeOK, FetchFails
    <3>3. QED
      BY <2>1, <3>1, <3>2
  <2>2. ASSUME NEW i, Store(j, i) \/ Drop(j, i)
        PROVE  PoolsOK'
    BY <1>6, <2>2 DEF TypeOK, Store, Drop
  <2>3. QED
    BY <1>7, <2>1, <2>2 DEF FetchDone, ItemDone
<1>8. CASE Halt
  BY <1>6, <1>8 DEF Halt
<1>9. ASSUME NEW j \in Jobs, Panic(j)
      PROVE  PoolsOK'
  <2>1. CASE Halt
    BY <1>8, <2>1
  <2>2. CASE Return(j) /\ fetching' = [fetching EXCEPT ![j] = {}] /\ working' = [working EXCEPT ![j] = {}]
    <3>1. \A i \in Jobs : /\ fetching'[i] = IF i = j THEN {} ELSE fetching[i]
                          /\ working'[i] = IF i = j THEN {} ELSE working[i]
      BY <2>2 DEF TypeOK
    <3>2. \A i \in Jobs : i # j => pc'[i] = pc[i]
      BY <2>2 DEF TypeOK, Return
    <3>3. QED
      BY <1>6, <3>1, <3>2
  <2>3. QED
    BY <1>9, <2>1, <2>2 DEF Panic
<1>10. CASE UNCHANGED <<fetching, working, pc>>
  BY <1>10 DEF PoolsOK, PoolOK
<1>11. QED
  BY <1>2, <1>3, <1>4, <1>5, <1>7, <1>8, <1>9, <1>10
  DEF Next, RunStep, SkipTick, UpdateAppStatus, Appear, Crash, Restart, vars

\* Every step keeps the watermark behind the sweep that runs and behind the clock.
LEMMA NextClock ==
  ASSUME TypeOK, TokenOK, PoolsOK, ClockOK, [Next]_vars
  PROVE  ClockOK'
<1> USE DEF world, job
<1>0. now \in Int /\ watermark \in Int /\ \A j \in Jobs : started[j] \in Int
  BY SweepAssumption DEF TypeOK
<1>1. now' \in Int /\ now <= now'
  BY <1>0, SweepAssumption DEF Next, RunStep, Tick, SkipTick, Later, ReadSystem, SkipSweep, DispatchFetch, FetchDone,
     FetchOk, FetchFails, EndFetch, DispatchItem, ItemDone, Store, Drop, EndProcess, Mark, UpdateAppStatus, Appear,
     Panic, Halt, Crash, Restart, vars
<1>2. ASSUME UNCHANGED watermark, \A j \in Jobs : pc'[j] # "idle" => pc[j] # "idle" /\ started'[j] = started[j]
      PROVE  ClockOK'
  BY <1>0, <1>1, <1>2 DEF ClockOK
<1>3. ASSUME NEW j \in Jobs, Tick(j)
      PROVE  ClockOK'
  BY <1>0, <1>1, <1>3 DEF TypeOK, ClockOK, Tick
<1>4. ASSUME NEW j \in Jobs, Mark(j)
      PROVE  ClockOK'
  <2>1. pc[j] # "idle" /\ Return(j)
    BY <1>4 DEF Mark
  <2>2. \A i \in Jobs : pc'[i] = "idle"
    BY <2>1, ReturnPcs DEF TokenOK
  <2>3. watermark' \in {watermark, started[j]}
    BY <1>4 DEF Mark
  <2>4. watermark' <= now'
    BY <1>0, <1>1, <2>1, <2>3 DEF ClockOK
  <2>5. QED
    BY <2>2, <2>4 DEF ClockOK
<1>5. ASSUME NEW j \in Jobs, ReadSystem(j) \/ EndFetch(j) \/ EndProcess(j)
      PROVE  ClockOK'
  BY <1>2, <1>5 DEF TypeOK, ReadSystem, EndFetch, EndProcess
<1>6. ASSUME NEW j \in Jobs, Return(j), UNCHANGED watermark
      PROVE  ClockOK'
  BY <1>2, <1>6, ReturnPcs
<1>7. CASE Halt
  BY <1>2, <1>7 DEF Halt
<1>8. CASE UNCHANGED <<watermark, pc, started>>
  BY <1>2, <1>8
<1>9. QED
  BY <1>3, <1>4, <1>5, <1>6, <1>7, <1>8
  DEF Next, RunStep, SkipSweep, Panic, FetchDone, ItemDone, DispatchFetch, FetchOk, FetchFails, DispatchItem, Store, Drop,
      SkipTick, UpdateAppStatus, Appear, Crash, Restart, vars

\* The invariant holds at the start, and every step keeps it.
LEMMA InitInvariant == Init => IInv
<1>1. Init => PoolsOK
  BY FS_EmptySet, SweepAssumption DEF Init, PoolsOK, PoolOK
<1>2. QED
  BY <1>1, InitType DEF Init, IInv, TokenOK, ClockOK

LEMMA NextInvariant == IInv /\ [Next]_vars => IInv'
  BY NextType, NextToken, NextPools, NextClock DEF IInv

\* Every variable holds a value of its type, and each part of a sweep leaves nothing under
\* way or in hand for the parts after it.
THEOREM TypeCorrect == Spec => []TypeOK
<1>1. IInv => TypeOK
  BY DEF IInv
<1>2. QED
  BY <1>1, InitInvariant, NextInvariant, PTL DEF Spec

\* Two sweeps never have work under way at once, the pools stay within their bound, and
\* no sweep finds the watermark ahead of its own start.
THEOREM OneSweep == Spec => []OneBoundedSweep
<1>1. IInv => OneBoundedSweep
  <2> SUFFICES ASSUME IInv
               PROVE  OneBoundedSweep
    OBVIOUS
  <2>1. \A j \in Jobs : Busy(j) => pc[j] # "idle"
    BY DEF Busy, IInv, PoolsOK, PoolOK
  <2>2. ASSUME NEW j \in Jobs
        PROVE  Cardinality(fetching[j]) + Cardinality(working[j]) <= Concurrency
    <3>1. /\ Cardinality(fetching[j]) \in Nat /\ Cardinality(fetching[j]) <= Concurrency
          /\ Cardinality(working[j]) \in Nat /\ Cardinality(working[j]) <= Concurrency
      BY FS_CardinalityType DEF IInv, PoolsOK, PoolOK
    <3>2. fetching[j] = {} \/ working[j] = {}
      BY DEF IInv, PoolsOK, PoolOK
    <3>3. Cardinality(fetching[j]) = 0 \/ Cardinality(working[j]) = 0
      BY <3>2, FS_EmptySet
    <3>4. QED
      BY <3>1, <3>3, SweepAssumption
  <2>3. QED
    BY <2>1, <2>2 DEF IInv, TokenOK, ClockOK, OneBoundedSweep
<1>2. QED
  BY <1>1, InitInvariant, NextInvariant, PTL DEF Spec

----------------------------------------------------------------------------
(* What a sweep may do to the watermark.                                   *)

\* The watermark never goes back: it takes the start of a sweep, and the sweeps follow
\* one another.
WatermarkRises == [][watermark <= watermark']_vars

\* Discovery never looks back behind what it has marked as discovered, whatever fails.
THEOREM WatermarkIsMonotonic == Spec => WatermarkRises
<1>1. IInv /\ [Next]_vars => [watermark <= watermark']_vars
  <2> SUFFICES ASSUME IInv, Next
               PROVE  watermark <= watermark'
    BY DEF vars
  <2>1. watermark \in Int /\ \A j \in Jobs : started[j] \in Int
    BY SweepAssumption DEF IInv, TypeOK
  <2>2. ASSUME NEW j \in Jobs, Mark(j)
        PROVE  watermark <= watermark'
    BY <2>1, <2>2 DEF Mark, IInv, ClockOK
  <2>3. CASE UNCHANGED watermark
    BY <2>1, <2>3
  <2>4. QED
    BY <2>2, <2>3
    DEF Next, RunStep, Tick, SkipTick, ReadSystem, SkipSweep, DispatchFetch, FetchDone, FetchOk, FetchFails, EndFetch,
        DispatchItem, ItemDone, Store, Drop, EndProcess, UpdateAppStatus, Appear, Panic, Halt, Crash, Restart, world, job
<1>2. QED
  BY <1>1, InitInvariant, NextInvariant, PTL DEF Spec, WatermarkRises
===============================================================================
