-------------------------------- MODULE Sweep --------------------------------
(***************************************************************************)
(* The discovery sweep: the cron engine that starts it, the maintenance    *)
(* switch that holds it back, the bounded pool that fetches the feeds, the *)
(* bounded pool that works through what they brought, and the watermark    *)
(* (services/cron/cron.go, TreatmentProcessor.Process, system row).        *)
(*                                                                         *)
(* What happens to one item is Pipeline's business: here it is stored or   *)
(* dropped.  The list of sources is fixed; an item is in one feed.  The    *)
(* sequential path of a pool is the pool of one: same order, same effect;  *)
(* only a panic tells them apart.  The sweep's context is never cancelled  *)
(* (context.Background()), so the ctx.Done branches are not reachable.     *)
(* Time is counted in ticks of the schedule and stands still at MaxTicks,  *)
(* while ticks go on.                                                      *)
(***************************************************************************)
EXTENDS FiniteSets, Lists

CONSTANTS
    Jobs,         \* goroutines that the cron engine runs ticks in
    Sources,      \* the active sources, in the order of ListAll
    FeedOf,       \* [source -> the items its feed will carry, in order]
    Concurrency,  \* DISCOVERY_CONCURRENCY
    MaxArticles,  \* DISCOVERY_MAX_ARTICLES, -1 for no cap
    MaxTicks,     \* bound: time stands still from there on
    Faults        \* the failures that may happen

AllFaults == {"db", "fetch", "item", "panic", "crash"}

ASSUME SweepAssumption ==
    /\ Sources \in Seq(Range(Sources)) /\ IsInjective(Sources)
    /\ FeedOf \in [Range(Sources) -> Seq(UNION {Range(FeedOf[s]) : s \in Range(Sources)})]
    /\ Concurrency \in Nat \ {0}
    /\ MaxArticles \in Nat \cup {-1}
    /\ MaxTicks \in Nat \ {0}
    /\ Faults \subseteq AllFaults

Items == UNION {Range(FeedOf[s]) : s \in Range(Sources)}

VARIABLES
    up,         \* the process is running
    now,        \* the clock
    appOn,      \* system.app_status
    watermark,  \* system.last_article_discovery_at; 0 is NULL
    pubAt,      \* pubAt[i]: when i appeared in its feed; 0 is not yet
    stored,     \* the items stored as articles
    token,      \* SkipIfStillRunning's token is in its channel
    pc,
    started,    \* started[j]: Run's now
    toFetch,    \* toFetch[j]: sources no goroutine has been started for
    fetching,   \* fetching[j]: sources being fetched
    found,      \* found[j]: fetchAll's `all`
    todo,       \* todo[j]: items not dispatched
    working,    \* working[j]: items being processed
    pooled      \* pooled[j]: the pool at work runs goroutines (else: sequential path)

world == <<appOn, pubAt, stored>>
job   == <<pc, started, toFetch, fetching, found, todo, working, pooled>>
vars  == <<up, now, watermark, token, world, job>>

Init ==
    /\ up = TRUE
    /\ now = 1
    /\ appOn = TRUE
    /\ watermark = 0
    /\ pubAt = [i \in Items |-> 0]
    /\ stored = {}
    /\ token = TRUE
    /\ pc = [j \in Jobs |-> "idle"]
    /\ started = [j \in Jobs |-> 0]
    /\ toFetch = [j \in Jobs |-> <<>>]
    /\ fetching = [j \in Jobs |-> {}]
    /\ found = [j \in Jobs |-> <<>>]
    /\ todo = [j \in Jobs |-> <<>>]
    /\ working = [j \in Jobs |-> {}]
    /\ pooled = [j \in Jobs |-> FALSE]

Later == IF now < MaxTicks THEN now + 1 ELSE now

\* Run returns: what it held is gone (not the goroutines it may have left), and
\* SkipIfStillRunning puts its token back.
\* Mutation: the token comes back from a full run only.
Return_KeepsToken(j) ==
    /\ pc' = [pc EXCEPT ![j] = "idle"]
    /\ started' = [started EXCEPT ![j] = 0]
    /\ token' = (pc[j] = "mark")
    /\ UNCHANGED <<toFetch, found, todo, pooled>>

Return(j) ==
    /\ pc' = [pc EXCEPT ![j] = "idle"]
    /\ started' = [started EXCEPT ![j] = 0]
    /\ toFetch' = [toFetch EXCEPT ![j] = <<>>]
    /\ found' = [found EXCEPT ![j] = <<>>]
    /\ todo' = [todo EXCEPT ![j] = <<>>]
    /\ pooled' = [pooled EXCEPT ![j] = FALSE]
    /\ token' = TRUE

----------------------------------------------------------------------------
(* The cron engine.                                                        *)

\* A tick runs the job unless the last one still runs.
Tick(j) ==
    /\ up /\ pc[j] = "idle"
    /\ token
    /\ now' = Later
    /\ token' = FALSE
    /\ pc' = [pc EXCEPT ![j] = "read"]
    /\ started' = [started EXCEPT ![j] = now]
    /\ UNCHANGED <<up, watermark, world, toFetch, fetching, found, todo, working, pooled>>

SkipTick ==
    /\ up /\ ~token
    /\ now' = Later
    /\ UNCHANGED <<up, watermark, token, world, job>>

----------------------------------------------------------------------------
(* DiscoveryRunner.Run.                                                    *)

\* A pool of one, or with one task at most, takes the sequential path.
Goroutines(n) == Concurrency > 1 /\ n > 1

\* The first transaction: app_status, and the sources if it is on.
ReadSystem(j) ==
    /\ up /\ pc[j] = "read"
    /\ appOn
    /\ pc' = [pc EXCEPT ![j] = "fetch"]
    /\ toFetch' = [toFetch EXCEPT ![j] = Sources]
    /\ pooled' = [pooled EXCEPT ![j] = Goroutines(Len(Sources))]
    /\ UNCHANGED <<up, now, watermark, token, world, started, fetching, found, todo, working>>

\* Maintenance, or the transaction failed: no sweep.
SkipSweep(j) ==
    /\ up /\ pc[j] = "read"
    /\ ~appOn \/ "db" \in Faults
    /\ Return(j)
    /\ UNCHANGED <<up, now, watermark, world, fetching, working>>

\* The next source gets a goroutine when the pool has a slot.
DispatchFetch(j) ==
    /\ up /\ pc[j] = "fetch" /\ toFetch[j] # <<>>
    /\ Cardinality(fetching[j]) < Concurrency
    /\ fetching' = [fetching EXCEPT ![j] = @ \cup {Head(toFetch[j])}]
    /\ toFetch' = [toFetch EXCEPT ![j] = Tail(@)]
    /\ UNCHANGED <<up, now, watermark, token, world, pc, started, found, todo, working, pooled>>

\* What a feed brings: all it carries, with no lower bound on the date.
\* Mutation: only what is newer than the watermark.
Discovered_Since(s) == Kept(FeedOf[s], {i \in Items : pubAt[i] > watermark})

Discovered(s) == Kept(FeedOf[s], {i \in Items : pubAt[i] > 0})

FetchOk(j, s) ==
    /\ up /\ s \in fetching[j]
    /\ found' = [found EXCEPT ![j] = @ \o Discovered(s)]
    /\ fetching' = [fetching EXCEPT ![j] = @ \ {s}]
    /\ UNCHANGED <<up, now, watermark, token, world, pc, started, toFetch, todo, working, pooled>>

\* The feed failed, its retries too: the sweep goes on without it.
FetchFails(j, s) ==
    /\ up /\ s \in fetching[j]
    /\ "fetch" \in Faults
    /\ fetching' = [fetching EXCEPT ![j] = @ \ {s}]
    /\ UNCHANGED <<up, now, watermark, token, world, pc, started, toFetch, found, todo, working, pooled>>

\* The cap on what a sweep hands to the processor.
Capped(all) == IF MaxArticles >= 0 /\ Len(all) > MaxArticles THEN SubSeq(all, 1, MaxArticles) ELSE all

\* Every fetch is waited for; then the processor gets the batch.
\* Mutation: nobody waits for the goroutines of the pool.
EndFetch_NoWait(j) ==
    /\ up /\ pc[j] = "fetch" /\ toFetch[j] = <<>>
    /\ pc' = [pc EXCEPT ![j] = "process"]
    /\ todo' = [todo EXCEPT ![j] = Capped(found[j])]
    /\ found' = [found EXCEPT ![j] = <<>>]
    /\ pooled' = [pooled EXCEPT ![j] = Goroutines(Len(Capped(found[j])))]
    /\ UNCHANGED <<up, now, watermark, token, world, started, toFetch, fetching, working>>

EndFetch(j) ==
    /\ up /\ pc[j] = "fetch" /\ toFetch[j] = <<>> /\ fetching[j] = {}
    /\ pc' = [pc EXCEPT ![j] = "process"]
    /\ todo' = [todo EXCEPT ![j] = Capped(found[j])]
    /\ found' = [found EXCEPT ![j] = <<>>]
    /\ pooled' = [pooled EXCEPT ![j] = Goroutines(Len(Capped(found[j])))]
    /\ UNCHANGED <<up, now, watermark, token, world, started, toFetch, fetching, working>>

\* TreatmentProcessor.Process: the same bounded pool, over items.
DispatchItem(j) ==
    /\ up /\ pc[j] = "process" /\ todo[j] # <<>>
    /\ Cardinality(working[j]) < Concurrency
    /\ working' = [working EXCEPT ![j] = @ \cup {Head(todo[j])}]
    /\ todo' = [todo EXCEPT ![j] = Tail(@)]
    /\ UNCHANGED <<up, now, watermark, token, world, pc, started, toFetch, fetching, found, pooled>>

Store(j, i) ==
    /\ up /\ i \in working[j]
    /\ i \notin stored
    /\ stored' = stored \cup {i}
    /\ working' = [working EXCEPT ![j] = @ \ {i}]
    /\ UNCHANGED <<up, now, watermark, token, appOn, pubAt, pc, started, toFetch, fetching, found, todo, pooled>>

\* The item is there already, or some step of it failed: it is dropped.
Drop(j, i) ==
    /\ up /\ i \in working[j]
    /\ i \in stored \/ "item" \in Faults
    /\ working' = [working EXCEPT ![j] = @ \ {i}]
    /\ UNCHANGED <<up, now, watermark, token, world, pc, started, toFetch, fetching, found, todo, pooled>>

\* Mutation: Process returns without waiting for the items in flight.
EndProcess_NoWait(j) ==
    /\ up /\ pc[j] = "process" /\ todo[j] = <<>>
    /\ pc' = [pc EXCEPT ![j] = "mark"]
    /\ UNCHANGED <<up, now, watermark, token, world, started, toFetch, fetching, found, todo, working, pooled>>

EndProcess(j) ==
    /\ up /\ pc[j] = "process" /\ todo[j] = <<>> /\ working[j] = {}
    /\ pc' = [pc EXCEPT ![j] = "mark"]
    /\ UNCHANGED <<up, now, watermark, token, world, started, toFetch, fetching, found, todo, working, pooled>>

\* The watermark takes the time the sweep started, and Run returns.
Mark(j) ==
    /\ up /\ pc[j] = "mark"
    /\ watermark' = started[j] \/ ("db" \in Faults /\ watermark' = watermark)
    /\ Return(j)
    /\ UNCHANGED <<up, now, world, fetching, working>>

----------------------------------------------------------------------------
(* Around it.                                                              *)

\* PUT /v1/system/app-status.
UpdateAppStatus ==
    /\ up
    /\ appOn' = ~appOn
    /\ UNCHANGED <<up, now, watermark, token, pubAt, stored, job>>

Appear(i) ==
    /\ pubAt[i] = 0
    /\ pubAt' = [pubAt EXCEPT ![i] = now]
    /\ UNCHANGED <<up, now, watermark, token, appOn, stored, job>>

\* What is lost when the process goes: everything but the database.
Halt ==
    /\ up' = FALSE
    /\ token' = TRUE
    /\ pc' = [j \in Jobs |-> "idle"]
    /\ started' = [j \in Jobs |-> 0]
    /\ toFetch' = [j \in Jobs |-> <<>>]
    /\ fetching' = [j \in Jobs |-> {}]
    /\ found' = [j \in Jobs |-> <<>>]
    /\ todo' = [j \in Jobs |-> <<>>]
    /\ working' = [j \in Jobs |-> {}]
    /\ pooled' = [j \in Jobs |-> FALSE]
    /\ UNCHANGED <<now, watermark, world>>

\* A panic while a feed is fetched or an item processed.  Nobody recovers it in a
\* goroutine of a pool; on the sequential path the cron engine's Recover does.
Panic(j) ==
    /\ "panic" \in Faults
    /\ up /\ fetching[j] \cup working[j] # {}
    /\ \/ pooled[j] /\ Halt
       \/ /\ ~pooled[j]
          /\ Return(j)
          /\ fetching' = [fetching EXCEPT ![j] = {}]
          /\ working' = [working EXCEPT ![j] = {}]
          /\ UNCHANGED <<up, now, watermark, world>>

Crash == "crash" \in Faults /\ up /\ Halt

Restart ==
    /\ ~up
    /\ up' = TRUE
    /\ UNCHANGED <<now, watermark, token, world, job>>

----------------------------------------------------------------------------
FetchDone(j) == \E s \in Range(Sources) : FetchOk(j, s) \/ FetchFails(j, s)
ItemDone(j)  == \E i \in Items : Store(j, i) \/ Drop(j, i)

RunStep(j) ==
    \/ ReadSystem(j) \/ SkipSweep(j)
    \/ DispatchFetch(j) \/ FetchDone(j) \/ EndFetch(j)
    \/ DispatchItem(j) \/ ItemDone(j) \/ EndProcess(j) \/ Mark(j)

Next ==
    \/ \E j \in Jobs : Tick(j) \/ RunStep(j) \/ Panic(j)
    \/ SkipTick
    \/ UpdateAppStatus
    \/ \E i \in Items : Appear(i)
    \/ Crash
    \/ Restart

Spec == Init /\ [][Next]_vars

\* The schedule ticks; Run goes on while the process is up, and its database,
\* network and AI calls return (they have timeouts); the container restarts.
Progress ==
    /\ WF_vars(\E j \in Jobs : Tick(j))
    /\ \A j \in Jobs : WF_vars(RunStep(j))
    /\ WF_vars(Restart)

\* The world is not against one feed or one item for good, nor is the database
\* down at the start of every sweep.
Goodwill ==
    /\ SF_vars(\E j \in Jobs : ReadSystem(j))
    /\ \A s \in Range(Sources) : SF_vars(\E j \in Jobs : FetchOk(j, s))
    /\ \A i \in Items : SF_vars(\E j \in Jobs : Store(j, i))

FairSpec == Spec /\ Progress /\ Goodwill

----------------------------------------------------------------------------
(* Properties.                                                             *)

\* Every variable holds a value of its type, and each part of a sweep leaves nothing
\* under way or in hand for the parts after it.
TypeOK ==
    /\ pooled \in [Jobs -> BOOLEAN]
    /\ up \in BOOLEAN /\ appOn \in BOOLEAN /\ token \in BOOLEAN
    /\ now \in 1 .. MaxTicks
    /\ watermark \in 0 .. MaxTicks
    /\ pubAt \in [Items -> 0 .. MaxTicks]
    /\ stored \subseteq Items
    /\ pc \in [Jobs -> {"idle", "read", "fetch", "process", "mark"}]
    /\ started \in [Jobs -> 0 .. MaxTicks]
    /\ toFetch \in [Jobs -> Seq(Range(Sources))] /\ fetching \in [Jobs -> SUBSET Range(Sources)]
    /\ found \in [Jobs -> Seq(Items)] /\ todo \in [Jobs -> Seq(Items)] /\ working \in [Jobs -> SUBSET Items]
    /\ \A j \in Jobs :
          /\ pc[j] = "idle" => started[j] = 0
          /\ toFetch[j] # <<>> \/ fetching[j] # {} \/ found[j] # <<>> => pc[j] = "fetch"
          /\ todo[j] # <<>> \/ working[j] # {} => pc[j] = "process"

\* j has something under way.
Busy(j) == pc[j] # "idle" \/ fetching[j] # {} \/ working[j] # {}

\* Two sweeps never have work under way at the same time, which needs both the
\* cron engine's token and pools that wait for all their goroutines: the guard
\* that keeps the AI from naming keywords twice for the same articles.  So no more
\* than Concurrency fetches and items are in flight in the process, however they
\* finish, and no sweep that started earlier sets the watermark later.
OneBoundedSweep ==
    /\ \A i, j \in Jobs : Busy(i) /\ Busy(j) => i = j
    /\ \A j \in Jobs : Cardinality(fetching[j]) + Cardinality(working[j]) <= Concurrency
    /\ \A j \in Jobs : Busy(j) => watermark <= started[j]

\* The schedule never dies while the process stays up: whatever fails, every sweep
\* ends, gives its token back and makes room for the next one.
SweepsGoOn == <>[]up => []<>(\E j \in Jobs : pc[j] = "read")

\* An item that once appeared is stored in the end, whatever failed or crashed on
\* the way, unless maintenance or crashes go on for ever (and with no cap):
\* "dropped articles are simply rediscovered next time" (processor.go).
Rediscovered ==
    \A i \in Items : <>[](appOn /\ up /\ pubAt[i] > 0) => <>(i \in stored)

\* A panic in a sweep does not take the process down (NewScheduler's comment).
StaysUp == up
=============================================================================
