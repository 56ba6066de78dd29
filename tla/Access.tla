-------------------------------- MODULE Access --------------------------------
(***************************************************************************)
(* Who gets in: sessions (services/controllers/auth.go, refresh_tokens.go, *)
(* endpoints/v1/auth), the middleware chain every request passes           *)
(* (middlewares/auth.go, admin.go, app_status.go, main.go's routes) and    *)
(* the maintenance switch (endpoints/v1/system).                           *)
(*                                                                         *)
(* The grain is the SQL statement at READ COMMITTED; a transaction's last  *)
(* write and its COMMIT are one step.  Unlike in Pipeline a statement that *)
(* waits keeps its snapshot: RevokeAll does not see a session committed    *)
(* while it waited.  PostgreSQL picks a victim when two transactions wait  *)
(* for each other.                                                         *)
(*                                                                         *)
(* Simplifications: an access token is the last one issued for its session *)
(* and does not expire within a request; preferences, profile data and the *)
(* OAuth exchange before the transaction are left out (a login that fails  *)
(* there changes nothing); users are not removed (no endpoint does it).    *)
(***************************************************************************)
EXTENDS Naturals, FiniteSets

CONSTANTS Users,
          Tokens,   \* the pool of refresh token ids
          Procs,    \* requests in flight
          Faults,   \* the failures that may happen
          None

\* The routes, by the chain in front of their handler (main.go): those of /auth and
\* /system come before the maintenance guard is mounted, "manage" for administrators,
\* "logout" and "refresh"; "user" and, for administrators, "curate" come after it.
Kinds       == {"user", "curate", "manage", "logout", "refresh"}
Guarded     == {"user", "curate"}
AdminRoutes == {"manage", "curate"}

ASSUME AccessAssumption ==
    /\ IsFiniteSet(Tokens) /\ IsFiniteSet(Procs)
    /\ Faults \subseteq {"db", "crash"}
    /\ None \notin Users \cup Tokens \cup Procs \cup Kinds

VARIABLES
    \* the tables
    account,   \* account[u]: "none", "pending" or "active" (a row of users)
    admin,     \* users.admin
    row,       \* row[t]: [state, user] of a row of refresh_tokens
    appOn,     \* system.app_status
    age,       \* age[t]: "fresh", "stale" (its last access token has expired) or "old" (so has expires_at)
    \* the requests
    pc, kind, tok, who,
    snap,      \* snap[p]: the sessions p's RevokeAll saw
    tokLock,   \* tokLock[p]: the sessions p's open transaction revokes
    userLock,  \* userLock[u]: whose transaction has updated u's row
    \* history
    gone,      \* requests whose session was revoked before they arrived
    entitled,  \* requests that were entitled to their route at some moment since
    raced      \* users of whom two logins were in flight at once

tables  == <<account, admin, row, age, appOn>>
request == <<pc, kind, tok, who, snap>>
locks   == <<tokLock, userLock>>
history == <<gone, entitled, raced>>
vars    == <<tables, request, locks, history>>

Init ==
    /\ account = [u \in Users |-> "none"]
    /\ admin = [u \in Users |-> FALSE]
    /\ row = [t \in Tokens |-> [state |-> "free", user |-> None]]
    /\ age = [t \in Tokens |-> "fresh"]
    /\ appOn = TRUE
    /\ pc = [p \in Procs |-> "idle"]
    /\ kind = [p \in Procs |-> None]
    /\ tok = [p \in Procs |-> None]
    /\ who = [p \in Procs |-> None]
    /\ snap = [p \in Procs |-> {}]
    /\ tokLock = [p \in Procs |-> {}]
    /\ userLock = [u \in Users |-> None]
    /\ gone = {} /\ entitled = {} /\ raced = {}

\* RefreshTokenController.FindByID: an active row that has not expired.
Live(t) == row[t].state = "active" /\ age[t] # "old"

LiveOf(u) == {t \in Tokens : row[t].state = "active" /\ row[t].user = u}

LoggingIn(u) == {p \in Procs : who[p] = u /\ kind[p] = None /\ pc[p] # "idle"}

\* The history: what each request is entitled to, and what it came with.
Entitled(p) ==
    CASE kind[p] \in AdminRoutes -> admin[who[p]]
      [] kind[p] = "user"        -> appOn \/ admin[who[p]]
      [] OTHER                   -> FALSE

Remember ==
    /\ gone' = {p \in Procs : /\ kind'[p] \notin {None, "refresh"}
                              /\ IF pc[p] = "idle" THEN row[tok'[p]].state = "revoked" ELSE p \in gone}
    /\ entitled' = {p \in Procs : (p \in entitled /\ pc'[p] # "idle") \/ Entitled(p)'}
    /\ raced' = raced \cup {u \in Users : Cardinality(LoggingIn(u)') > 1}

\* A step of p that only moves it on.
Goto(p, label) ==
    /\ pc' = [pc EXCEPT ![p] = label]
    /\ UNCHANGED <<tables, kind, tok, who, snap, locks>>
    /\ Remember

\* The requests of P are answered: their transactions' locks are released.
Forget(P) ==
    /\ pc' = [p \in Procs |-> IF p \in P THEN "idle" ELSE pc[p]]
    /\ kind' = [p \in Procs |-> IF p \in P THEN None ELSE kind[p]]
    /\ tok' = [p \in Procs |-> IF p \in P THEN None ELSE tok[p]]
    /\ who' = [p \in Procs |-> IF p \in P THEN None ELSE who[p]]
    /\ snap' = [p \in Procs |-> IF p \in P THEN {} ELSE snap[p]]
    /\ Remember

\* Mutation: a transaction is left open.
Done_KeepsLock(P) == UNCHANGED locks /\ Forget(P)

Done(P) ==
    /\ tokLock' = [p \in Procs |-> IF p \in P THEN {} ELSE tokLock[p]]
    /\ userLock' = [u \in Users |-> IF userLock[u] \in P THEN None ELSE userLock[u]]
    /\ Forget(P)

\* An answer that changes nothing in the database: 401, 403, 503, 500.
Refuse(p) == UNCHANGED tables /\ Done({p})

\* No other transaction holds a row of T.
TokensFree(p, T) == \A q \in Procs \ {p} : tokLock[q] \cap T = {}

Revoked(T) == [t \in Tokens |-> IF t \in T THEN [row[t] EXCEPT !.state = "revoked"] ELSE row[t]]

----------------------------------------------------------------------------
(* The middleware chain.                                                   *)

\* A request of session t's client.  Only /auth/refresh is worth sending with an
\* access token that no longer parses: any other is refused and changes nothing.
Arrive(p, k, t) ==
    /\ pc[p] = "idle"
    /\ row[t].state # "free"
    /\ age[t] # "fresh" => k = "refresh"
    /\ pc' = [pc EXCEPT ![p] = IF k \in Guarded THEN "guard" ELSE IF k = "refresh" THEN "refreshFind" ELSE "session"]
    /\ kind' = [kind EXCEPT ![p] = k]
    /\ tok' = [tok EXCEPT ![p] = t]
    /\ who' = [who EXCEPT ![p] = row[t].user]
    /\ UNCHANGED <<tables, snap, locks>>
    /\ Remember

\* What comes after the maintenance guard.
Inside(p) == IF kind[p] = "refresh" THEN "refreshFind" ELSE "session"

\* NewAppStatusMiddleware.  Mutation: when the switch cannot be read, go on.
Guard_FailOpen(p) ==
    /\ pc[p] = "guard"
    /\ \/ (appOn \/ "db" \in Faults) /\ Goto(p, Inside(p))
       \/ ~appOn /\ Refuse(p)

Guard(p) ==
    /\ pc[p] = "guard"
    /\ \/ appOn /\ Goto(p, Inside(p))
       \/ ~appOn /\ Goto(p, "guardSession")
       \/ "db" \in Faults /\ Refuse(p)

\* IsRequestFromAdmin: the access token and its session, then the user.  Fail-closed.
GuardSession(p) ==
    LET known == age[tok[p]] = "fresh" /\ Live(tok[p]) IN
    /\ pc[p] = "guardSession"
    /\ \/ known /\ Goto(p, "guardAdmin")
       \/ (~known \/ "db" \in Faults) /\ Refuse(p)

GuardAdmin(p) ==
    /\ pc[p] = "guardAdmin"
    /\ \/ admin[who[p]] /\ Goto(p, Inside(p))
       \/ (~admin[who[p]] \/ "db" \in Faults) /\ Refuse(p)

\* validateSession.  Mutation: an access token that parses is enough.
CheckSession_JwtOnly(p) ==
    /\ pc[p] = "session"
    /\ Goto(p, IF kind[p] \in AdminRoutes THEN "isAdmin" ELSE "serve")

CheckSession(p) ==
    /\ pc[p] = "session"
    /\ \/ Live(tok[p]) /\ Goto(p, IF kind[p] \in AdminRoutes THEN "isAdmin" ELSE "serve")
       \/ (~Live(tok[p]) \/ "db" \in Faults) /\ Refuse(p)

\* NewRequireAdminMiddleware.  Mutation: when the look-up fails, go on.
RequireAdmin_FailOpen(p) ==
    /\ pc[p] = "isAdmin"
    /\ \/ (admin[who[p]] \/ "db" \in Faults) /\ Goto(p, "serve")
       \/ ~admin[who[p]] /\ Refuse(p)

RequireAdmin(p) ==
    /\ pc[p] = "isAdmin"
    /\ \/ admin[who[p]] /\ Goto(p, "serve")
       \/ (~admin[who[p]] \/ "db" \in Faults) /\ Refuse(p)

----------------------------------------------------------------------------
(* The handlers behind it.                                                 *)

\* UpdateAppStatus.
ServeAppStatus(p, on) ==
    /\ pc[p] = "serve" /\ kind[p] = "manage"
    /\ appOn' = on
    /\ UNCHANGED <<account, admin, row, age>>
    /\ Done({p})

\* Logout, Invalidate and InvalidateAll: one UPDATE, of the rows it sees, which
\* waits for those that other transactions hold.
ServeRevokeSees(p) ==
    /\ pc[p] = "serve"
    /\ \/ kind[p] = "logout" /\ snap' = [snap EXCEPT ![p] = {tok[p]}]
       \/ kind[p] = "manage" /\ \E t \in Tokens : snap' = [snap EXCEPT ![p] = {t}]
       \/ kind[p] = "manage" /\ \E u \in Users : snap' = [snap EXCEPT ![p] = LiveOf(u)]
    /\ pc' = [pc EXCEPT ![p] = "revoke"]
    /\ UNCHANGED <<tables, kind, tok, who, locks>>
    /\ Remember

ServeRevoke(p) ==
    /\ pc[p] = "revoke"
    /\ TokensFree(p, snap[p])
    /\ row' = Revoked({t \in snap[p] : row[t].state = "active"})
    /\ UNCHANGED <<account, admin, age, appOn>>
    /\ Done({p})

\* Any other handler: not modelled here.
ServeOther(p) == pc[p] = "serve" /\ kind[p] \in Guarded /\ Refuse(p)

----------------------------------------------------------------------------
(* RefreshAccessToken.                                                     *)

RefreshFind(p) ==
    /\ pc[p] = "refreshFind"
    /\ \/ /\ Live(tok[p])
          /\ Goto(p, "refreshTouch")
       \/ ~Live(tok[p]) /\ Refuse(p)

\* UpdateUserLastActive locks the user's row.
RefreshTouch(p) ==
    /\ pc[p] = "refreshTouch"
    /\ userLock[who[p]] = None
    /\ userLock' = [userLock EXCEPT ![who[p]] = p]
    /\ pc' = [pc EXCEPT ![p] = "refreshExtend"]
    /\ UNCHANGED <<tables, kind, tok, who, snap, tokLock>>
    /\ Remember

\* Extend, COMMIT, and a new access token.  A session revoked since it was found
\* is not extended (no row matches), which is not an error.  Mutation: the WHERE
\* only asks for the id, and status is set with the rest.
RefreshExtend_Revives(p) ==
    LET t == tok[p] IN
    /\ pc[p] = "refreshExtend"
    /\ TokensFree(p, {t})
    /\ row' = [row EXCEPT ![t].state = "active"]
    /\ age' = [age EXCEPT ![t] = "fresh"]
    /\ UNCHANGED <<account, admin, appOn>>
    /\ Done({p})

RefreshExtend(p) ==
    LET t == tok[p] IN
    /\ pc[p] = "refreshExtend"
    /\ TokensFree(p, {t})
    /\ age' = [age EXCEPT ![t] = "fresh"]
    /\ UNCHANGED <<account, admin, row, appOn>>
    /\ Done({p})

----------------------------------------------------------------------------
(* HandleGoogleCallback.                                                   *)

\* findOrCreateUser, the look-up.  The pool of ids bounds the logins.
Login(p, u) ==
    /\ pc[p] = "idle"
    /\ Cardinality({t \in Tokens : row[t].state = "free"}) > Cardinality(UNION {LoggingIn(v) : v \in Users})
    /\ who' = [who EXCEPT ![p] = u]
    /\ pc' = [pc EXCEPT ![p] = IF account[u] = "active" THEN "loginSee" ELSE "loginCreateUser"]
    /\ UNCHANGED <<tables, kind, tok, snap, locks>>
    /\ Remember

\* CreateUser waits for another first login of the same Google account, and
\* fails on its row.
CreateUser(p) ==
    /\ pc[p] = "loginCreateUser"
    /\ \/ /\ account[who[p]] = "none"
          /\ account' = [account EXCEPT ![who[p]] = "pending"]
          /\ userLock' = [userLock EXCEPT ![who[p]] = p]
          /\ pc' = [pc EXCEPT ![p] = "loginSee"]
          /\ UNCHANGED <<admin, row, age, appOn, kind, tok, who, snap, tokLock>>
          /\ Remember
       \/ account[who[p]] = "active" /\ Refuse(p)

\* RevokeAll: what it sees, then, when no other transaction holds those rows,
\* what it revokes.
RevokeAllSees(p) ==
    /\ pc[p] = "loginSee"
    /\ snap' = [snap EXCEPT ![p] = LiveOf(who[p])]
    /\ pc' = [pc EXCEPT ![p] = "loginRevoke"]
    /\ UNCHANGED <<tables, kind, tok, who, locks>>
    /\ Remember

\* Mutation: a login leaves the other sessions alone.
RevokeAll_None(p) == pc[p] = "loginRevoke" /\ Goto(p, "loginTouch")

RevokeAll(p) ==
    /\ pc[p] = "loginRevoke"
    /\ TokensFree(p, snap[p])
    /\ tokLock' = [tokLock EXCEPT ![p] = {t \in snap[p] : row[t].state = "active"}]
    /\ snap' = [snap EXCEPT ![p] = {}]
    /\ pc' = [pc EXCEPT ![p] = "loginTouch"]
    /\ UNCHANGED <<tables, kind, tok, who, userLock>>
    /\ Remember

\* UpdateUserLastLogin and UpdateUserLastActive.
LoginTouch(p) ==
    /\ pc[p] = "loginTouch"
    /\ userLock[who[p]] \in {None, p}
    /\ userLock' = [userLock EXCEPT ![who[p]] = p]
    /\ pc' = [pc EXCEPT ![p] = "loginCreate"]
    /\ UNCHANGED <<tables, kind, tok, who, snap, tokLock>>
    /\ Remember

\* RefreshTokenController.Create, COMMIT, and the access token.
LoginCommit(p) ==
    /\ pc[p] = "loginCreate"
    /\ \E t \in Tokens :
         /\ row[t].state = "free"
         /\ row' = [Revoked(tokLock[p]) EXCEPT ![t] = [state |-> "active", user |-> who[p]]]
    /\ account' = [account EXCEPT ![who[p]] = "active"]
    /\ UNCHANGED <<admin, age, appOn>>
    /\ Done({p})

----------------------------------------------------------------------------
(* What goes wrong, and the world.                                         *)

InTx == {"revoke", "refreshFind", "refreshTouch", "refreshExtend",
         "loginCreateUser", "loginSee", "loginRevoke", "loginTouch", "loginCreate"}

\* Rollback of the transactions of P.
Abort(P) ==
    /\ account' = [u \in Users |-> IF account[u] = "pending" /\ userLock[u] \in P THEN "none" ELSE account[u]]
    /\ UNCHANGED <<admin, row, age, appOn>>
    /\ Done(P)

\* A statement fails.
Fail(p) ==
    /\ "db" \in Faults
    /\ pc[p] \in InTx \cup {"serve"}
    /\ Abort({p})

\* p's transaction waits for a lock of q's.
Waits(p, q) ==
    \/ pc[p] \in {"refreshTouch", "loginTouch"} /\ userLock[who[p]] = q /\ q # p
    \/ pc[p] = "loginCreateUser" /\ account[who[p]] = "pending" /\ userLock[who[p]] = q
    \/ pc[p] = "refreshExtend" /\ tok[p] \in tokLock[q]
    \/ pc[p] \in {"loginRevoke", "revoke"} /\ q # p /\ snap[p] \cap tokLock[q] # {}

\* PostgreSQL's deadlock detector rolls back one of two that wait for each other.
Victim(p) ==
    /\ \E q \in Procs : Waits(p, q) /\ Waits(q, p)
    /\ Abort({p})

Crash == "crash" \in Faults /\ Abort({p \in Procs : pc[p] # "idle"})

\* Time passes: the access token expires (60 minutes), then the session (30 days).
Expire(t) ==
    /\ row[t].state # "free" /\ \A p \in Procs : tok[p] # t
    /\ age' = [age EXCEPT ![t] = IF @ = "fresh" THEN "stale" ELSE "old"]
    /\ UNCHANGED <<account, admin, row, appOn, request, locks, history>>

\* SetAdmin, which only the seed tool and database administrators run.
SetAdmin(u) ==
    /\ account[u] = "active" /\ userLock[u] = None
    /\ admin' = [admin EXCEPT ![u] = ~@]
    /\ UNCHANGED <<account, row, age, appOn, request, locks>>
    /\ Remember

----------------------------------------------------------------------------
Serve(p) == (\E on \in BOOLEAN : ServeAppStatus(p, on)) \/ ServeRevokeSees(p) \/ ServeRevoke(p) \/ ServeOther(p)

Handle(p) ==
    \/ Guard(p) \/ GuardSession(p) \/ GuardAdmin(p) \/ CheckSession(p) \/ RequireAdmin(p) \/ Serve(p)
    \/ RefreshFind(p) \/ RefreshTouch(p) \/ RefreshExtend(p)
    \/ CreateUser(p) \/ RevokeAllSees(p) \/ RevokeAll(p) \/ LoginTouch(p) \/ LoginCommit(p)
    \/ Victim(p)

Next ==
    \/ \E p \in Procs : Handle(p) \/ Fail(p)
    \/ \E p \in Procs, k \in Kinds, t \in Tokens : Arrive(p, k, t)
    \/ \E p \in Procs, u \in Users : Login(p, u)
    \/ \E t \in Tokens : Expire(t)
    \/ \E u \in Users : SetAdmin(u)
    \/ Crash

Spec == Init /\ [][Next]_vars

\* A request that arrived is worked on until it is answered.  Strong, because a
\* row lock is granted in the order it was asked for; nothing is owed a failure.
Progress == \A p \in Procs : SF_vars(Handle(p))

FairSpec == Spec /\ Progress

----------------------------------------------------------------------------
(* Properties.                                                             *)

\* Every variable holds a value of its type, and only a transaction under way
\* holds a lock.
TypeOK ==
    /\ account \in [Users -> {"none", "pending", "active"}]
    /\ admin \in [Users -> BOOLEAN]
    /\ row \in [Tokens -> [state : {"free", "active", "revoked"}, user : Users \cup {None}]]
    /\ age \in [Tokens -> {"fresh", "stale", "old"}]
    /\ appOn \in BOOLEAN
    /\ pc \in [Procs -> {"idle", "guard", "guardSession", "guardAdmin", "session", "isAdmin", "serve"} \cup InTx]
    /\ kind \in [Procs -> Kinds \cup {None}]
    /\ tok \in [Procs -> Tokens \cup {None}]
    /\ who \in [Procs -> Users \cup {None}]
    /\ snap \in [Procs -> SUBSET Tokens]
    /\ \A p \in Procs : tokLock[p] \subseteq Tokens /\ (tokLock[p] # {} => pc[p] \in InTx)
    /\ \A u \in Users : userLock[u] = None \/ pc[userLock[u]] \in InTx
    /\ gone \subseteq Procs /\ entitled \subseteq Procs /\ raced \subseteq Users

\* p has passed every check and its handler runs.
Served(p) == pc[p] = "serve"

\* A request that arrives after its session was revoked never reaches a handler,
\* though its access token still parses: validateSession's "on the very next request".
NoServeAfterRevoke == \A p \in Procs : Served(p) => p \notin gone

\* A revoked session is never active again: not by a refresh that found it alive
\* before, nor by a login, a rollback or a crash.
RevokedForGood ==
    [][\A t \in Tokens : row[t].state = "revoked" => row'[t].state = "revoked"]_row

\* An administrator's route is never served to a user who was not an administrator
\* at any moment since the request arrived, whatever their access token claims.
AdminIsCurrent == \A p \in Procs : Served(p) /\ kind[p] \in AdminRoutes => p \in entitled

\* A guarded route is never served when, since the request arrived, the app was
\* under maintenance and its user no administrator all along.
MaintenanceHolds == \A p \in Procs : Served(p) /\ kind[p] \in Guarded => p \in entitled

\* A user whose logins never overlapped has one session at most, whatever
\* refreshes, revocations, failures and deadlocks went on around them.
OneSessionUnlessRaced == \A u \in Users \ raced : Cardinality(LiveOf(u)) <= 1

\* Every request is answered: no wait for a lock lasts, because a deadlock has
\* its victim and every rollback releases what it held.
RequestsEnd == \A p \in Procs : pc[p] # "idle" ~> pc[p] = "idle"
=============================================================================
