----------------------------- MODULE AccessProofs -----------------------------
(***************************************************************************)
(* Theorems about Access for any number of users, sessions and requests,   *)
(* with any faults.                                                        *)
(*                                                                         *)
(* None of the properties is inductive.  They need to know what the        *)
(* program counter says of a request (LocalsOK) and of the locks it holds  *)
(* (LocksOK); that a request whose session was revoked before it came has  *)
(* not passed the look-up of the session, and that the session is still    *)
(* revoked (GoneOK); that a request keeps its claim to the route it was    *)
(* once let into (EntitledOK); and that a login knows all of its user's    *)
(* sessions, first by its snapshot, then by its locks (SessionsOK).        *)
(***************************************************************************)
EXTENDS Access, FiniteSetTheorems, TLAPS

\* Where a login is.
LoginPcs == {"loginCreateUser", "loginSee", "loginRevoke", "loginTouch", "loginCreate"}

\* Where a request of a session is, before and after the look-up of the session.
EarlyPcs == {"guard", "guardSession", "guardAdmin", "session"}
LatePcs  == {"isAdmin", "serve", "revoke"}

\* What the program counter says of a request's locals.
LocalsOK ==
    \A p \in Procs :
        /\ pc[p] = "idle" => kind[p] = None /\ tok[p] = None /\ who[p] = None
        /\ pc[p] # "idle" => who[p] \in Users
        /\ pc[p] \in LoginPcs => kind[p] = None /\ tok[p] = None
        /\ pc[p] \in EarlyPcs \cup LatePcs => kind[p] \in Guarded \cup {"manage", "logout"} /\ tok[p] \in Tokens
        /\ pc[p] \in {"guard", "guardSession", "guardAdmin"} => kind[p] \in Guarded
        /\ pc[p] \in {"refreshFind", "refreshTouch", "refreshExtend"} => kind[p] = "refresh" /\ tok[p] \in Tokens

\* A row that was ever in use belongs to a user.
RowsOK == \A t \in Tokens : row[t].state # "free" => row[t].user \in Users

\* Which steps hold locks, and on what.
LocksOK ==
    /\ tokLock \in [Procs -> SUBSET Tokens]
    /\ \A p \in Procs : tokLock[p] # {} => pc[p] \in {"loginTouch", "loginCreate"}
    /\ \A p \in Procs, t \in Tokens : t \in tokLock[p] => row[t].state # "free"
    /\ userLock \in [Users -> Procs \cup {None}]
    /\ \A u \in Users : userLock[u] # None => pc[userLock[u]] \in LoginPcs \cup {"refreshExtend"}

TypeInv == TypeOK /\ LocalsOK /\ RowsOK /\ LocksOK

\* A request that came with a revoked session has not passed the look-up of it.
GoneOK ==
    \A p \in gone : tok[p] \in Tokens /\ row[tok[p]].state = "revoked" /\ pc[p] \in EarlyPcs

\* A request that was let into its route was entitled to it at some moment.
EntitledOK ==
    \A p \in Procs :
        /\ pc[p] = "serve" /\ kind[p] \in AdminRoutes => p \in entitled
        /\ pc[p] \in {"session", "serve"} /\ kind[p] = "user" => p \in entitled

\* The logins of a user never overlapped: one session at most, and a login under
\* way will revoke it.
SessionsOK ==
    \A u \in Users \ raced :
        /\ \A s, t \in LiveOf(u) : s = t
        /\ \A p, q \in LoggingIn(u) : p = q
        /\ \A p \in LoggingIn(u) :
              /\ pc[p] = "loginRevoke" => LiveOf(u) \subseteq snap[p]
              /\ pc[p] \in {"loginTouch", "loginCreate"} => LiveOf(u) \subseteq tokLock[p]

IInv == TypeInv /\ GoneOK /\ EntitledOK /\ SessionsOK

----------------------------------------------------------------------------
(* What the helpers say.                                                   *)

\* The labels are those of the type invariant.
LEMMA Labels ==
  /\ LoginPcs \subseteq InTx /\ "refreshExtend" \in InTx
  /\ InTx = LoginPcs \cup {"revoke", "refreshFind", "refreshTouch", "refreshExtend"}
  /\ "idle" \notin InTx /\ "serve" \notin InTx
  BY DEF LoginPcs, InTx

\* In a finite set of more than one there are two, and in one of no two at most one.
LEMMA AtMostOne ==
  ASSUME NEW S, IsFiniteSet(S)
  PROVE  (\A x, y \in S : x = y) <=> Cardinality(S) <= 1
<1>1. ASSUME \A x, y \in S : x = y
      PROVE  Cardinality(S) <= 1
  <2>1. CASE S = {}
    BY <2>1, FS_EmptySet
  <2>2. CASE \E x : S = {x}
    BY <2>2, FS_Singleton
  <2>3. QED
    BY <1>1, <2>1, <2>2
<1>2. ASSUME Cardinality(S) <= 1
      PROVE  \A x, y \in S : x = y
  <2>1. Cardinality(S) \in Nat
    BY FS_CardinalityType
  <2>2. Cardinality(S) = 0 \/ Cardinality(S) = 1
    BY <1>2, <2>1
  <2>3. S = {} \/ \E x : S = {x}
    BY <2>2, FS_EmptySet, FS_Singleton
  <2>4. QED
    BY <2>3
<1>3. QED
  BY <1>1, <1>2

\* What a step remembers of the requests.
LEMMA RememberFacts ==
  ASSUME Remember
  PROVE  /\ gone' \subseteq Procs /\ entitled' \subseteq Procs
         /\ raced \subseteq Users => raced' \subseteq Users
         /\ \A p \in gone' : /\ kind'[p] \notin {None, "refresh"}
                              /\ IF pc[p] = "idle" THEN row[tok'[p]].state = "revoked" ELSE p \in gone
         /\ \A p \in Procs : p \in entitled /\ pc'[p] # "idle" => p \in entitled'
         /\ \A p \in Procs : kind'[p] \in AdminRoutes /\ admin'[who'[p]] => p \in entitled'
         /\ \A p \in Procs : kind'[p] = "user" /\ (appOn' \/ admin'[who'[p]]) => p \in entitled'
         /\ raced \subseteq raced'
         /\ \A u \in Users \ raced' : \A p, q \in LoggingIn(u)' : p = q
<1>1. ASSUME NEW u \in Users, u \notin raced'
      PROVE  \A p, q \in LoggingIn(u)' : p = q
  <2>1. LoggingIn(u)' \in SUBSET Procs
    BY DEF LoggingIn
  <2>2. IsFiniteSet(LoggingIn(u)') /\ Cardinality(LoggingIn(u)') \in Nat
    BY <2>1, AccessAssumption, FS_Subset, FS_CardinalityType
  <2>3. ~(Cardinality(LoggingIn(u)') > 1)
    BY <1>1 DEF Remember
  <2>4. Cardinality(LoggingIn(u)') <= 1
    BY <2>2, <2>3
  <2>5. QED
    BY <2>2, <2>4, AtMostOne
<1>2. \A p \in Procs : Entitled(p)' => p \in entitled'
  BY DEF Remember
<1>3. QED
  BY <1>1, <1>2 DEF Remember, Entitled, AdminRoutes

----------------------------------------------------------------------------
(* Type correctness.                                                       *)

\* The tables and the requests start well typed.
LEMMA InitType == Init => TypeInv
<1> SUFFICES ASSUME Init PROVE TypeInv
  OBVIOUS
<1>1. TypeOK
  BY DEF Init, TypeOK
<1>2. LocalsOK
  BY DEF Init, LocalsOK, LoginPcs, EarlyPcs, LatePcs
<1>3. RowsOK /\ LocksOK
  BY DEF Init, RowsOK, LocksOK
<1>4. QED
  BY <1>1, <1>2, <1>3 DEF TypeInv

\* Requests that are answered hold nothing, and the others keep what they have.
LEMMA DoneType ==
  ASSUME TypeInv, NEW P \in SUBSET Procs, Done(P),
         account' \in [Users -> {"none", "pending", "active"}],
         row' \in [Tokens -> [state : {"free", "active", "revoked"}, user : Users \cup {None}]],
         age' \in [Tokens -> {"fresh", "stale", "old"}],
         appOn' \in BOOLEAN,
         admin' = admin,
         RowsOK',
         \A t \in Tokens : row[t].state # "free" => row'[t].state # "free"
  PROVE  TypeInv'
<1> USE AccessAssumption DEF TypeInv
<1>1. Forget(P) /\ Remember
  BY DEF Done, Forget
<1>2. TypeOK'
  <2>1. gone' \subseteq Procs /\ entitled' \subseteq Procs /\ raced' \subseteq Users
    BY <1>1, RememberFacts DEF TypeOK
  <2>2. /\ pc' \in [Procs -> {"idle", "guard", "guardSession", "guardAdmin", "session", "isAdmin", "serve"} \cup InTx]
        /\ kind' \in [Procs -> Kinds \cup {None}]
        /\ tok' \in [Procs -> Tokens \cup {None}]
        /\ who' \in [Procs -> Users \cup {None}]
        /\ snap' \in [Procs -> SUBSET Tokens]
    BY <1>1 DEF TypeOK, Forget
  <2>3. \A p \in Procs : tokLock'[p] \subseteq Tokens /\ (tokLock'[p] # {} => pc'[p] \in InTx)
    BY <1>1 DEF TypeOK, Done, Forget
  <2>4. \A u \in Users : userLock'[u] = None \/ pc'[userLock'[u]] \in InTx
    BY <1>1 DEF TypeOK, LocksOK, Done, Forget
  <2>5. QED
    BY <2>1, <2>2, <2>3, <2>4 DEF TypeOK
<1>3. LocalsOK'
  BY <1>1 DEF LocalsOK, Forget, LoginPcs, EarlyPcs, LatePcs
<1>4. LocksOK'
  <2>1. /\ tokLock' \in [Procs -> SUBSET Tokens]
        /\ \A p \in Procs : tokLock'[p] # {} => pc'[p] \in {"loginTouch", "loginCreate"}
        /\ \A p \in Procs, t \in Tokens : t \in tokLock'[p] => row'[t].state # "free"
    BY <1>1 DEF LocksOK, Done, Forget
  <2>2. /\ userLock' \in [Users -> Procs \cup {None}]
        /\ \A u \in Users : userLock'[u] # None => pc'[userLock'[u]] \in LoginPcs \cup {"refreshExtend"}
    BY <1>1 DEF LocksOK, Done, Forget
  <2>3. QED
    BY <2>1, <2>2 DEF LocksOK
<1>5. QED
  BY <1>2, <1>3, <1>4

\* An answer that changes nothing in the tables.
LEMMA RefuseType ==
  ASSUME TypeInv, NEW p \in Procs, Refuse(p)
  PROVE  TypeInv'
<1>1. Done({p}) /\ UNCHANGED tables
  BY DEF Refuse
<1>2. QED
  BY <1>1, DoneType DEF TypeInv, TypeOK, RowsOK, tables

\* Where a request may be from the step it is at now.
Follows(p, label) ==
    \/ pc[p] \in {"guard", "guardSession", "guardAdmin"} /\ label \in EarlyPcs
    \/ pc[p] \in {"session", "isAdmin"} /\ label \in {"isAdmin", "serve"}
    \/ pc[p] = "refreshFind" /\ label = "refreshTouch"

\* A step that only moves a request on.
LEMMA GotoType ==
  ASSUME TypeInv, NEW p \in Procs, NEW label, Follows(p, label), Goto(p, label),
         label \in {"guard", "guardSession", "guardAdmin"} => kind[p] \in Guarded
  PROVE  TypeInv'
<1> USE AccessAssumption DEF TypeInv
<1>1. /\ pc' = [pc EXCEPT ![p] = label] /\ Remember
      /\ UNCHANGED <<account, admin, row, age, appOn, kind, tok, who, snap, tokLock, userLock>>
  BY DEF Goto, tables, locks
<1>2. tokLock[p] = {} /\ \A u \in Users : userLock[u] # p
  BY DEF LocksOK, Follows, LoginPcs
<1>3. TypeOK'
  <2>1. gone' \subseteq Procs /\ entitled' \subseteq Procs /\ raced' \subseteq Users
    BY <1>1, RememberFacts DEF TypeOK
  <2>2. label \in {"guard", "guardSession", "guardAdmin", "session", "isAdmin", "serve"} \cup InTx
    BY DEF Follows, EarlyPcs, InTx
  <2>3. QED
    BY <1>1, <1>2, <2>1, <2>2 DEF TypeOK
<1>4. LocalsOK'
  BY <1>1 DEF LocalsOK, Follows, LoginPcs, EarlyPcs, LatePcs, TypeOK
<1>5. RowsOK' /\ LocksOK'
  BY <1>1, <1>2 DEF RowsOK, LocksOK, TypeOK
<1>6. QED
  BY <1>3, <1>4, <1>5

\* A request comes in, or a login.
LEMMA ArriveType ==
  ASSUME TypeInv, NEW p \in Procs,
         \/ \E k \in Kinds, t \in Tokens : Arrive(p, k, t)
         \/ \E u \in Users : Login(p, u)
  PROVE  TypeInv'
<1> USE AccessAssumption DEF TypeInv
<1>1. pc[p] = "idle" /\ UNCHANGED <<account, admin, row, age, appOn, snap, tokLock, userLock>> /\ Remember
  BY DEF Arrive, Login, tables, locks
<1>2. tokLock[p] = {} /\ \A u \in Users : userLock[u] # p
  BY <1>1 DEF LocksOK, LoginPcs
<1>3. gone' \subseteq Procs /\ entitled' \subseteq Procs /\ raced' \subseteq Users
  BY <1>1, RememberFacts DEF TypeOK
<1>4. ASSUME NEW k \in Kinds, NEW t \in Tokens, Arrive(p, k, t)
      PROVE  TypeOK' /\ LocalsOK' /\ pc'[p] # "idle" /\ \A q \in Procs \ {p} : pc'[q] = pc[q]
  <2>1. row[t].user \in Users
    BY <1>4 DEF Arrive, RowsOK
  <2>2. TypeOK'
    BY <1>1, <1>2, <1>3, <1>4, <2>1 DEF TypeOK, Arrive, InTx
  <2>3. LocalsOK'
    BY <1>4, <2>1 DEF Arrive, Guarded, Kinds, LocalsOK, LoginPcs, EarlyPcs, LatePcs, TypeOK
  <2>4. pc'[p] # "idle" /\ \A q \in Procs \ {p} : pc'[q] = pc[q]
    BY <1>4 DEF Arrive, TypeOK
  <2>5. QED
    BY <2>2, <2>3, <2>4
<1>5. ASSUME NEW u \in Users, Login(p, u)
      PROVE  TypeOK' /\ LocalsOK' /\ pc'[p] # "idle" /\ \A q \in Procs \ {p} : pc'[q] = pc[q]
  <2>1. TypeOK'
    BY <1>1, <1>2, <1>3, <1>5 DEF TypeOK, Login, InTx
  <2>2. LocalsOK'
    BY <1>1, <1>5 DEF Login, LocalsOK, LoginPcs, EarlyPcs, LatePcs, TypeOK
  <2>3. pc'[p] # "idle" /\ \A q \in Procs \ {p} : pc'[q] = pc[q]
    BY <1>5 DEF Login, TypeOK
  <2>4. QED
    BY <2>1, <2>2, <2>3
<1>6. RowsOK' /\ LocksOK'
  BY <1>1, <1>2, <1>4, <1>5 DEF RowsOK, LocksOK, TypeOK
<1>7. QED
  BY <1>4, <1>5, <1>6

\* The middleware chain.
LEMMA ChainType ==
  ASSUME TypeInv, NEW p \in Procs,
         Guard(p) \/ GuardSession(p) \/ GuardAdmin(p) \/ CheckSession(p) \/ RequireAdmin(p)
  PROVE  TypeInv'
<1>1. CASE \E label : Goto(p, label) /\ Follows(p, label) /\ (label \in {"guard", "guardSession", "guardAdmin"} => kind[p] \in Guarded)
  BY <1>1, GotoType
<1>2. CASE Refuse(p)
  BY <1>2, RefuseType
<1>3. pc[p] \in {"guard", "guardSession", "guardAdmin"} => kind[p] \in Guarded /\ Inside(p) = "session"
  BY DEF TypeInv, LocalsOK, Inside, Guarded
<1>4. QED
  BY <1>1, <1>2, <1>3 DEF Guard, GuardSession, GuardAdmin, CheckSession, RequireAdmin, Follows, EarlyPcs

\* The handlers behind it.
LEMMA ServeType ==
  ASSUME TypeInv, NEW p \in Procs, Serve(p)
  PROVE  TypeInv'
<1> USE DEF TypeInv
<1>1. ASSUME NEW on \in BOOLEAN, ServeAppStatus(p, on)
      PROVE  TypeInv'
  BY <1>1, DoneType DEF ServeAppStatus, TypeOK, RowsOK
<1>2. CASE ServeRevokeSees(p)
  <2>1. pc[p] = "serve" /\ pc' = [pc EXCEPT ![p] = "revoke"] /\ Remember
        /\ UNCHANGED <<account, admin, row, age, appOn, kind, tok, who, tokLock, userLock>>
    BY <1>2 DEF ServeRevokeSees, tables, locks
  <2>2. snap' \in [Procs -> SUBSET Tokens]
    <3>1. tok[p] \in Tokens
      BY <2>1 DEF LocalsOK, LatePcs
    <3>2. PICK S \in SUBSET Tokens : snap' = [snap EXCEPT ![p] = S]
      BY <1>2, <3>1 DEF ServeRevokeSees, LiveOf
    <3>3. QED
      BY <3>2 DEF TypeOK
  <2>3. tokLock[p] = {} /\ \A u \in Users : userLock[u] # p
    BY <2>1, AccessAssumption DEF LocksOK, LoginPcs
  <2>4. gone' \subseteq Procs /\ entitled' \subseteq Procs /\ raced' \subseteq Users
    BY <2>1, RememberFacts DEF TypeOK
  <2>5. TypeOK'
    <3>1. /\ pc' \in [Procs -> {"idle", "guard", "guardSession", "guardAdmin", "session", "isAdmin", "serve"} \cup InTx]
          /\ \A q \in Procs : tokLock'[q] \subseteq Tokens /\ (tokLock'[q] # {} => pc'[q] \in InTx)
          /\ \A u \in Users : userLock'[u] = None \/ pc'[userLock'[u]] \in InTx
      BY <2>1, <2>3 DEF TypeOK, InTx
    <3>2. QED
      BY <2>1, <2>2, <2>4, <3>1 DEF TypeOK
  <2>6. LocalsOK' /\ RowsOK' /\ LocksOK'
    BY <2>1, <2>3, AccessAssumption DEF LocalsOK, RowsOK, LocksOK, TypeOK, LoginPcs, EarlyPcs, LatePcs
  <2>7. QED
    BY <2>5, <2>6
<1>3. CASE ServeRevoke(p)
  <2>1. /\ row' \in [Tokens -> [state : {"free", "active", "revoked"}, user : Users \cup {None}]]
        /\ \A t \in Tokens : row[t].state # "free" => row'[t].state # "free" /\ row'[t].user = row[t].user
        /\ \A t \in Tokens : row[t].state = "free" => row'[t].state = "free"
    BY <1>3 DEF ServeRevoke, Revoked, TypeOK
  <2>2. QED
    BY <1>3, <2>1, DoneType DEF ServeRevoke, TypeOK, RowsOK
<1>4. CASE ServeOther(p)
  BY <1>4, RefuseType DEF ServeOther
<1>5. QED
  BY <1>1, <1>2, <1>3, <1>4 DEF Serve

\* RefreshAccessToken.
LEMMA RefreshType ==
  ASSUME TypeInv, NEW p \in Procs, RefreshFind(p) \/ RefreshTouch(p) \/ RefreshExtend(p)
  PROVE  TypeInv'
<1> USE DEF TypeInv
<1>1. CASE RefreshFind(p)
  BY <1>1, GotoType, RefuseType DEF RefreshFind, Follows
<1>2. CASE RefreshTouch(p)
  <2>1. /\ pc[p] = "refreshTouch" /\ pc' = [pc EXCEPT ![p] = "refreshExtend"] /\ Remember
        /\ userLock' = [userLock EXCEPT ![who[p]] = p] /\ userLock[who[p]] = None /\ who[p] \in Users
        /\ UNCHANGED <<account, admin, row, age, appOn, kind, tok, who, snap, tokLock>>
    BY <1>2 DEF RefreshTouch, tables, LocalsOK
  <2>2. gone' \subseteq Procs /\ entitled' \subseteq Procs /\ raced' \subseteq Users
    BY <2>1, RememberFacts DEF TypeOK
  <2>3. TypeOK'
    BY <2>1, <2>2 DEF TypeOK, InTx
  <2>4. LocalsOK' /\ RowsOK'
    BY <2>1 DEF LocalsOK, RowsOK, TypeOK, LoginPcs, EarlyPcs, LatePcs
  <2>5. LocksOK'
    BY <2>1 DEF LocksOK, TypeOK, LoginPcs
  <2>6. QED
    BY <2>3, <2>4, <2>5
<1>3. CASE RefreshExtend(p)
  BY <1>3, DoneType DEF RefreshExtend, TypeOK, RowsOK
<1>4. QED
  BY <1>1, <1>2, <1>3

\* HandleGoogleCallback.
LEMMA LoginType ==
  ASSUME TypeInv, NEW p \in Procs,
         CreateUser(p) \/ RevokeAllSees(p) \/ RevokeAll(p) \/ LoginTouch(p) \/ LoginCommit(p)
  PROVE  TypeInv'
<1> USE DEF TypeInv
<1>0. pc[p] \in LoginPcs /\ who[p] \in Users
  BY DEF CreateUser, RevokeAllSees, RevokeAll, LoginTouch, LoginCommit, LoginPcs, LocalsOK
<1>1. CASE CreateUser(p)
  <2>1. CASE /\ account' = [account EXCEPT ![who[p]] = "pending"]
             /\ userLock' = [userLock EXCEPT ![who[p]] = p]
             /\ pc' = [pc EXCEPT ![p] = "loginSee"]
             /\ UNCHANGED <<admin, row, age, appOn, kind, tok, who, snap, tokLock>>
             /\ Remember
    <3>1. gone' \subseteq Procs /\ entitled' \subseteq Procs /\ raced' \subseteq Users
      BY <2>1, RememberFacts DEF TypeOK
    <3>2. TypeOK'
      BY <1>0, <2>1, <3>1 DEF TypeOK, InTx
    <3>3. LocalsOK' /\ RowsOK'
      BY <1>0, <2>1 DEF LocalsOK, RowsOK, TypeOK, LoginPcs, EarlyPcs, LatePcs
    <3>4. LocksOK'
      BY <1>0, <1>1, <2>1 DEF CreateUser, LocksOK, TypeOK, LoginPcs
    <3>5. QED
      BY <3>2, <3>3, <3>4
  <2>2. CASE Refuse(p)
    BY <2>2, RefuseType
  <2>3. QED
    BY <1>1, <2>1, <2>2 DEF CreateUser
<1>2. CASE RevokeAllSees(p)
  <2>1. /\ pc[p] = "loginSee" /\ pc' = [pc EXCEPT ![p] = "loginRevoke"] /\ Remember
        /\ UNCHANGED <<account, admin, row, age, appOn, kind, tok, who, tokLock, userLock>>
    BY <1>2 DEF RevokeAllSees, tables, locks
  <2>2. snap' \in [Procs -> SUBSET Tokens]
    BY <1>2 DEF RevokeAllSees, TypeOK, LiveOf
  <2>3. gone' \subseteq Procs /\ entitled' \subseteq Procs /\ raced' \subseteq Users
    BY <2>1, RememberFacts DEF TypeOK
  <2>4. TypeOK'
    <3>1. /\ pc' \in [Procs -> {"idle", "guard", "guardSession", "guardAdmin", "session", "isAdmin", "serve"} \cup InTx]
          /\ \A q \in Procs : tokLock'[q] \subseteq Tokens /\ (tokLock'[q] # {} => pc'[q] \in InTx)
          /\ \A u \in Users : userLock'[u] = None \/ pc'[userLock'[u]] \in InTx
      BY <2>1 DEF TypeOK, InTx
    <3>2. QED
      BY <2>1, <2>2, <2>3, <3>1 DEF TypeOK
  <2>5. LocalsOK' /\ RowsOK' /\ LocksOK'
    BY <1>0, <2>1 DEF LocalsOK, RowsOK, LocksOK, TypeOK, LoginPcs, EarlyPcs, LatePcs
  <2>6. QED
    BY <2>4, <2>5
<1>3. CASE RevokeAll(p)
  <2>1. /\ pc[p] = "loginRevoke" /\ pc' = [pc EXCEPT ![p] = "loginTouch"] /\ Remember
        /\ tokLock' = [tokLock EXCEPT ![p] = {t \in snap[p] : row[t].state = "active"}]
        /\ snap' = [snap EXCEPT ![p] = {}]
        /\ UNCHANGED <<account, admin, row, age, appOn, kind, tok, who, userLock>>
    BY <1>3 DEF RevokeAll, tables
  <2>2. gone' \subseteq Procs /\ entitled' \subseteq Procs /\ raced' \subseteq Users
    BY <2>1, RememberFacts DEF TypeOK
  <2>3. TypeOK'
    BY <2>1, <2>2 DEF TypeOK, LocksOK, InTx
  <2>4. LocalsOK' /\ RowsOK'
    BY <1>0, <2>1 DEF LocalsOK, RowsOK, TypeOK, LoginPcs, EarlyPcs, LatePcs
  <2>5. LocksOK'
    BY <1>0, <2>1 DEF LocksOK, TypeOK, LoginPcs
  <2>6. QED
    BY <2>3, <2>4, <2>5
<1>4. CASE LoginTouch(p)
  <2>1. /\ pc[p] = "loginTouch" /\ pc' = [pc EXCEPT ![p] = "loginCreate"] /\ Remember
        /\ userLock' = [userLock EXCEPT ![who[p]] = p]
        /\ UNCHANGED <<account, admin, row, age, appOn, kind, tok, who, snap, tokLock>>
    BY <1>4 DEF LoginTouch, tables
  <2>2. gone' \subseteq Procs /\ entitled' \subseteq Procs /\ raced' \subseteq Users
    BY <2>1, RememberFacts DEF TypeOK
  <2>3. TypeOK'
    BY <1>0, <2>1, <2>2 DEF TypeOK, InTx
  <2>4. LocalsOK' /\ RowsOK'
    BY <1>0, <2>1 DEF LocalsOK, RowsOK, TypeOK, LoginPcs, EarlyPcs, LatePcs
  <2>5. LocksOK'
    BY <1>0, <2>1 DEF LocksOK, TypeOK, LoginPcs
  <2>6. QED
    BY <2>3, <2>4, <2>5
<1>5. CASE LoginCommit(p)
  <2>1. PICK t \in Tokens :
          /\ row[t].state = "free"
          /\ row' = [Revoked(tokLock[p]) EXCEPT ![t] = [state |-> "active", user |-> who[p]]]
    BY <1>5 DEF LoginCommit
  <2>2. /\ row' \in [Tokens -> [state : {"free", "active", "revoked"}, user : Users \cup {None}]]
        /\ \A s \in Tokens : row[s].state # "free" => row'[s].state # "free"
    <3>1. who[p] \in Users \cup {None}
      BY <1>0 DEF TypeOK
    <3>2. \A s \in Tokens :
             /\ Revoked(tokLock[p])[s] \in [state : {"free", "active", "revoked"}, user : Users \cup {None}]
             /\ row[s].state # "free" => Revoked(tokLock[p])[s].state # "free"
      BY DEF Revoked, TypeOK
    <3>3. \A s \in Tokens : row'[s] = IF s = t THEN [state |-> "active", user |-> who[p]] ELSE Revoked(tokLock[p])[s]
      BY <2>1 DEF Revoked
    <3>4. row' = [s \in Tokens |-> row'[s]]
      BY <2>1 DEF Revoked
    <3>5. QED
      BY <3>1, <3>2, <3>3, <3>4
  <2>3. RowsOK'
    BY <1>0, <2>1 DEF Revoked, TypeOK, RowsOK, LocksOK
  <2>4. QED
    BY <1>0, <1>5, <2>2, <2>3, DoneType DEF LoginCommit, TypeOK
<1>6. QED
  BY <1>1, <1>2, <1>3, <1>4, <1>5

\* A rollback, of one transaction or of all.
LEMMA AbortType ==
  ASSUME TypeInv, NEW P \in SUBSET Procs, Abort(P)
  PROVE  TypeInv'
  BY DoneType DEF Abort, TypeInv, TypeOK, RowsOK

\* What goes on around the requests.
LEMMA WorldType ==
  ASSUME TypeInv, (\E t \in Tokens : Expire(t)) \/ (\E u \in Users : SetAdmin(u))
  PROVE  TypeInv'
<1> USE DEF TypeInv
<1>1. ASSUME NEW t \in Tokens, Expire(t)
      PROVE  TypeInv'
  BY <1>1 DEF Expire, TypeOK, LocalsOK, RowsOK, LocksOK, request, locks, history
<1>2. ASSUME NEW u \in Users, SetAdmin(u)
      PROVE  TypeInv'
  <2>1. gone' \subseteq Procs /\ entitled' \subseteq Procs /\ raced' \subseteq Users
    BY <1>2, RememberFacts DEF SetAdmin, TypeOK
  <2>2. QED
    BY <1>2, <2>1 DEF SetAdmin, TypeOK, LocalsOK, RowsOK, LocksOK, request, locks
<1>3. QED
  BY <1>1, <1>2

\* Every step keeps the types.
LEMMA NextType == TypeInv /\ [Next]_vars => TypeInv'
<1> SUFFICES ASSUME TypeInv, [Next]_vars
             PROVE  TypeInv'
  OBVIOUS
<1>1. ASSUME NEW p \in Procs, Handle(p)
      PROVE  TypeInv'
  <2>1. CASE Victim(p)
    BY <2>1, AbortType DEF Victim
  <2>2. QED
    BY <1>1, <2>1, ChainType, ServeType, RefreshType, LoginType DEF Handle
<1>2. ASSUME NEW p \in Procs, Fail(p)
      PROVE  TypeInv'
  BY <1>2, AbortType DEF Fail
<1>3. ASSUME NEW p \in Procs,
             \/ \E k \in Kinds, t \in Tokens : Arrive(p, k, t)
             \/ \E u \in Users : Login(p, u)
      PROVE  TypeInv'
  BY <1>3, ArriveType
<1>4. CASE Crash
  BY <1>4, AbortType DEF Crash
<1>5. CASE UNCHANGED vars
  BY <1>5 DEF vars, tables, request, locks, history, TypeInv, TypeOK, LocalsOK, RowsOK, LocksOK
<1>6. QED
  BY <1>1, <1>2, <1>3, <1>4, <1>5, WorldType DEF Next

\* Every variable keeps its type, and only transactions under way hold locks.
THEOREM TypeCorrect == Spec => []TypeOK
<1>1. TypeInv => TypeOK
  BY DEF TypeInv
<1>2. QED
  BY <1>1, InitType, NextType, PTL DEF Spec

----------------------------------------------------------------------------
(* What one step does to a session, and to a request.                      *)

\* Sessions are only revoked, and never created.
NoNewSession ==
    \A t \in Tokens :
        row'[t] = row[t] \/ (row[t].state = "active" /\ row'[t] = [row[t] EXCEPT !.state = "revoked"])

\* All of a request but its step is as it was.
SameRequest(p) == kind'[p] = kind[p] /\ tok'[p] = tok[p] /\ who'[p] = who[p]

\* A request of a session comes in.
Comes(p) ==
    /\ pc[p] = "idle" /\ tok'[p] \in Tokens
    /\ \/ kind'[p] \in Guarded /\ pc'[p] = "guard"
       \/ kind'[p] \in {"manage", "logout"} /\ pc'[p] = "session"
       \/ kind'[p] = "refresh" /\ pc'[p] = "refreshFind"

\* It passes one check of the chain.
Passes(p) ==
    /\ SameRequest(p)
    /\ \/ pc[p] = "guard" /\ pc'[p] = "guardSession"
       \/ pc[p] = "guardSession" /\ pc'[p] = "guardAdmin"
       \/ pc[p] \in {"guard", "guardAdmin"} /\ pc'[p] = "session" /\ (appOn' \/ admin'[who'[p]])
       \/ pc[p] = "session" /\ pc'[p] \in {"isAdmin", "serve"} /\ row[tok[p]].state = "active"
          /\ (pc'[p] = "serve" => kind[p] \notin AdminRoutes)
       \/ pc[p] = "isAdmin" /\ pc'[p] = "serve" /\ admin'[who'[p]]

\* It goes on behind the checks.
GoesOn(p) ==
    /\ SameRequest(p)
    /\ \/ pc[p] = "serve" /\ pc'[p] = "revoke"
       \/ pc[p] \in {"refreshFind", "refreshTouch"} /\ pc'[p] \in {"refreshTouch", "refreshExtend"}

\* It is a login.
LogsIn(p) ==
    \/ /\ pc[p] = "idle" /\ kind'[p] = None
       /\ pc'[p] \in {"loginCreateUser", "loginSee"}
    \/ /\ SameRequest(p)
       /\ \/ pc[p] = "loginCreateUser" /\ pc'[p] = "loginSee"
          \/ pc[p] = "loginSee" /\ pc'[p] = "loginRevoke" /\ snap'[p] = LiveOf(who[p])
          \/ pc[p] = "loginRevoke" /\ pc'[p] = "loginTouch" /\ tokLock'[p] = {t \in snap[p] : row[t].state = "active"}
          \/ pc[p] = "loginTouch" /\ pc'[p] = "loginCreate" /\ tokLock'[p] = tokLock[p]

\* It stays where it is, or ends.
Stays(p) == SameRequest(p) /\ pc'[p] = pc[p] /\ snap'[p] = snap[p] /\ tokLock'[p] = tokLock[p]
Ends(p)  == pc'[p] = "idle" /\ kind'[p] = None

Move(p) == Stays(p) \/ Ends(p) \/ Comes(p) \/ Passes(p) \/ GoesOn(p) \/ LogsIn(p)

Moves == \A p \in Procs : Move(p)

\* Answers end requests.
LEMMA DoneMoves ==
  ASSUME TypeInv, NEW P \in SUBSET Procs, Done(P)
  PROVE  Moves /\ Remember /\ \A p \in P : Ends(p)
<1>1. /\ \A p \in P : Ends(p)
      /\ \A p \in Procs \ P : Stays(p)
  BY DEF Done, Forget, Ends, Stays, SameRequest, TypeInv, TypeOK, LocksOK
<1>2. QED
  BY <1>1 DEF Moves, Move, Done, Forget

\* A step of one request leaves the others where they are.
LEMMA OneMoves ==
  ASSUME TypeInv, NEW p \in Procs, NEW label, pc' = [pc EXCEPT ![p] = label],
         \A q \in Procs \ {p} : SameRequest(q) /\ snap'[q] = snap[q] /\ tokLock'[q] = tokLock[q],
         Comes(p) \/ Passes(p) \/ GoesOn(p) \/ LogsIn(p)
  PROVE  Moves
<1>1. \A q \in Procs \ {p} : Stays(q)
  BY DEF Stays, TypeInv, TypeOK
<1>2. QED
  BY <1>1 DEF Moves, Move

\* What every step but the passing of time and a commit of a login does.
LEMMA HandleMoves ==
  ASSUME TypeInv, NEW p \in Procs, Handle(p)
  PROVE  Moves /\ Remember /\ (NoNewSession \/ LoginCommit(p))
<1> USE DEF TypeInv
<1>1. CASE Refuse(p)
  BY <1>1, DoneMoves DEF Refuse, tables, NoNewSession
<1>2. ASSUME NEW label, Goto(p, label), Passes(p) \/ GoesOn(p)
      PROVE  Moves /\ Remember /\ NoNewSession
  <2>1. \A q \in Procs : SameRequest(q) /\ snap'[q] = snap[q] /\ tokLock'[q] = tokLock[q]
    BY <1>2 DEF Goto, SameRequest, locks
  <2>2. Moves
    BY <1>2, <2>1, OneMoves DEF Goto
  <2>3. QED
    BY <1>2, <2>2 DEF Goto, NoNewSession, tables
<1>3. ASSUME NEW label, Goto(p, label)
      PROVE  /\ pc'[p] = label /\ UNCHANGED <<appOn, admin, who>>
             /\ SameRequest(p)
  BY <1>3 DEF Goto, SameRequest, TypeOK, tables
<1>4. CASE Guard(p) \/ GuardSession(p) \/ GuardAdmin(p) \/ CheckSession(p) \/ RequireAdmin(p)
  <2>1. pc[p] \in {"guard", "guardSession", "guardAdmin"} => Inside(p) = "session"
    BY DEF LocalsOK, Inside, Guarded
  <2>2. CASE Guard(p)
    BY <1>1, <1>2, <1>3, <2>1, <2>2 DEF Guard, Passes
  <2>3. CASE GuardSession(p)
    BY <1>1, <1>2, <1>3, <2>3 DEF GuardSession, Passes
  <2>4. CASE GuardAdmin(p)
    BY <1>1, <1>2, <1>3, <2>1, <2>4 DEF GuardAdmin, Passes
  <2>5. CASE CheckSession(p)
    BY <1>1, <1>2, <1>3, <2>5 DEF CheckSession, Passes, Live
  <2>6. CASE RequireAdmin(p)
    BY <1>1, <1>2, <1>3, <2>6 DEF RequireAdmin, Passes
  <2>7. QED
    BY <1>4, <2>2, <2>3, <2>4, <2>5, <2>6
<1>5. CASE Serve(p)
  <2>1. ASSUME NEW on \in BOOLEAN, ServeAppStatus(p, on)
        PROVE  Moves /\ Remember /\ NoNewSession
    BY <2>1, DoneMoves DEF ServeAppStatus, NoNewSession
  <2>2. CASE ServeRevokeSees(p)
    <3>1. /\ pc' = [pc EXCEPT ![p] = "revoke"] /\ Remember /\ NoNewSession
          /\ \A q \in Procs : SameRequest(q) /\ tokLock'[q] = tokLock[q]
      BY <2>2 DEF ServeRevokeSees, SameRequest, NoNewSession, tables, locks
    <3>2. \A q \in Procs \ {p} : snap'[q] = snap[q]
      BY <2>2 DEF ServeRevokeSees, TypeOK
    <3>3. GoesOn(p)
      BY <2>2, <3>1 DEF ServeRevokeSees, GoesOn, TypeOK
    <3>4. QED
      BY <3>1, <3>2, <3>3, OneMoves
  <2>3. CASE ServeRevoke(p)
    BY <2>3, DoneMoves DEF ServeRevoke, Revoked, NoNewSession, TypeOK
  <2>4. CASE ServeOther(p)
    BY <1>1, <2>4 DEF ServeOther
  <2>5. QED
    BY <1>5, <2>1, <2>2, <2>3, <2>4 DEF Serve
<1>6. CASE RefreshFind(p)
  BY <1>1, <1>2, <1>3, <1>6 DEF RefreshFind, GoesOn
<1>7. CASE RefreshTouch(p)
  <2>1. /\ pc' = [pc EXCEPT ![p] = "refreshExtend"] /\ Remember /\ NoNewSession
        /\ \A q \in Procs : SameRequest(q) /\ snap'[q] = snap[q] /\ tokLock'[q] = tokLock[q]
    BY <1>7 DEF RefreshTouch, SameRequest, NoNewSession, tables
  <2>2. GoesOn(p)
    BY <1>7, <2>1 DEF RefreshTouch, GoesOn, TypeOK
  <2>3. QED
    BY <2>1, <2>2, OneMoves
<1>8. CASE RefreshExtend(p)
  BY <1>8, DoneMoves DEF RefreshExtend, NoNewSession
<1>9. CASE CreateUser(p)
  <2>1. CASE Refuse(p)
    BY <1>1, <2>1
  <2>2. CASE ~Refuse(p)
    <3>1. /\ pc' = [pc EXCEPT ![p] = "loginSee"] /\ Remember /\ NoNewSession
          /\ \A q \in Procs : SameRequest(q) /\ snap'[q] = snap[q] /\ tokLock'[q] = tokLock[q]
      BY <1>9, <2>2 DEF CreateUser, SameRequest, NoNewSession
    <3>2. LogsIn(p)
      BY <1>9, <3>1 DEF CreateUser, LogsIn, TypeOK
    <3>3. QED
      BY <3>1, <3>2, OneMoves
  <2>3. QED
    BY <2>1, <2>2
<1>10. CASE RevokeAllSees(p)
  <2>1. /\ pc' = [pc EXCEPT ![p] = "loginRevoke"] /\ Remember /\ NoNewSession
        /\ \A q \in Procs : SameRequest(q) /\ tokLock'[q] = tokLock[q]
        /\ \A q \in Procs \ {p} : snap'[q] = snap[q]
    BY <1>10 DEF RevokeAllSees, SameRequest, NoNewSession, tables, locks, TypeOK
  <2>2. LogsIn(p)
    BY <1>10, <2>1 DEF RevokeAllSees, LogsIn, TypeOK
  <2>3. QED
    BY <2>1, <2>2, OneMoves
<1>11. CASE RevokeAll(p)
  <2>1. /\ pc' = [pc EXCEPT ![p] = "loginTouch"] /\ Remember /\ NoNewSession
        /\ \A q \in Procs : SameRequest(q)
        /\ \A q \in Procs \ {p} : snap'[q] = snap[q] /\ tokLock'[q] = tokLock[q]
    BY <1>11 DEF RevokeAll, SameRequest, NoNewSession, tables, TypeOK, LocksOK
  <2>2. LogsIn(p)
    BY <1>11, <2>1 DEF RevokeAll, LogsIn, TypeOK, LocksOK
  <2>3. QED
    BY <2>1, <2>2, OneMoves
<1>12. CASE LoginTouch(p)
  <2>1. /\ pc' = [pc EXCEPT ![p] = "loginCreate"] /\ Remember /\ NoNewSession
        /\ \A q \in Procs : SameRequest(q) /\ snap'[q] = snap[q] /\ tokLock'[q] = tokLock[q]
    BY <1>12 DEF LoginTouch, SameRequest, NoNewSession, tables
  <2>2. LogsIn(p)
    BY <1>12, <2>1 DEF LoginTouch, LogsIn, TypeOK
  <2>3. QED
    BY <2>1, <2>2, OneMoves
<1>13. CASE LoginCommit(p)
  BY <1>13, DoneMoves DEF LoginCommit
<1>14. CASE Victim(p)
  BY <1>14, DoneMoves DEF Victim, Abort, NoNewSession
<1>15. QED
  BY <1>4, <1>5, <1>6, <1>7, <1>8, <1>9, <1>10, <1>11, <1>12, <1>13, <1>14 DEF Handle

\* The same of Next.
LEMMA NextMoves ==
  ASSUME TypeInv, Next
  PROVE  \/ Moves /\ Remember /\ (NoNewSession \/ \E p \in Procs : LoginCommit(p))
         \/ UNCHANGED <<account, admin, row, appOn, request, locks, history>>
<1>1. ASSUME NEW p \in Procs, Handle(p)
      PROVE  Moves /\ Remember /\ (NoNewSession \/ LoginCommit(p))
  BY <1>1, HandleMoves
<1>2. ASSUME NEW p \in Procs, Fail(p)
      PROVE  Moves /\ Remember /\ NoNewSession
  BY <1>2, DoneMoves DEF Fail, Abort, NoNewSession
<1>3. ASSUME NEW p \in Procs, NEW k \in Kinds, NEW t \in Tokens, Arrive(p, k, t)
      PROVE  Moves /\ Remember /\ NoNewSession
  <2>1. Remember /\ NoNewSession
    BY <1>3 DEF Arrive, NoNewSession, tables
  <2>2. \A q \in Procs \ {p} : SameRequest(q) /\ snap'[q] = snap[q] /\ tokLock'[q] = tokLock[q]
    BY <1>3 DEF Arrive, SameRequest, locks, TypeInv, TypeOK
  <2>3. Comes(p)
    BY <1>3 DEF Arrive, Comes, Kinds, Guarded, TypeInv, TypeOK
  <2>4. QED
    BY <1>3, <2>1, <2>2, <2>3, OneMoves DEF Arrive
<1>4. ASSUME NEW p \in Procs, NEW u \in Users, Login(p, u)
      PROVE  Moves /\ Remember /\ NoNewSession
  <2>1. Remember /\ NoNewSession
    BY <1>4 DEF Login, NoNewSession, tables
  <2>2. \A q \in Procs \ {p} : SameRequest(q) /\ snap'[q] = snap[q] /\ tokLock'[q] = tokLock[q]
    BY <1>4 DEF Login, SameRequest, locks, TypeInv, TypeOK
  <2>3. LogsIn(p)
    BY <1>4 DEF Login, LogsIn, TypeInv, TypeOK, LocalsOK
  <2>4. QED
    BY <1>4, <2>1, <2>2, <2>3, OneMoves DEF Login
<1>5. ASSUME NEW u \in Users, SetAdmin(u)
      PROVE  Moves /\ Remember /\ NoNewSession
  BY <1>5 DEF SetAdmin, Moves, Move, Stays, SameRequest, NoNewSession, request, locks
<1>6. ASSUME NEW t \in Tokens, Expire(t)
      PROVE  UNCHANGED <<account, admin, row, appOn, request, locks, history>>
  BY <1>6 DEF Expire
<1>7. CASE Crash
  BY <1>7, DoneMoves DEF Crash, Abort, NoNewSession
<1>8. QED
  BY <1>1, <1>2, <1>3, <1>4, <1>5, <1>6, <1>7 DEF Next

----------------------------------------------------------------------------
(* A revoked session is never active again.                                *)

\* What a login's commit does to the sessions: what it holds is revoked, one row
\* that was free is the user's new session, and the rest is as it was.
LEMMA CommitSessions ==
  ASSUME TypeInv, NEW p \in Procs, LoginCommit(p)
  PROVE  \E new \in Tokens :
           /\ row[new].state = "free"
           /\ row'[new] = [state |-> "active", user |-> who[p]]
           /\ \A t \in Tokens \ {new} :
                row'[t] = IF t \in tokLock[p] THEN [row[t] EXCEPT !.state = "revoked"] ELSE row[t]
  BY DEF LoginCommit, Revoked, TypeInv, TypeOK

\* A step keeps revoked sessions revoked.
LEMMA RevokedStays ==
  ASSUME TypeInv, [Next]_vars, NEW t \in Tokens, row[t].state = "revoked"
  PROVE  row'[t].state = "revoked"
<1>1. CASE NoNewSession
  BY <1>1 DEF NoNewSession, TypeInv, TypeOK
<1>2. ASSUME NEW p \in Procs, LoginCommit(p)
      PROVE  row'[t].state = "revoked"
  <2>1. PICK new \in Tokens :
          /\ row[new].state = "free"
          /\ \A s \in Tokens \ {new} :
               row'[s] = IF s \in tokLock[p] THEN [row[s] EXCEPT !.state = "revoked"] ELSE row[s]
    BY <1>2, CommitSessions
  <2>2. t # new
    BY <2>1
  <2>3. row[t] \in [state : {"free", "active", "revoked"}, user : Users \cup {None}]
    BY DEF TypeInv, TypeOK
  <2>4. QED
    BY <2>1, <2>2, <2>3
<1>3. CASE UNCHANGED row
  BY <1>3
<1>4. QED
  BY <1>1, <1>2, <1>3, NextMoves DEF vars, tables

\* Neither a refresh that found it alive before, nor a login, a rollback or a
\* crash makes a revoked session active again.
THEOREM RevokedIsFinal == Spec => RevokedForGood
<1>1. TypeInv /\ [Next]_vars => [\A t \in Tokens : row[t].state = "revoked" => row'[t].state = "revoked"]_row
  BY RevokedStays
<1>2. QED
  BY <1>1, InitType, NextType, PTL DEF Spec, RevokedForGood

----------------------------------------------------------------------------
(* Who is served.                                                          *)

\* A step keeps the requests of revoked sessions in front of the look-up.
LEMMA NextGone ==
  ASSUME TypeInv, GoneOK, [Next]_vars
  PROVE  GoneOK'
<1>1. CASE Next /\ Moves /\ Remember
  <2>1. SUFFICES ASSUME NEW p \in Procs, p \in gone'
                 PROVE  tok'[p] \in Tokens /\ row'[tok'[p]].state = "revoked" /\ pc'[p] \in EarlyPcs
    BY <1>1, RememberFacts DEF GoneOK
  <2>2. kind'[p] \notin {None, "refresh"} /\ IF pc[p] = "idle" THEN row[tok'[p]].state = "revoked" ELSE p \in gone
    BY <1>1, <2>1, RememberFacts
  <2>3. tok'[p] \in Tokens /\ row[tok'[p]].state = "revoked" /\ pc'[p] \in EarlyPcs
    <3>1. CASE pc[p] = "idle"
      BY <1>1, <2>2, <3>1 DEF Moves, Move, Stays, Ends, Comes, Passes, GoesOn, LogsIn, SameRequest, EarlyPcs, TypeInv, LocalsOK
    <3>2. CASE pc[p] # "idle"
      BY <1>1, <2>2, <3>2 DEF Moves, Move, Stays, Ends, Comes, Passes, GoesOn, LogsIn, SameRequest, EarlyPcs, GoneOK
    <3>3. QED
      BY <3>1, <3>2
  <2>4. QED
    BY <2>3, RevokedStays
<1>2. CASE UNCHANGED <<account, admin, row, appOn, request, locks, history>>
  BY <1>2 DEF GoneOK, request, history
<1>3. QED
  BY <1>1, <1>2, NextMoves DEF vars, tables

\* A step keeps what requests are entitled to.
LEMMA NextEntitled ==
  ASSUME TypeInv, EntitledOK, [Next]_vars
  PROVE  EntitledOK'
<1>1. CASE Moves /\ Remember
  <2>1. SUFFICES ASSUME NEW p \in Procs
                 PROVE  /\ pc'[p] = "serve" /\ kind'[p] \in AdminRoutes => p \in entitled'
                        /\ pc'[p] \in {"session", "serve"} /\ kind'[p] = "user" => p \in entitled'
    BY DEF EntitledOK
  <2>2. /\ p \in entitled /\ pc'[p] # "idle" => p \in entitled'
        /\ kind'[p] \in AdminRoutes /\ admin'[who'[p]] => p \in entitled'
        /\ kind'[p] = "user" /\ (appOn' \/ admin'[who'[p]]) => p \in entitled'
    BY <1>1, RememberFacts
  <2>3. QED
    BY <1>1, <2>2 DEF Moves, Move, Stays, Ends, Comes, Passes, GoesOn, LogsIn, SameRequest, EntitledOK, Guarded, AdminRoutes
<1>2. CASE UNCHANGED <<account, admin, row, appOn, request, locks, history>>
  BY <1>2 DEF EntitledOK, request, history
<1>3. QED
  BY <1>1, <1>2, NextMoves DEF vars, tables

\* The parts of the invariant that say who is served hold at the start.
LEMMA InitServed == Init => GoneOK /\ EntitledOK
  BY DEF Init, GoneOK, EntitledOK

\* A session revoked before its request came serves nothing any more, though the
\* access token still parses.
THEOREM RevokedIsRefused == Spec => []NoServeAfterRevoke
<1>1. TypeInv /\ GoneOK => NoServeAfterRevoke
  BY DEF GoneOK, NoServeAfterRevoke, Served, EarlyPcs
<1>2. TypeInv /\ GoneOK /\ [Next]_vars => (TypeInv /\ GoneOK)'
  BY NextType, NextGone
<1>3. QED
  BY <1>1, <1>2, InitType, InitServed, PTL DEF Spec

\* Every administrator's request that is served came from someone who was an
\* administrator since it arrived.
THEOREM AdminsOnly == Spec => []AdminIsCurrent
<1>1. TypeInv /\ EntitledOK => AdminIsCurrent
  BY DEF EntitledOK, AdminIsCurrent, Served
<1>2. TypeInv /\ EntitledOK /\ [Next]_vars => (TypeInv /\ EntitledOK)'
  BY NextType, NextEntitled
<1>3. QED
  BY <1>1, <1>2, InitType, InitServed, PTL DEF Spec

\* Maintenance lets nobody in but administrators.
THEOREM MaintenanceKeepsOut == Spec => []MaintenanceHolds
<1>1. TypeInv /\ EntitledOK => MaintenanceHolds
  BY DEF EntitledOK, MaintenanceHolds, Served, Guarded, AdminRoutes
<1>2. TypeInv /\ EntitledOK /\ [Next]_vars => (TypeInv /\ EntitledOK)'
  BY NextType, NextEntitled
<1>3. QED
  BY <1>1, <1>2, InitType, InitServed, PTL DEF Spec

----------------------------------------------------------------------------
(* One session per user.                                                   *)

\* Who logs in after a step did so before it, or has just come.
LEMMA LoginMoves ==
  ASSUME TypeInv, Moves, NEW u \in Users, NEW p \in LoggingIn(u)'
  PROVE  \/ pc[p] = "idle" /\ pc'[p] \in {"loginCreateUser", "loginSee"}
         \/ p \in LoggingIn(u) /\ (Stays(p) \/ LogsIn(p))
<1>1. p \in Procs /\ who'[p] = u /\ kind'[p] = None /\ pc'[p] # "idle"
  BY DEF LoggingIn
<1>2. kind[p] # None => ~SameRequest(p)
  BY <1>1 DEF SameRequest
<1>3. Move(p)
  BY <1>1 DEF Moves
<1>4. CASE Stays(p) \/ LogsIn(p)
  BY <1>1, <1>4 DEF Stays, LogsIn, SameRequest, LoggingIn
<1>5. ~Ends(p) /\ ~Comes(p)
  BY <1>1, AccessAssumption DEF Ends, Comes, Kinds, Guarded
<1>6. kind[p] = None => ~Passes(p) /\ ~GoesOn(p)
  BY <1>1, AccessAssumption DEF Passes, GoesOn, TypeInv, LocalsOK, EarlyPcs, LatePcs, Kinds, Guarded
<1>7. QED
  BY <1>1, <1>2, <1>3, <1>4, <1>5, <1>6 DEF Move, Passes, GoesOn

\* A step that creates no session.
LEMMA QuietSessions ==
  ASSUME TypeInv, SessionsOK, Moves, Remember, NoNewSession
  PROVE  SessionsOK'
<1> SUFFICES ASSUME NEW u \in Users, u \notin raced'
             PROVE  /\ \A s, t \in LiveOf(u)' : s = t
                    /\ \A p, q \in LoggingIn(u)' : p = q
                    /\ \A p \in LoggingIn(u)' :
                          /\ pc'[p] = "loginRevoke" => LiveOf(u)' \subseteq snap'[p]
                          /\ pc'[p] \in {"loginTouch", "loginCreate"} => LiveOf(u)' \subseteq tokLock'[p]
  BY DEF SessionsOK
<1>1. u \notin raced /\ \A p, q \in LoggingIn(u)' : p = q
  BY RememberFacts
<1>2. LiveOf(u)' \subseteq LiveOf(u)
  <2>1. \A t \in Tokens : row[t] \in [state : {"free", "active", "revoked"}, user : Users \cup {None}]
    BY DEF TypeInv, TypeOK
  <2>2. \A t \in Tokens : row'[t].state = "active" => row'[t] = row[t]
    BY <2>1 DEF NoNewSession
  <2>3. QED
    BY <2>2 DEF LiveOf
<1>3. ASSUME NEW p \in LoggingIn(u)'
      PROVE  /\ pc'[p] = "loginRevoke" => LiveOf(u) \subseteq snap'[p]
             /\ pc'[p] \in {"loginTouch", "loginCreate"} => LiveOf(u) \subseteq tokLock'[p]
  <2>1. CASE pc[p] = "idle" /\ pc'[p] \in {"loginCreateUser", "loginSee"}
    BY <2>1
  <2>2. CASE p \in LoggingIn(u) /\ Stays(p)
    BY <1>1, <2>2 DEF SessionsOK, Stays
  <2>3. CASE p \in LoggingIn(u) /\ LogsIn(p)
    <3>1. who[p] = u
      BY <2>3 DEF LoggingIn
    <3>2. pc[p] = "loginRevoke" => LiveOf(u) \subseteq snap[p]
      BY <1>1, <2>3 DEF SessionsOK
    <3>3. pc[p] = "loginTouch" => LiveOf(u) \subseteq tokLock[p]
      BY <1>1, <2>3 DEF SessionsOK
    <3>4. \A t \in LiveOf(u) : row[t].state = "active"
      BY DEF LiveOf
    <3>5. QED
      BY <2>3, <3>1, <3>2, <3>3, <3>4 DEF LogsIn
  <2>4. QED
    BY <2>1, <2>2, <2>3, LoginMoves
<1>4. \A s, t \in LiveOf(u)' : s = t
  BY <1>1, <1>2 DEF SessionsOK
<1>5. QED
  BY <1>1, <1>2, <1>3, <1>4

\* A login that ends: its session takes the place of all its user had.
LEMMA CommitKeepsOne ==
  ASSUME TypeInv, SessionsOK, NEW p \in Procs, LoginCommit(p)
  PROVE  SessionsOK'
<1>0. Moves /\ Remember /\ Ends(p) /\ pc[p] = "loginCreate" /\ who[p] \in Users
  BY DoneMoves DEF LoginCommit, TypeInv, LocalsOK
<1> SUFFICES ASSUME NEW u \in Users, u \notin raced'
             PROVE  /\ \A s, t \in LiveOf(u)' : s = t
                    /\ \A q, r \in LoggingIn(u)' : q = r
                    /\ \A q \in LoggingIn(u)' :
                          /\ pc'[q] = "loginRevoke" => LiveOf(u)' \subseteq snap'[q]
                          /\ pc'[q] \in {"loginTouch", "loginCreate"} => LiveOf(u)' \subseteq tokLock'[q]
  BY DEF SessionsOK
<1>1. u \notin raced /\ \A q, r \in LoggingIn(u)' : q = r
  BY <1>0, RememberFacts
<1>2. PICK new \in Tokens :
        /\ row[new].state = "free"
        /\ row'[new] = [state |-> "active", user |-> who[p]]
        /\ \A t \in Tokens \ {new} :
             row'[t] = IF t \in tokLock[p] THEN [row[t] EXCEPT !.state = "revoked"] ELSE row[t]
  BY CommitSessions
<1>3. \A t \in LiveOf(u)' : (t = new /\ who[p] = u) \/ (t \in LiveOf(u) /\ t \notin tokLock[p])
  <2>0. LiveOf(u)' = {t \in Tokens : row'[t].state = "active" /\ row'[t].user = u}
    BY DEF LiveOf
  <2> SUFFICES ASSUME NEW t \in Tokens, row'[t].state = "active", row'[t].user = u
               PROVE  (t = new /\ who[p] = u) \/ (t \in LiveOf(u) /\ t \notin tokLock[p])
    BY <2>0
  <2>1. CASE t = new
    BY <1>2, <2>1
  <2>2. CASE t # new
    <3>1. row'[t] = IF t \in tokLock[p] THEN [row[t] EXCEPT !.state = "revoked"] ELSE row[t]
      BY <1>2, <2>2
    <3>2. row[t] \in [state : {"free", "active", "revoked"}, user : Users \cup {None}]
      BY DEF TypeInv, TypeOK
    <3>3. t \notin tokLock[p]
      BY <3>1, <3>2
    <3>4. QED
      BY <3>1, <3>3 DEF LiveOf
  <2>3. QED
    BY <2>1, <2>2
<1>4. \A q \in LoggingIn(u)' : q # p /\ (pc'[q] \in {"loginCreateUser", "loginSee"} \/ (q \in LoggingIn(u) /\ Stays(q)))
  BY <1>0, LoginMoves DEF LoginCommit, Done, Forget, Ends, Stays, SameRequest, LoggingIn, TypeInv, TypeOK, LocksOK
<1>5. CASE who[p] = u
  <2>1. p \in LoggingIn(u)
    BY <1>0, <1>5, AccessAssumption DEF LoggingIn, TypeInv, LocalsOK, LoginPcs
  <2>2. LiveOf(u) \subseteq tokLock[p] /\ \A q \in LoggingIn(u) : q = p
    BY <1>0, <1>1, <2>1 DEF SessionsOK
  <2>3. \A s, t \in LiveOf(u)' : s = t
    BY <1>3, <2>2
  <2>4. QED
    BY <1>1, <1>4, <2>2, <2>3
<1>6. CASE who[p] # u
  <2>1. LiveOf(u)' \subseteq LiveOf(u)
    BY <1>3, <1>6
  <2>2. QED
    BY <1>1, <1>4, <2>1 DEF SessionsOK, Stays
<1>7. QED
  BY <1>5, <1>6

\* A step keeps every user whose logins never overlapped at one session.
LEMMA NextSessions ==
  ASSUME TypeInv, SessionsOK, [Next]_vars
  PROVE  SessionsOK'
<1>1. CASE UNCHANGED <<account, admin, row, appOn, request, locks, history>>
  BY <1>1 DEF SessionsOK, LiveOf, LoggingIn, request, locks, history
<1>2. QED
  BY <1>1, QuietSessions, CommitKeepsOne, NextMoves DEF vars, tables

\* Nobody has two sessions whose logins never overlapped.
THEOREM OneSession == Spec => []OneSessionUnlessRaced
<1>1. SessionsOK => OneSessionUnlessRaced
  <2> SUFFICES ASSUME SessionsOK, NEW u \in Users \ raced
               PROVE  Cardinality(LiveOf(u)) <= 1
    BY DEF OneSessionUnlessRaced
  <2>1. LiveOf(u) \in SUBSET Tokens
    BY DEF LiveOf
  <2>2. IsFiniteSet(LiveOf(u))
    BY <2>1, AccessAssumption, FS_Subset
  <2>3. \A s, t \in LiveOf(u) : s = t
    BY DEF SessionsOK
  <2>4. QED
    BY <2>2, <2>3, AtMostOne
<1>2. Init => SessionsOK
  BY DEF Init, SessionsOK, LiveOf, LoggingIn
<1>3. TypeInv /\ SessionsOK /\ [Next]_vars => (TypeInv /\ SessionsOK)'
  BY NextType, NextSessions
<1>4. QED
  BY <1>1, <1>2, <1>3, InitType, PTL DEF Spec

===============================================================================
