---------------------------- MODULE PipelineProofs ----------------------------
(***************************************************************************)
(* Theorems about Pipeline for any number of workers, admins, articles,    *)
(* URLs, sources and items, with any faults and admin operations: its rows,*)
(* then that it implements Catalogue, then where its outbound links lead,  *)
(* which of them go dead and which are missed.                             *)
(*                                                                         *)
(* UniqueActiveUrl and JudgedAtMostOnce are not inductive.  Uniqueness     *)
(* needs the unique index to cover the uncommitted rows too (IndexUnique); *)
(* both need to know whose row each open transaction holds (OwnState), that*)
(* two workers never hold the same row (OwnDistinct), and that a row is    *)
(* judged by its owner, later than its commit (OwnUnjudged, Unjudged).     *)
(***************************************************************************)
EXTENDS Pipeline, TLAPS

\* What the program counter says of a process's locals.
LocalsOK ==
    \A p \in Procs :
        /\ pc[p] \in {"treat", "keywords", "insert", "createInsert"} => item[p] \in Items
        /\ pc[p] \in {"sourceRetarget", "sourceRemove"} => src[p] \in Sources
        /\ own[p] \in Articles <=> pc[p] \in {"retarget", "commit", "judge", "deleteRetarget", "deleteRemove"}

TypeInv == SystemOK /\ LocalsOK

\* A worker between its INSERT and its COMMIT owns an uncommitted row; later,
\* and in DeleteArticle, the row is published.
OwnState ==
    \A p \in Procs :
        /\ pc[p] \in {"retarget", "commit"} => state[own[p]] = "pending"
        /\ pc[p] \in {"judge", "deleteRetarget", "deleteRemove"} => state[own[p]] \in {"active", "removed"}

\* The worker p stores or judges the article own[p].
Stores(p) == pc[p] \in {"retarget", "commit", "judge"}

OwnDistinct == \A p, q \in Procs : Stores(p) /\ Stores(q) /\ own[p] = own[q] => p = q

OwnUnjudged == \A p \in Procs : Stores(p) => judged[own[p]] = 0

Unjudged == \A a \in Articles : state[a] \in {"free", "pending"} => judged[a] = 0

IndexUnique ==
    \A a, b \in Articles :
        /\ state[a] \in {"active", "pending"}
        /\ state[b] \in {"active", "pending"}
        /\ url[a] = url[b]
        => a = b

RowInv ==
    /\ OwnState
    /\ OwnDistinct
    /\ OwnUnjudged
    /\ Unjudged
    /\ JudgedAtMostOnce
    /\ IndexUnique

IInv == TypeInv /\ RowInv

----------------------------------------------------------------------------
(* What the helpers return.                                                *)

\* The lookup by URL returns a stored article or nothing.
LEMMA LookupType == \A u \in Urls : Lookup(u) \in Articles \cup {None}
  BY DEF Lookup, FindByURLOriginal

\* The moved rows of a transaction keep the outbound rows well typed.
LEMMA ApplyPendType ==
  ASSUME SystemOK, NEW p \in Procs, ApplyPend(p)
  PROVE  link' \in [Articles -> [Urls -> Hrefs \cup {None}]]
  BY DEF SystemOK, ApplyPend

\* A process that carries no body has a well typed one.
LEMMA NoHrefsType == NoHrefs \in [Urls -> Hrefs \cup {None}]
  BY DEF NoHrefs

\* A process that is done is back at its idle state, the others are untouched.
LEMMA ResetType ==
  ASSUME TypeInv, NEW P \in SUBSET Procs, Reset(P)
  PROVE  /\ pc' \in [Procs -> WorkerPcs \cup AdminPcs]
         /\ item' \in [Procs -> Items \cup {None}]
         /\ treated' \in [Procs -> [Urls -> Hrefs \cup {None}]]
         /\ own' \in [Procs -> Articles \cup {None}]
         /\ seenUrl' \in [Procs -> Urls \cup {None}]
         /\ src' \in [Procs -> Sources \cup {None}]
         /\ pend' \in [Procs -> [Articles -> [Urls -> Hrefs \cup {None}]]]
         /\ LocalsOK'
<1>1. "idle" \in WorkerPcs \cup AdminPcs
  BY DEF WorkerPcs
<1>2. LocalsOK'
  BY PipelineAssumption DEF TypeInv, SystemOK, LocalsOK, Reset
<1>3. QED
  BY <1>1, <1>2, NoHrefsType DEF TypeInv, SystemOK, Reset, NoRows

\* A rollback gives back the rows the transactions inserted.
LEMMA AbortType ==
  ASSUME TypeInv, NEW P \in SUBSET Procs, Abort(P), batch' \subseteq Items
  PROVE  TypeInv'
<1>1. Reset(P)
  BY DEF Abort
<1>2. /\ state' \in [Articles -> {"free", "pending", "active", "removed"}]
      /\ url' \in [Articles -> Urls \cup {None}]
      /\ source' \in [Articles -> Sources \cup {None}]
      /\ via' \in [Articles -> {"sweep", "admin", None}]
      /\ sourceUp' \in [Sources -> BOOLEAN]
      /\ judged' \in [Articles -> Nat]
  BY DEF TypeInv, SystemOK, Abort
<1>3. /\ body' \in [Articles -> [Urls -> Hrefs \cup {None, IdRef}]]
      /\ link' \in [Articles -> [Urls -> Hrefs \cup {None}]]
  BY NoHrefsType DEF TypeInv, SystemOK, Abort, NoHrefs
<1>4. QED
  BY <1>1, <1>2, <1>3, ResetType DEF TypeInv, SystemOK

----------------------------------------------------------------------------
(* Type correctness.                                                       *)

\* The database and the processes start well typed.
LEMMA InitType == Init => TypeInv
<1>1. "idle" \in WorkerPcs \cup AdminPcs
  BY DEF WorkerPcs
<1>2. Init => SystemOK
  BY <1>1, NoHrefsType DEF Init, SystemOK, NoRows, NoHrefs
<1>3. Init => LocalsOK
  BY PipelineAssumption DEF Init, LocalsOK
<1>4. QED
  BY <1>2, <1>3 DEF TypeInv

\* A step of a discovery worker.
LEMMA WorkerType ==
  ASSUME TypeInv, NEW w \in Workers, WorkerStep(w)
  PROVE  TypeInv'
<1> USE PipelineAssumption
<1>0. w \in Procs
  BY DEF Procs
<1>1. ASSUME NEW i \in Items, Skip(w, i)
      PROVE  TypeInv'
  BY <1>1 DEF Skip, TypeInv, SystemOK, LocalsOK, tables, locals
<1>2. ASSUME NEW i \in Items, Take(w, i)
      PROVE  TypeInv'
  BY <1>0, <1>2 DEF Take, Goto, TypeInv, SystemOK, LocalsOK, tables, WorkerPcs
<1>3. CASE ResolveInternalURLs(w)
  <2>1. item[w] \in Items
    BY <1>0, <1>3 DEF ResolveInternalURLs, TypeInv, LocalsOK
  <2>2. treated' \in [Procs -> [Urls -> Hrefs \cup {None}]]
    <3> DEFINE anchors == ItemHrefs[item[w]]
               plain == [h \in Urls |-> IF h \in anchors THEN h ELSE None]
               found == [h \in Urls |-> IF h \in anchors /\ Lookup(h) # None THEN Lookup(h) ELSE plain[h]]
    <3>1. plain \in [Urls -> Hrefs \cup {None}]
      BY DEF Hrefs
    <3>2. found \in [Urls -> Hrefs \cup {None}]
      BY <3>1, LookupType DEF Hrefs
    <3>3. treated' = [treated EXCEPT ![w] = found] \/ treated' = [treated EXCEPT ![w] = plain]
      BY <1>3 DEF ResolveInternalURLs
    <3>4. treated \in [Procs -> [Urls -> Hrefs \cup {None}]]
      BY DEF TypeInv, SystemOK
    <3> HIDE DEF plain, found
    <3>5. QED
      BY <1>0, <3>1, <3>2, <3>3, <3>4
  <2>3. QED
    BY <1>0, <1>3, <2>2 DEF ResolveInternalURLs, Goto, TypeInv, SystemOK, LocalsOK, tables, WorkerPcs
<1>4. CASE KeywordsFail(w)
  BY <1>0, <1>4, ResetType DEF KeywordsFail, TypeInv, SystemOK, tables
<1>5. CASE FindSource(w)
  <2>1. pc[w] = "keywords" /\ UNCHANGED <<tables, batch>>
    BY <1>5 DEF FindSource
  <2>2. CASE Goto(w, "insert") /\ UNCHANGED <<item, treated, own, seenUrl, src, pend>>
    BY <1>0, <2>1, <2>2 DEF Goto, TypeInv, SystemOK, LocalsOK, tables, WorkerPcs
  <2>3. CASE Reset({w})
    BY <1>0, <2>1, <2>3, ResetType DEF TypeInv, SystemOK, tables
  <2>4. QED
    BY <1>5, <2>2, <2>3 DEF FindSource
<1>6. CASE LoseInsert(w)
  BY <1>0, <1>6, ResetType DEF LoseInsert, TypeInv, SystemOK, tables
<1>7. CASE Insert(w)
  <2>1. item[w] \in Items /\ ItemUrl[item[w]] \in Urls /\ ItemSource[item[w]] \in Sources
    BY <1>0, <1>7 DEF Insert, TypeInv, LocalsOK
  <2>2. PICK a \in Articles :
          /\ state' = [state EXCEPT ![a] = "pending"]
          /\ url' = [url EXCEPT ![a] = ItemUrl[item[w]]]
          /\ source' = [source EXCEPT ![a] = ItemSource[item[w]]]
          /\ via' = [via EXCEPT ![a] = "sweep"]
          /\ own' = [own EXCEPT ![w] = a]
          /\ \/ /\ link' = [link EXCEPT ![a] = treated[w]]
                /\ body' = [body EXCEPT ![a] = [h \in Urls |-> IF treated[w][h] = None THEN None ELSE IdRef]]
             \/ /\ body' = [body EXCEPT ![a] = treated[w]]
                /\ link' = link
    BY <1>7 DEF Insert, Assign, Ids
  <2>3. /\ body' \in [Articles -> [Urls -> Hrefs \cup {None, IdRef}]]
        /\ link' \in [Articles -> [Urls -> Hrefs \cup {None}]]
    <3>1. treated[w] \in [Urls -> Hrefs \cup {None}]
      BY <1>0 DEF TypeInv, SystemOK
    <3> DEFINE ids == [h \in Urls |-> IF treated[w][h] = None THEN None ELSE IdRef]
    <3>2. ids \in [Urls -> Hrefs \cup {None, IdRef}] /\ treated[w] \in [Urls -> Hrefs \cup {None, IdRef}]
      BY <3>1
    <3>3. body' = [body EXCEPT ![a] = ids] \/ body' = [body EXCEPT ![a] = treated[w]]
      BY <2>2
    <3>4. link' = [link EXCEPT ![a] = treated[w]] \/ link' = link
      BY <2>2
    <3> HIDE DEF ids
    <3>5. /\ body \in [Articles -> [Urls -> Hrefs \cup {None, IdRef}]]
          /\ link \in [Articles -> [Urls -> Hrefs \cup {None}]]
      BY DEF TypeInv, SystemOK
    <3>6. body' \in [Articles -> [Urls -> Hrefs \cup {None, IdRef}]]
      BY <3>2, <3>3, <3>5
    <3>7. link' \in [Articles -> [Urls -> Hrefs \cup {None}]]
      BY <3>1, <3>4, <3>5
    <3>8. QED
      BY <3>6, <3>7
  <2>4. QED
    BY <1>0, <1>7, <2>1, <2>2, <2>3, NoHrefsType
       DEF Insert, Goto, TypeInv, SystemOK, LocalsOK, WorkerPcs
<1>8. CASE Retarget(w)
  <2>1. own[w] \in Hrefs
    BY <1>0, <1>8 DEF Retarget, TypeInv, LocalsOK, Hrefs
  <2>2. pend' \in [Procs -> [Articles -> [Urls -> Hrefs \cup {None}]]]
    BY <1>0, <1>8, <2>1 DEF Retarget, Repoint, RowsTo, TypeInv, SystemOK
  <2>3. QED
    <3>1. pc' = [pc EXCEPT ![w] = "commit"] /\ "commit" \in WorkerPcs
      BY <1>8 DEF Retarget, Goto, WorkerPcs
    <3>2. UNCHANGED <<tables, batch, item, treated, own, seenUrl, src>>
      BY <1>8 DEF Retarget
    <3>3. SystemOK'
      BY <1>0, <2>2, <3>1, <3>2 DEF TypeInv, SystemOK, tables, WorkerPcs
    <3>4. LocalsOK'
      BY <1>0, <1>8, <3>1, <3>2 DEF TypeInv, SystemOK, LocalsOK, Retarget
    <3>5. QED
      BY <3>3, <3>4 DEF TypeInv
<1>9. CASE Commit(w)
  <2>1. pend' \in [Procs -> [Articles -> [Urls -> Hrefs \cup {None}]]]
    BY <1>0, <1>9, NoHrefsType DEF Commit, TypeInv, SystemOK, NoRows
  <2>2. QED
    <3>1. pc' = [pc EXCEPT ![w] = "judge"] /\ "judge" \in WorkerPcs
      BY <1>9 DEF Commit, Goto, WorkerPcs
    <3>2. /\ state' = [state EXCEPT ![own[w]] = "active"]
          /\ UNCHANGED <<sourceUp, url, source, body, via, judged, batch, item, treated, own, seenUrl, src>>
      BY <1>9 DEF Commit
    <3>3. link' \in [Articles -> [Urls -> Hrefs \cup {None}]]
      BY <1>0, <1>9, ApplyPendType DEF Commit, TypeInv, SystemOK
    <3>4. SystemOK'
      BY <1>0, <2>1, <3>1, <3>2, <3>3 DEF TypeInv, SystemOK, WorkerPcs
    <3>5. LocalsOK'
      BY <1>0, <1>9, <3>1, <3>2 DEF TypeInv, SystemOK, LocalsOK, Commit
    <3>6. QED
      BY <3>4, <3>5 DEF TypeInv
<1>10. CASE Judge(w)
  <2>1. judged' \in [Articles -> Nat]
    BY <1>0, <1>10 DEF Judge, TypeInv, SystemOK, LocalsOK
  <2>2. QED
    BY <1>0, <1>10, <2>1, ResetType DEF Judge, TypeInv, SystemOK
<1>11. QED
  BY <1>1, <1>2, <1>3, <1>4, <1>5, <1>6, <1>7, <1>8, <1>9, <1>10 DEF WorkerStep

\* A step of an admin request.
LEMMA AdminType ==
  ASSUME TypeInv, NEW p \in Admins, AdminStep(p)
  PROVE  TypeInv'
<1> USE PipelineAssumption
<1>0. p \in Procs
  BY DEF Procs
<1>1. ASSUME NEW i \in Items, CreateFindSource(p, i)
      PROVE  TypeInv'
  BY <1>0, <1>1 DEF CreateFindSource, Goto, TypeInv, SystemOK, LocalsOK, tables, AdminPcs
<1>2. CASE CreateInsert(p)
  <2>1. item[p] \in Items /\ ItemUrl[item[p]] \in Urls /\ ItemSource[item[p]] \in Sources
    BY <1>0, <1>2 DEF CreateInsert, TypeInv, LocalsOK
  <2>2. /\ state' \in [Articles -> {"free", "pending", "active", "removed"}]
        /\ url' \in [Articles -> Urls \cup {None}]
        /\ source' \in [Articles -> Sources \cup {None}]
        /\ via' \in [Articles -> {"sweep", "admin", None}]
        /\ body' \in [Articles -> [Urls -> Hrefs \cup {None, IdRef}]]
    <3> DEFINE given == [h \in Urls |-> IF h \in ItemHrefs[item[p]] THEN h ELSE None]
    <3>1. given \in [Urls -> Hrefs \cup {None, IdRef}]
      BY DEF Hrefs
    <3>2. CASE UNCHANGED <<state, url, source, body, via>>
      BY <3>2 DEF TypeInv, SystemOK
    <3>3. CASE \E a \in Articles :
                 /\ state' = [state EXCEPT ![a] = "active"]
                 /\ url' = [url EXCEPT ![a] = ItemUrl[item[p]]]
                 /\ source' = [source EXCEPT ![a] = ItemSource[item[p]]]
                 /\ via' = [via EXCEPT ![a] = "admin"]
                 /\ body' = [body EXCEPT ![a] = given]
      <4> HIDE DEF given
      <4>1. QED
        BY <2>1, <3>1, <3>3 DEF TypeInv, SystemOK
    <3>4. QED
      BY <1>2, <3>2, <3>3 DEF CreateInsert
  <2>3. Reset({p}) /\ UNCHANGED <<sourceUp, link, judged, batch>>
    BY <1>2 DEF CreateInsert
  <2>4. QED
    BY <1>0, <2>2, <2>3, ResetType DEF TypeInv, SystemOK
<1>3. ASSUME NEW a \in Articles, NEW i \in Items, UpdateArticle(a, i)
      PROVE  TypeInv'
  BY <1>3 DEF UpdateArticle, TypeInv, SystemOK, LocalsOK, locals, Hrefs
<1>4. ASSUME NEW a \in Articles, DeleteFind(p, a)
      PROVE  TypeInv'
  BY <1>0, <1>4 DEF DeleteFind, Goto, TypeInv, SystemOK, LocalsOK, tables, AdminPcs
<1>5. CASE DeleteRetarget(p)
  <2>1. pend' \in [Procs -> [Articles -> [Urls -> Hrefs \cup {None}]]]
    BY <1>0, <1>5 DEF DeleteRetarget, Repoint, RowsTo, TypeInv, SystemOK, Hrefs
  <2>2. QED
    BY <1>0, <1>5, <2>1 DEF DeleteRetarget, Goto, TypeInv, SystemOK, LocalsOK, tables, AdminPcs
<1>6. CASE DeleteRemove(p)
  BY <1>0, <1>6, ApplyPendType, ResetType DEF DeleteRemove, TypeInv, SystemOK
<1>7. ASSUME NEW s \in Sources, SourceFind(p, s)
      PROVE  TypeInv'
  BY <1>0, <1>7 DEF SourceFind, Goto, TypeInv, SystemOK, LocalsOK, tables, AdminPcs
<1>8. CASE SourceRetarget(p)
  <2>1. pend' \in [Procs -> [Articles -> [Urls -> Hrefs \cup {None}]]]
    BY <1>0, <1>8 DEF SourceRetarget, Repoint, RowsTo, ActiveOf, TypeInv, SystemOK, Hrefs
  <2>2. QED
    BY <1>0, <1>8, <2>1 DEF SourceRetarget, Goto, TypeInv, SystemOK, LocalsOK, tables, AdminPcs
<1>9. CASE SourceRemove(p)
  BY <1>0, <1>9, ApplyPendType, ResetType DEF SourceRemove, TypeInv, SystemOK
<1>10. QED
  BY <1>1, <1>2, <1>3, <1>4, <1>5, <1>6, <1>7, <1>8, <1>9 DEF AdminStep

\* Every step of a worker, an administrator or the process keeps the types.
LEMMA NextType == TypeInv /\ [Step]_system => TypeInv'
<1> SUFFICES ASSUME TypeInv, [Step]_system
             PROVE  TypeInv'
  OBVIOUS
<1>1. CASE StartSweep
  BY <1>1 DEF StartSweep, TypeInv, SystemOK, LocalsOK, tables, locals
<1>2. ASSUME NEW w \in Workers, WorkerStep(w)
      PROVE  TypeInv'
  BY <1>2, WorkerType
<1>3. ASSUME NEW p \in Admins, AdminStep(p)
      PROVE  TypeInv'
  BY <1>3, AdminType
<1>4. ASSUME NEW p \in Procs, Rollback(p)
      PROVE  TypeInv'
  BY <1>4, AbortType DEF Rollback, TypeInv, SystemOK
<1>5. CASE Crash
  BY <1>5, AbortType DEF Crash
<1>6. CASE UNCHANGED system
  BY <1>6 DEF system, tables, locals, TypeInv, SystemOK, LocalsOK
<1>7. QED
  BY <1>1, <1>2, <1>3, <1>4, <1>5, <1>6 DEF Step

\* A step of the system is a step of its specification, history apart.
LEMMA SystemSteps == [Next]_vars => [Step]_system
  BY DEF Next, vars

\* An anchor in id form has its row.
IdsHaveRows == \A a \in Articles, h \in Urls : body[a][h] = IdRef => link[a][h] # None

\* A worker stores both or neither.
LEMMA WorkerKeepsRows ==
  ASSUME TypeInv, IdsHaveRows, NEW w \in Workers, WorkerStep(w)
  PROVE  IdsHaveRows'
<1> USE PipelineAssumption
<1>0. w \in Procs
  BY DEF Procs
<1>a. /\ body \in [Articles -> [Urls -> Hrefs \cup {None, IdRef}]]
      /\ link \in [Articles -> [Urls -> Hrefs \cup {None}]]
      /\ treated[w] \in [Urls -> Hrefs \cup {None}]
  BY <1>0 DEF TypeInv, SystemOK
<1>1. CASE UNCHANGED <<body, link>>
  BY <1>1 DEF IdsHaveRows
<1>2. CASE Insert(w)
  <2>1. PICK a \in Articles : Assign(w, a)
    BY <1>2 DEF Insert
  <2>2. CASE link' = [link EXCEPT ![a] = treated[w]] /\ body' = [body EXCEPT ![a] = Ids(treated[w])]
    <3>1. \A h \in Urls : Ids(treated[w])[h] = IdRef => treated[w][h] # None
      BY DEF Ids
    <3>2. QED
      BY <1>a, <2>2, <3>1 DEF IdsHaveRows
  <2>3. CASE body' = [body EXCEPT ![a] = treated[w]] /\ link' = link
    BY <1>a, <2>3 DEF IdsHaveRows, Hrefs
  <2>4. QED
    BY <2>1, <2>2, <2>3 DEF Assign
<1>3. CASE Commit(w)
  <2>1. \A a \in Articles, h \in Urls : link[a][h] # None => link'[a][h] # None
    BY <1>3 DEF Commit, ApplyPend
  <2>2. QED
    BY <1>3, <2>1 DEF Commit, IdsHaveRows
<1>4. QED
  BY <1>1, <1>2, <1>3
     DEF WorkerStep, Skip, Take, ResolveInternalURLs, KeywordsFail, FindSource, LoseInsert, Retarget, Judge, tables

\* An administrator writes bodies without ids, and repoints rows.
LEMMA AdminKeepsRows ==
  ASSUME TypeInv, IdsHaveRows, NEW p \in Admins, AdminStep(p)
  PROVE  IdsHaveRows'
<1> USE PipelineAssumption
<1>a. body \in [Articles -> [Urls -> Hrefs \cup {None, IdRef}]]
  BY DEF TypeInv, SystemOK
<1> DEFINE given(i) == [h \in Urls |-> IF h \in ItemHrefs[i] THEN h ELSE None]
<1>1. CASE UNCHANGED <<body, link>>
  BY <1>1 DEF IdsHaveRows
<1>2. ASSUME NEW a \in Articles, NEW i, body' = [body EXCEPT ![a] = given(i)], link' = link
      PROVE  IdsHaveRows'
  <2>1. \A h \in Urls : given(i)[h] # IdRef
    OBVIOUS
  <2> HIDE DEF given
  <2>2. QED
    BY <1>a, <1>2, <2>1 DEF IdsHaveRows
<1>3. ASSUME ApplyPend(p), body' = body
      PROVE  IdsHaveRows'
  BY <1>3 DEF ApplyPend, IdsHaveRows
<1>4. ASSUME CreateInsert(p)
      PROVE  IdsHaveRows'
  BY <1>1, <1>2, <1>4 DEF CreateInsert
<1>5. ASSUME NEW a \in Articles, NEW i \in Items, UpdateArticle(a, i)
      PROVE  IdsHaveRows'
  BY <1>2, <1>5 DEF UpdateArticle
<1>6. QED
  BY <1>1, <1>3, <1>4, <1>5
     DEF AdminStep, CreateFindSource, DeleteFind, DeleteRetarget, DeleteRemove, SourceFind, SourceRetarget, SourceRemove, tables

LEMMA NextKeepsRows == TypeInv /\ IdsHaveRows /\ [Step]_system => IdsHaveRows'
<1> SUFFICES ASSUME TypeInv, IdsHaveRows, [Step]_system
             PROVE  IdsHaveRows'
  OBVIOUS
<1>1. ASSUME NEW P \in SUBSET Procs, Abort(P)
      PROVE  IdsHaveRows'
  BY <1>1, PipelineAssumption DEF Abort, IdsHaveRows, NoHrefs
<1>2. CASE StartSweep \/ UNCHANGED system
  BY <1>2 DEF StartSweep, system, tables, IdsHaveRows
<1>3. QED
  BY <1>1, <1>2, WorkerKeepsRows, AdminKeepsRows DEF Step, Rollback, Crash

\* Every variable keeps its type, for any number of processes and rows, and no
\* step of any of them, failures included, leaves a body with an id without its
\* row: what persist's single transaction is for.
THEOREM TypeCorrect == Spec => []TypeOK
<1> DEFINE RacesOK == crossed \subseteq Articles /\ missed \subseteq Articles
<1>1. Init => TypeInv /\ IdsHaveRows /\ RacesOK
  BY InitType, PipelineAssumption DEF Init, IdsHaveRows, NoRows, NoHrefs
<1>2. TypeInv /\ IdsHaveRows /\ [Step]_system => (TypeInv /\ IdsHaveRows)'
  BY NextType, NextKeepsRows
<1>3. RacesOK /\ [Next]_vars => RacesOK'
  BY DEF Next, Remember, Crossing, Passing, Overlooked, vars, races
<1>4. TypeInv /\ IdsHaveRows /\ RacesOK => TypeOK
  BY DEF TypeInv, TypeOK, IdsHaveRows
<1>5. QED
  BY <1>1, <1>2, <1>3, <1>4, SystemSteps, PTL DEF Spec

----------------------------------------------------------------------------
(* The rows and their owners.                                              *)

\* Where a process owns no row.
Ownerless == {"idle", "treat", "keywords", "insert", "createInsert", "sourceRetarget", "sourceRemove"}

\* A step that leaves the rows alone keeps RowInv when every process either
\* stays where it is, or goes where it owns no row.
LEMMA RowFrame ==
  ASSUME RowInv, UNCHANGED <<state, url, judged>>,
         \A p \in Procs : \/ pc'[p] = pc[p] /\ own'[p] = own[p]
                          \/ pc'[p] \in Ownerless
  PROVE  RowInv'
<1>1. OwnState'
  BY DEF RowInv, OwnState, Ownerless
<1>2. OwnDistinct'
  BY DEF RowInv, OwnDistinct, Stores, Ownerless
<1>3. OwnUnjudged'
  BY DEF RowInv, OwnUnjudged, Stores, Ownerless
<1>4. Unjudged' /\ JudgedAtMostOnce' /\ IndexUnique'
  BY DEF RowInv, Unjudged, JudgedAtMostOnce, IndexUnique
<1>5. QED
  BY <1>1, <1>2, <1>3, <1>4 DEF RowInv

\* A row of the partial unique index is uncommitted or active.
LEMMA HoldersOf ==
  ASSUME NEW u, NEW a \in Articles
  PROVE  a \in IndexHolders(u) <=> state[a] \in {"active", "pending"} /\ url[a] = u
  BY DEF IndexHolders

\* With no row there is nothing to keep apart.
LEMMA InitRow == Init => RowInv
  BY DEF Init, RowInv, OwnState, OwnDistinct, OwnUnjudged, Unjudged, JudgedAtMostOnce, IndexUnique, Stores

\* A rollback, or a crash, frees the rows it undoes and no other: nobody else
\* carries them.
LEMMA AbortRow ==
  ASSUME IInv, NEW P \in SUBSET Procs, Abort(P)
  PROVE  RowInv'
<1>1. /\ \A p \in Procs : IF p \in P THEN pc'[p] = "idle" ELSE pc'[p] = pc[p] /\ own'[p] = own[p]
      /\ judged' = judged
      /\ \A a \in Articles : IF a \in Inserted(P) THEN state'[a] = "free"
                              ELSE state'[a] = state[a] /\ url'[a] = url[a]
  BY DEF Abort, Reset
<1>2. \A a \in Inserted(P) : state[a] = "pending" /\ \E p \in P : own[p] = a
  BY DEF Inserted
<1>3. ASSUME NEW p \in Procs \ P, Stores(p) \/ pc[p] \in {"deleteRetarget", "deleteRemove"}
      PROVE  own[p] \in Articles /\ own[p] \notin Inserted(P)
  <2>1. own[p] \in Articles
    BY <1>3 DEF IInv, TypeInv, LocalsOK, Stores
  <2>2. ASSUME NEW q \in P, own[q] = own[p], state[own[p]] = "pending"
        PROVE  FALSE
    <3>1. q \in Procs /\ q # p
      BY <1>3
    <3>2. Stores(q)
      BY <2>1, <2>2, <3>1 DEF IInv, TypeInv, LocalsOK, RowInv, OwnState, Stores
    <3>3. Stores(p)
      BY <1>3, <2>2 DEF IInv, RowInv, OwnState, Stores
    <3>4. QED
      BY <2>2, <3>1, <3>2, <3>3 DEF IInv, RowInv, OwnDistinct
  <2>3. QED
    BY <1>2, <2>1, <2>2
<1>4. OwnState'
  <2>1. ASSUME NEW p \in Procs, pc'[p] \in {"retarget", "commit", "judge", "deleteRetarget", "deleteRemove"}
        PROVE  p \notin P /\ pc'[p] = pc[p] /\ own'[p] = own[p] /\ state'[own[p]] = state[own[p]]
    BY <1>1, <1>3, <2>1 DEF Stores
  <2>2. QED
    BY <2>1 DEF IInv, RowInv, OwnState
<1>5. OwnDistinct'
  BY <1>1 DEF IInv, RowInv, OwnDistinct, Stores
<1>6. OwnUnjudged'
  BY <1>1 DEF IInv, RowInv, OwnUnjudged, Stores
<1>7. Unjudged' /\ JudgedAtMostOnce'
  BY <1>1, <1>2 DEF IInv, RowInv, Unjudged, JudgedAtMostOnce
<1>8. IndexUnique'
  BY <1>1 DEF IInv, RowInv, IndexUnique
<1>9. QED
  BY <1>4, <1>5, <1>6, <1>7, <1>8 DEF RowInv

\* A step of a discovery worker keeps the rows and their owners apart.
LEMMA WorkerRow ==
  ASSUME IInv, TypeInv', NEW w \in Workers, WorkerStep(w)
  PROVE  RowInv'
<1> USE PipelineAssumption
<1>0. w \in Procs /\ RowInv /\ TypeInv
  BY DEF Procs, IInv
<1>a. pc \in [Procs -> WorkerPcs \cup AdminPcs] /\ own \in [Procs -> Articles \cup {None}]
      /\ state \in [Articles -> {"free", "pending", "active", "removed"}]
      /\ judged \in [Articles -> Nat] /\ url \in [Articles -> Urls \cup {None}]
  BY DEF IInv, TypeInv, SystemOK
<1>1. ASSUME NEW i \in Items, Skip(w, i)
      PROVE  RowInv'
  BY <1>0, <1>1, RowFrame DEF Skip, tables, locals
<1>2. ASSUME NEW i \in Items, Take(w, i)
      PROVE  RowInv'
  BY <1>0, <1>a, <1>2, RowFrame DEF Take, Goto, tables, Ownerless
<1>3. CASE ResolveInternalURLs(w)
  BY <1>0, <1>a, <1>3, RowFrame DEF ResolveInternalURLs, Goto, tables, Ownerless
<1>4. CASE KeywordsFail(w)
  BY <1>0, <1>4, RowFrame DEF KeywordsFail, Reset, tables, Ownerless
<1>5. CASE FindSource(w)
  <2>1. CASE Goto(w, "insert") /\ UNCHANGED own
    BY <1>0, <1>a, <1>5, <2>1, RowFrame DEF FindSource, Goto, tables, Ownerless
  <2>2. CASE Reset({w})
    BY <1>0, <1>5, <2>2, RowFrame DEF FindSource, Reset, tables, Ownerless
  <2>3. QED
    BY <1>5, <2>1, <2>2 DEF FindSource
<1>6. CASE LoseInsert(w)
  BY <1>0, <1>6, RowFrame DEF LoseInsert, Reset, tables, Ownerless
<1>7. CASE Insert(w)
  <2>1. PICK a \in Articles :
          /\ state[a] = "free"
          /\ state' = [state EXCEPT ![a] = "pending"]
          /\ url' = [url EXCEPT ![a] = ItemUrl[item[w]]]
          /\ own' = [own EXCEPT ![w] = a]
    BY <1>7 DEF Insert
  <2>2. pc' = [pc EXCEPT ![w] = "retarget"] /\ judged' = judged
    BY <1>7 DEF Insert, Goto
  <2>3. \A b \in Articles : state[b] \in {"active", "pending"} => url[b] # ItemUrl[item[w]]
    BY <1>7, HoldersOf DEF Insert
  <2>4. OwnState'
    BY <1>0, <1>a, <2>1, <2>2 DEF RowInv, OwnState, TypeInv, LocalsOK
  <2>5. \A p \in Procs : Stores(p) => own[p] # a
    BY <1>0, <2>1 DEF RowInv, OwnState, Stores
  <2>6. OwnDistinct'
    BY <1>0, <1>a, <2>1, <2>2, <2>5 DEF RowInv, OwnDistinct, Stores
  <2>7. OwnUnjudged' /\ Unjudged' /\ JudgedAtMostOnce'
    BY <1>0, <1>a, <2>1, <2>2 DEF RowInv, OwnUnjudged, Unjudged, JudgedAtMostOnce, Stores
  <2>8. IndexUnique'
    BY <1>0, <1>a, <2>1, <2>3 DEF RowInv, IndexUnique
  <2>9. QED
    BY <2>4, <2>6, <2>7, <2>8 DEF RowInv
<1>8. CASE Retarget(w)
  <2>1. pc[w] = "retarget" /\ pc' = [pc EXCEPT ![w] = "commit"] /\ UNCHANGED <<state, url, judged, own>>
    BY <1>8 DEF Retarget, Goto, tables
  <2>2. QED
    BY <1>0, <1>a, <2>1
       DEF RowInv, OwnState, OwnDistinct, OwnUnjudged, Unjudged, JudgedAtMostOnce, IndexUnique, Stores
<1>9. CASE Commit(w)
  <2>1. /\ pc[w] = "commit"
        /\ pc' = [pc EXCEPT ![w] = "judge"]
        /\ state' = [state EXCEPT ![own[w]] = "active"]
        /\ UNCHANGED <<url, judged, own>>
    BY <1>9 DEF Commit, Goto
  <2>2. own[w] \in Articles /\ state[own[w]] = "pending"
    BY <1>0, <2>1 DEF RowInv, OwnState, TypeInv, LocalsOK
  <2>3. OwnState'
    BY <1>0, <1>a, <2>1, <2>2 DEF RowInv, OwnState, OwnDistinct, Stores
  <2>4. OwnDistinct' /\ OwnUnjudged'
    BY <1>0, <1>a, <2>1 DEF RowInv, OwnDistinct, OwnUnjudged, Stores
  <2>5. Unjudged' /\ JudgedAtMostOnce'
    BY <1>0, <1>a, <2>1, <2>2 DEF RowInv, Unjudged, JudgedAtMostOnce
  <2>6. IndexUnique'
    BY <1>0, <1>a, <2>1, <2>2 DEF RowInv, IndexUnique
  <2>7. QED
    BY <2>3, <2>4, <2>5, <2>6 DEF RowInv
<1>10. CASE Judge(w)
  <2>1. /\ pc[w] = "judge"
        /\ judged' = [judged EXCEPT ![own[w]] = @ + 1]
        /\ \A p \in Procs : IF p = w THEN pc'[p] = "idle" ELSE pc'[p] = pc[p] /\ own'[p] = own[p]
        /\ UNCHANGED <<state, url>>
    BY <1>0, <1>10 DEF Judge, Reset
  <2>2. /\ own[w] \in Articles
        /\ judged[own[w]] = 0
        /\ state[own[w]] \in {"active", "removed"}
    BY <1>0, <2>1 DEF RowInv, OwnState, OwnUnjudged, TypeInv, LocalsOK, Stores
  <2>3. OwnState' /\ OwnDistinct'
    BY <1>0, <2>1 DEF RowInv, OwnState, OwnDistinct, Stores
  <2>4. OwnUnjudged'
    BY <1>0, <1>a, <2>1, <2>2 DEF RowInv, OwnDistinct, OwnUnjudged, Stores
  <2>5. Unjudged' /\ JudgedAtMostOnce' /\ IndexUnique'
    BY <1>0, <1>a, <2>1, <2>2 DEF RowInv, Unjudged, JudgedAtMostOnce, IndexUnique
  <2>6. QED
    BY <2>3, <2>4, <2>5 DEF RowInv
<1>11. QED
  BY <1>1, <1>2, <1>3, <1>4, <1>5, <1>6, <1>7, <1>8, <1>9, <1>10 DEF WorkerStep

\* So does a step of an admin request.
LEMMA AdminRow ==
  ASSUME IInv, TypeInv', NEW p \in Admins, AdminStep(p)
  PROVE  RowInv'
<1> USE PipelineAssumption
<1>0. p \in Procs /\ RowInv /\ TypeInv
  BY DEF Procs, IInv
<1>a. pc \in [Procs -> WorkerPcs \cup AdminPcs] /\ own \in [Procs -> Articles \cup {None}]
      /\ state \in [Articles -> {"free", "pending", "active", "removed"}]
      /\ judged \in [Articles -> Nat] /\ url \in [Articles -> Urls \cup {None}]
  BY DEF IInv, TypeInv, SystemOK
<1>1. ASSUME NEW i \in Items, CreateFindSource(p, i)
      PROVE  RowInv'
  BY <1>0, <1>a, <1>1, RowFrame DEF CreateFindSource, Goto, tables, Ownerless
<1>2. CASE CreateInsert(p)
  <2>1. Reset({p}) /\ UNCHANGED judged
    BY <1>2 DEF CreateInsert
  <2>2. CASE UNCHANGED <<state, url>>
    BY <1>0, <2>1, <2>2, RowFrame DEF Reset, Ownerless
  <2>3. ASSUME NEW a \in Articles,
               IndexHolders(ItemUrl[item[p]]) = {},
               state[a] = "free",
               state' = [state EXCEPT ![a] = "active"],
               url' = [url EXCEPT ![a] = ItemUrl[item[p]]]
        PROVE  RowInv'
    <3>1. \A b \in Articles : state[b] \in {"active", "pending"} => url[b] # ItemUrl[item[p]]
      BY <2>3, HoldersOf
    <3>2. \A q \in Procs : Stores(q)' => q # p /\ Stores(q) /\ own'[q] = own[q] /\ own[q] # a
      BY <1>0, <2>1, <2>3 DEF Reset, RowInv, OwnState, Stores
    <3>3. OwnState'
      BY <1>0, <1>a, <2>1, <2>3 DEF Reset, RowInv, OwnState, TypeInv, LocalsOK
    <3>4. OwnDistinct' /\ OwnUnjudged'
      BY <1>0, <2>1, <3>2 DEF RowInv, OwnDistinct, OwnUnjudged
    <3>5. Unjudged' /\ JudgedAtMostOnce' /\ IndexUnique'
      BY <1>0, <1>a, <2>1, <2>3, <3>1 DEF RowInv, Unjudged, JudgedAtMostOnce, IndexUnique
    <3>6. QED
      BY <3>3, <3>4, <3>5 DEF RowInv
  <2>4. QED
    BY <1>2, <2>2, <2>3 DEF CreateInsert
<1>3. ASSUME NEW a \in Articles, NEW i \in Items, UpdateArticle(a, i)
      PROVE  RowInv'
  <2>1. /\ state[a] = "active"
        /\ url' = [url EXCEPT ![a] = ItemUrl[i]]
        /\ UNCHANGED <<state, judged, pc, own>>
    BY <1>3 DEF UpdateArticle, locals
  <2>2. \A b \in Articles : state[b] \in {"active", "pending"} /\ url[b] = ItemUrl[i] => b = a
    BY <1>3, HoldersOf DEF UpdateArticle
  <2>3. OwnState' /\ OwnDistinct' /\ OwnUnjudged' /\ Unjudged' /\ JudgedAtMostOnce'
    BY <1>0, <2>1 DEF RowInv, OwnState, OwnDistinct, OwnUnjudged, Unjudged, JudgedAtMostOnce, Stores
  <2>4. IndexUnique'
    BY <1>0, <1>a, <2>1, <2>2 DEF RowInv, IndexUnique
  <2>5. QED
    BY <2>3, <2>4 DEF RowInv
<1>4. ASSUME NEW a \in Articles, DeleteFind(p, a)
      PROVE  RowInv'
  <2>1. /\ state[a] = "active"
        /\ pc' = [pc EXCEPT ![p] = "deleteRetarget"]
        /\ own' = [own EXCEPT ![p] = a]
        /\ UNCHANGED <<state, url, judged>>
    BY <1>4 DEF DeleteFind, Goto, tables
  <2>2. QED
    BY <1>0, <1>a, <2>1
       DEF RowInv, OwnState, OwnDistinct, OwnUnjudged, Unjudged, JudgedAtMostOnce, IndexUnique, Stores
<1>5. CASE DeleteRetarget(p)
  <2>1. /\ pc[p] = "deleteRetarget"
        /\ pc' = [pc EXCEPT ![p] = "deleteRemove"]
        /\ UNCHANGED <<state, url, judged, own>>
    BY <1>5 DEF DeleteRetarget, Goto, tables
  <2>2. QED
    BY <1>0, <1>a, <2>1
       DEF RowInv, OwnState, OwnDistinct, OwnUnjudged, Unjudged, JudgedAtMostOnce, IndexUnique, Stores
<1>6. CASE DeleteRemove(p)
  <2>1. /\ pc[p] = "deleteRemove"
        /\ state' = [state EXCEPT ![own[p]] = "removed"]
        /\ Reset({p})
        /\ UNCHANGED <<url, judged>>
    BY <1>6 DEF DeleteRemove
  <2>2. own[p] \in Articles /\ state[own[p]] \in {"active", "removed"}
    BY <1>0, <2>1 DEF RowInv, OwnState, TypeInv, LocalsOK
  <2>3. OwnState'
    BY <1>0, <1>a, <2>1, <2>2 DEF Reset, RowInv, OwnState
  <2>4. OwnDistinct' /\ OwnUnjudged'
    BY <1>0, <2>1 DEF Reset, RowInv, OwnDistinct, OwnUnjudged, Stores
  <2>5. Unjudged' /\ JudgedAtMostOnce' /\ IndexUnique'
    BY <1>0, <1>a, <2>1, <2>2 DEF RowInv, Unjudged, JudgedAtMostOnce, IndexUnique
  <2>6. QED
    BY <2>3, <2>4, <2>5 DEF RowInv
<1>7. ASSUME NEW s \in Sources, SourceFind(p, s)
      PROVE  RowInv'
  BY <1>0, <1>a, <1>7, RowFrame DEF SourceFind, Goto, tables, Ownerless
<1>8. CASE SourceRetarget(p)
  BY <1>0, <1>a, <1>8, RowFrame DEF SourceRetarget, Goto, tables, Ownerless
<1>9. CASE SourceRemove(p)
  <2>1. /\ \A a \in Articles : \/ state[a] = "active" /\ state'[a] = "removed"
                               \/ state'[a] = state[a]
        /\ Reset({p})
        /\ UNCHANGED <<url, judged>>
    BY <1>9 DEF SourceRemove, ActiveOf
  <2>2. OwnState'
    BY <1>0, <1>a, <2>1 DEF Reset, RowInv, OwnState, TypeInv, LocalsOK
  <2>3. OwnDistinct' /\ OwnUnjudged'
    BY <1>0, <2>1 DEF Reset, RowInv, OwnDistinct, OwnUnjudged, Stores
  <2>4. Unjudged' /\ JudgedAtMostOnce' /\ IndexUnique'
    BY <1>0, <1>a, <2>1 DEF RowInv, Unjudged, JudgedAtMostOnce, IndexUnique
  <2>5. QED
    BY <2>2, <2>3, <2>4 DEF RowInv
<1>10. QED
  BY <1>1, <1>2, <1>3, <1>4, <1>5, <1>6, <1>7, <1>8, <1>9 DEF AdminStep

\* The strengthened invariant is inductive.
LEMMA NextInv == IInv /\ [Step]_system => IInv'
<1> SUFFICES ASSUME IInv, [Step]_system
             PROVE  IInv'
  OBVIOUS
<1>0. TypeInv'
  BY NextType DEF IInv
<1> SUFFICES RowInv'
  BY <1>0 DEF IInv
<1>1. ASSUME UNCHANGED <<state, url, judged, pc, own>>
      PROVE  RowInv'
  <2>1. \A p \in Procs : pc'[p] = pc[p] /\ own'[p] = own[p]
    BY <1>1
  <2>2. RowInv
    BY DEF IInv
  <2>3. QED
    BY <1>1, <2>1, <2>2, RowFrame
<1>2. ASSUME NEW w \in Workers, WorkerStep(w)
      PROVE  RowInv'
  BY <1>0, <1>2, WorkerRow
<1>3. ASSUME NEW p \in Admins, AdminStep(p)
      PROVE  RowInv'
  BY <1>0, <1>3, AdminRow
<1>4. ASSUME NEW p \in Procs, Rollback(p)
      PROVE  RowInv'
  BY <1>4, AbortRow DEF Rollback
<1>5. CASE Crash
  BY <1>5, AbortRow DEF Crash
<1>6. CASE StartSweep \/ UNCHANGED system
  BY <1>1, <1>6 DEF StartSweep, system, tables, locals
<1>7. QED
  BY <1>2, <1>3, <1>4, <1>5, <1>6 DEF Step

\* And so it holds in every state.
LEMMA Invariance == Spec => []IInv
<1>1. Init => IInv
  BY InitType, InitRow DEF IInv
<1>2. QED
  BY <1>1, NextInv, SystemSteps, PTL DEF Spec

\* No interleaving of sweeps, admin requests, rollbacks and crashes leaves two
\* active articles with one original URL.
THEOREM UrlsStayUnique == Spec => []UniqueActiveUrl
<1>1. IInv => UniqueActiveUrl
  BY DEF IInv, RowInv, IndexUnique, UniqueActiveUrl
<1>2. QED
  BY <1>1, Invariance, PTL

\* No article is ever judged twice, whichever worker stored it and whatever
\* failed in between.
THEOREM JudgementIsUnique == Spec => []JudgedAtMostOnce
<1>1. IInv => JudgedAtMostOnce
  BY DEF IInv, RowInv
<1>2. QED
  BY <1>1, Invariance, PTL

----------------------------------------------------------------------------
(***************************************************************************)
(* Pipeline implements Catalogue, for every value of the constants: an     *)
(* INSERT that is committed publishes an article, an update of its URL     *)
(* moves it, the two deletions withdraw, and every other step, rollbacks   *)
(* and crashes included, leaves the catalogue alone.                       *)
(*                                                                         *)
(* live[u] is a CHOOSE among the active articles of u.  IInv makes it a    *)
(* function of the rows: there is one at most.                             *)
(***************************************************************************)

\* The article found under a URL is its one active holder, or there is none.
Found ==
    \A u \in Urls :
        /\ Lookup(u) \in Articles \cup {None}
        /\ \A a \in Articles : Lookup(u) = a <=> state[a] = "active" /\ url[a] = u

\* Where the index holds, the look-up by URL has one answer.
LEMMA FoundOne == IInv => Found
<1> SUFFICES ASSUME IInv, NEW u \in Urls
             PROVE  /\ Lookup(u) \in Articles \cup {None}
                    /\ \A a \in Articles : Lookup(u) = a <=> state[a] = "active" /\ url[a] = u
  BY DEF Found
<1>1. CASE FindByURLOriginal(u) = {}
  BY <1>1, PipelineAssumption DEF Lookup, FindByURLOriginal
<1>2. CASE FindByURLOriginal(u) # {}
  <2>1. Lookup(u) \in FindByURLOriginal(u)
    BY <1>2 DEF Lookup
  <2>2. \A a \in FindByURLOriginal(u) : a = Lookup(u)
    BY <2>1 DEF FindByURLOriginal, IInv, RowInv, IndexUnique
  <2>3. QED
    BY <2>1, <2>2 DEF FindByURLOriginal
<1>3. QED
  BY <1>1, <1>2

\* The same after a step.
LEMMA FoundNext == IInv' => Found'
  BY FoundOne, PTL

\* A row of the index has a URL.
HasUrl == \A a \in Articles : state[a] \in {"pending", "active"} => url[a] \in Urls

----------------------------------------------------------------------------
(* Rows have URLs.                                                         *)

\* The index is empty at first.
LEMMA InitUrl == Init => HasUrl
  BY DEF Init, HasUrl

\* A rollback takes rows out of the index and renames none.
LEMMA AbortUrl ==
  ASSUME HasUrl, NEW P \in SUBSET Procs, Abort(P)
  PROVE  HasUrl'
  BY DEF HasUrl, Abort

\* Every row that enters the index, or moves in it, takes the URL of an item.
LEMMA NextUrl == IInv /\ HasUrl /\ [Step]_system => HasUrl'
<1> SUFFICES ASSUME IInv, HasUrl, [Step]_system
             PROVE  HasUrl'
  OBVIOUS
<1> USE PipelineAssumption
<1>a. /\ state \in [Articles -> {"free", "pending", "active", "removed"}]
      /\ url \in [Articles -> Urls \cup {None}]
      /\ TypeInv /\ RowInv
  BY DEF IInv, TypeInv, SystemOK
<1>1. ASSUME UNCHANGED <<state, url>>
      PROVE  HasUrl'
  BY <1>1 DEF HasUrl
<1>2. ASSUME NEW w \in Workers, WorkerStep(w)
      PROVE  HasUrl'
  <2>0. w \in Procs
    BY DEF Procs
  <2>1. CASE Insert(w)
    <3>1. item[w] \in Items
      BY <1>a, <2>0, <2>1 DEF Insert, TypeInv, LocalsOK
    <3>2. QED
      BY <1>a, <2>1, <3>1 DEF Insert, HasUrl
  <2>2. CASE Commit(w)
    <3>1. own[w] \in Articles /\ state[own[w]] = "pending"
      BY <1>a, <2>0, <2>2 DEF Commit, RowInv, OwnState, TypeInv, LocalsOK
    <3>2. QED
      BY <1>a, <2>2, <3>1 DEF Commit, HasUrl
  <2>3. CASE ~Insert(w) /\ ~Commit(w)
    BY <1>1, <1>2, <2>3
       DEF WorkerStep, Skip, Take, ResolveInternalURLs, KeywordsFail, FindSource, LoseInsert, Retarget, Judge, tables
  <2>4. QED
    BY <2>1, <2>2, <2>3
<1>3. ASSUME NEW p \in Admins, AdminStep(p)
      PROVE  HasUrl'
  <2>0. p \in Procs
    BY DEF Procs
  <2>1. CASE CreateInsert(p)
    <3>1. item[p] \in Items
      BY <1>a, <2>0, <2>1 DEF CreateInsert, TypeInv, LocalsOK
    <3>2. QED
      BY <1>a, <2>1, <3>1 DEF CreateInsert, HasUrl
  <2>2. ASSUME NEW a \in Articles, NEW i \in Items, UpdateArticle(a, i)
        PROVE  HasUrl'
    BY <1>a, <2>2 DEF UpdateArticle, HasUrl
  <2>3. CASE DeleteRemove(p)
    BY <1>a, <2>3 DEF DeleteRemove, HasUrl
  <2>4. CASE SourceRemove(p)
    BY <1>a, <2>4 DEF SourceRemove, HasUrl
  <2>5. CASE UNCHANGED <<state, url>>
    BY <1>1, <2>5
  <2>6. QED
    BY <1>3, <2>1, <2>2, <2>3, <2>4, <2>5
       DEF AdminStep, CreateFindSource, DeleteFind, DeleteRetarget, SourceFind, SourceRetarget, tables
<1>4. ASSUME NEW p \in Procs, Rollback(p)
      PROVE  HasUrl'
  BY <1>4, AbortUrl DEF Rollback
<1>5. CASE Crash
  BY <1>5, AbortUrl DEF Crash
<1>6. CASE StartSweep \/ UNCHANGED system
  BY <1>1, <1>6 DEF StartSweep, system, tables
<1>7. QED
  BY <1>2, <1>3, <1>4, <1>5, <1>6 DEF Step

----------------------------------------------------------------------------
(* The three kinds of catalogue step.                                      *)

\* A step that makes no row active and moves none withdraws the rows that
\* stop being active, if there are any.
LEMMA WithdrawStep ==
  ASSUME Found, Found', Published' = Published,
         \A a \in Articles : state'[a] = "active" => state[a] = "active" /\ url'[a] = url[a]
  PROVE  C!Next
<1> DEFINE gone == {u \in Urls : Lookup(u)' = None}
<1>1. \A u \in Urls : Lookup(u)' = IF u \in gone THEN None ELSE Lookup(u)
  BY DEF Found
<1>2. C!Withdraw(gone)
  BY <1>1 DEF C!Withdraw
<1>3. QED
  BY <1>2 DEF C!Next

\* A row that becomes active under a URL nobody held is a publication.
LEMMA PublishStep ==
  ASSUME Found, Found', NEW a \in Articles, NEW u \in Urls,
         state[a] \in {"free", "pending"}, Lookup(u) = None,
         state'[a] = "active", url'[a] = u,
         \A b \in Articles \ {a} : state'[b] = state[b] /\ url'[b] = url[b]
  PROVE  C!Next
<1>1. \A v \in Urls : Lookup(v)' = IF v = u THEN a ELSE Lookup(v)
  <2> SUFFICES ASSUME NEW v \in Urls
               PROVE  Lookup(v)' = IF v = u THEN a ELSE Lookup(v)
    OBVIOUS
  <2>1. CASE v = u
    BY <2>1 DEF Found
  <2>2. CASE v # u
    <3>1. \A b \in Articles : Lookup(v)' = b <=> Lookup(v) = b
      BY <2>2 DEF Found
    <3>2. QED
      BY <2>2, <3>1 DEF Found
  <2>3. QED
    BY <2>1, <2>2
<1>2. a \notin Published /\ Published' = Published \cup {a}
  BY DEF Published
<1>3. C!Publish(u, a)
  BY <1>1, <1>2 DEF C!Publish
<1>4. QED
  BY <1>3 DEF C!Next

\* An active row that takes a URL nobody else held moves to it.
LEMMA MoveStep ==
  ASSUME Found, Found', NEW a \in Articles, NEW v \in Urls, HasUrl, SystemOK,
         state[a] = "active", Lookup(v) \in {a, None},
         state' = state, url' = [url EXCEPT ![a] = v]
  PROVE  C!Next
<1>0. /\ Published' = Published
      /\ url'[a] = v
      /\ \A b \in Articles \ {a} : url'[b] = url[b]
      /\ url[a] \in Urls
  BY DEF Published, HasUrl, SystemOK
<1>1. CASE url[a] = v
  BY <1>0, <1>1, WithdrawStep
<1>2. CASE url[a] # v
  <2>1. Lookup(url[a]) = a /\ a # None /\ Lookup(v) = None
    BY <1>0, <1>2, PipelineAssumption DEF Found
  <2>2. \A w \in Urls : Lookup(w)' = IF w = v THEN a ELSE IF w = url[a] THEN None ELSE Lookup(w)
    <3> SUFFICES ASSUME NEW w \in Urls
                 PROVE  Lookup(w)' = IF w = v THEN a ELSE IF w = url[a] THEN None ELSE Lookup(w)
      OBVIOUS
    <3>1. CASE w = v
      BY <1>0, <3>1 DEF Found
    <3>2. CASE w # v /\ w = url[a]
      BY <1>0, <3>2 DEF Found
    <3>3. CASE w # v /\ w # url[a]
      <4>1. \A b \in Articles : Lookup(w)' = b <=> Lookup(w) = b
        BY <1>0, <3>3 DEF Found
      <4>2. QED
        BY <3>3, <4>1 DEF Found
    <3>4. QED
      BY <3>1, <3>2, <3>3
  <2>3. C!Move(url[a], v)
    BY <1>0, <1>2, <2>1, <2>2 DEF C!Move
  <2>4. QED
    BY <1>0, <2>3 DEF C!Next
<1>3. QED
  BY <1>1, <1>2

----------------------------------------------------------------------------
(* The refinement.                                                         *)

\* The store starts as an empty catalogue.
LEMMA InitImplements == Init => C!Init
  BY DEF Init, C!Init, Lookup, FindByURLOriginal, Published

\* Every step of the pipeline is a step of the catalogue.
LEMMA NextImplements == IInv /\ IInv' /\ HasUrl /\ [Step]_system => [C!Next]_(C!vars)
<1> SUFFICES ASSUME IInv, IInv', HasUrl, [Step]_system
             PROVE  C!Next
  OBVIOUS
<1> USE PipelineAssumption
<1>a. /\ state \in [Articles -> {"free", "pending", "active", "removed"}]
      /\ url \in [Articles -> Urls \cup {None}]
      /\ SystemOK /\ TypeInv /\ RowInv
  BY DEF IInv, TypeInv, SystemOK
<1>b. Found /\ Found'
  BY FoundOne, FoundNext
<1>1. ASSUME UNCHANGED <<state, url>>
      PROVE  C!Next
  BY <1>1, <1>b, WithdrawStep DEF Published
<1>2. ASSUME NEW w \in Workers, WorkerStep(w)
      PROVE  C!Next
  <2>0. w \in Procs
    BY DEF Procs
  <2>1. CASE Insert(w)
    <3>1. PICK a \in Articles : /\ state[a] = "free"
                                /\ state' = [state EXCEPT ![a] = "pending"]
                                /\ url' = [url EXCEPT ![a] = ItemUrl[item[w]]]
      BY <2>1 DEF Insert
    <3>2. Published' = Published
      BY <1>a, <3>1 DEF Published
    <3>3. \A b \in Articles : state'[b] = "active" => state[b] = "active" /\ url'[b] = url[b]
      BY <1>a, <3>1
    <3>4. QED
      BY <1>b, <3>2, <3>3, WithdrawStep
  <2>2. CASE Commit(w)
    <3>1. own[w] \in Articles /\ state[own[w]] = "pending"
      BY <1>a, <2>0, <2>2 DEF Commit, RowInv, OwnState, TypeInv, LocalsOK
    <3>2. url[own[w]] \in Urls
      BY <3>1 DEF HasUrl
    <3>3. Lookup(url[own[w]]) = None
      BY <1>a, <1>b, <3>1, <3>2 DEF Found, RowInv, IndexUnique
    <3>4. /\ state'[own[w]] = "active" /\ url' = url
          /\ \A b \in Articles \ {own[w]} : state'[b] = state[b]
      BY <1>a, <2>2, <3>1 DEF Commit
    <3>5. QED
      BY <1>b, <3>1, <3>2, <3>3, <3>4, PublishStep
  <2>3. CASE ~Insert(w) /\ ~Commit(w)
    BY <1>1, <1>2, <2>3
       DEF WorkerStep, Skip, Take, ResolveInternalURLs, KeywordsFail, FindSource, LoseInsert, Retarget, Judge, tables
  <2>4. QED
    BY <2>1, <2>2, <2>3
<1>3. ASSUME NEW p \in Admins, AdminStep(p)
      PROVE  C!Next
  <2>0. p \in Procs
    BY DEF Procs
  <2>1. CASE CreateInsert(p)
    <3>1. ItemUrl[item[p]] \in Urls
      BY <1>a, <2>0, <2>1 DEF CreateInsert, TypeInv, LocalsOK
    <3>2. ASSUME NEW a \in Articles, state[a] = "free", IndexHolders(ItemUrl[item[p]]) = {},
                 state' = [state EXCEPT ![a] = "active"],
                 url' = [url EXCEPT ![a] = ItemUrl[item[p]]]
          PROVE  C!Next
      <4>1. Lookup(ItemUrl[item[p]]) = None
        BY <1>b, <3>1, <3>2 DEF Found, IndexHolders
      <4>2. /\ state'[a] = "active" /\ url'[a] = ItemUrl[item[p]]
            /\ \A b \in Articles \ {a} : state'[b] = state[b] /\ url'[b] = url[b]
        BY <1>a, <3>2
      <4>3. QED
        BY <1>b, <3>1, <3>2, <4>1, <4>2, PublishStep
    <3>3. QED
      BY <1>1, <2>1, <3>2 DEF CreateInsert
  <2>2. ASSUME NEW a \in Articles, NEW i \in Items, UpdateArticle(a, i)
        PROVE  C!Next
    <3>1. /\ state[a] = "active" /\ ItemUrl[i] \in Urls
          /\ state' = state /\ url' = [url EXCEPT ![a] = ItemUrl[i]]
      BY <2>2 DEF UpdateArticle
    <3>2. Lookup(ItemUrl[i]) \in {a, None}
      BY <1>b, <2>2, <3>1 DEF UpdateArticle, IndexHolders, Found
    <3>3. QED
      BY <1>a, <1>b, <3>1, <3>2, MoveStep
  <2>3. CASE DeleteRemove(p)
    <3>1. own[p] \in Articles /\ state[own[p]] \in {"active", "removed"}
      BY <1>a, <2>0, <2>3 DEF DeleteRemove, RowInv, OwnState, TypeInv, LocalsOK
    <3>2. state' = [state EXCEPT ![own[p]] = "removed"] /\ url' = url
      BY <2>3 DEF DeleteRemove
    <3>3. Published' = Published
      BY <1>a, <3>1, <3>2 DEF Published
    <3>4. QED
      BY <1>a, <1>b, <3>1, <3>2, <3>3, WithdrawStep
  <2>4. CASE SourceRemove(p)
    <3>1. /\ url' = url
          /\ \A a \in Articles : \/ state[a] = "active" /\ state'[a] = "removed"
                               \/ state'[a] = state[a]
      BY <2>4 DEF SourceRemove, ActiveOf
    <3>2. Published' = Published
      BY <3>1 DEF Published
    <3>3. QED
      BY <1>b, <3>1, <3>2, WithdrawStep
  <2>5. QED
    BY <1>1, <1>3, <2>1, <2>2, <2>3, <2>4
       DEF AdminStep, CreateFindSource, DeleteFind, DeleteRetarget, SourceFind, SourceRetarget, tables
<1>4. ASSUME NEW P \in SUBSET Procs, Abort(P)
      PROVE  C!Next
  <2>1. \A a \in Articles : IF a \in Inserted(P) THEN state'[a] = "free"
                            ELSE state'[a] = state[a] /\ url'[a] = url[a]
    BY <1>4 DEF Abort
  <2>2. \A a \in Inserted(P) : state[a] = "pending"
    BY DEF Inserted
  <2>3. Published' = Published
    BY <2>1, <2>2 DEF Published
  <2>4. QED
    BY <1>b, <2>1, <2>3, WithdrawStep
<1>5. ASSUME NEW p \in Procs, Rollback(p)
      PROVE  C!Next
  BY <1>4, <1>5 DEF Rollback
<1>6. CASE Crash
  BY <1>4, <1>6 DEF Crash
<1>7. CASE StartSweep \/ UNCHANGED system
  BY <1>1, <1>7 DEF StartSweep, system, tables
<1>8. QED
  BY <1>2, <1>3, <1>5, <1>6, <1>7 DEF Step

\* Whatever runs against it and whatever fails, the article store is a
\* catalogue: one live article per URL, and an id is published once.
THEOREM StoreIsCatalogue == Spec => ImplementsCatalogue
<1>1. Init => IInv /\ HasUrl
  BY InitType, InitRow, InitUrl DEF IInv
<1>2. IInv /\ HasUrl /\ [Step]_system => IInv' /\ HasUrl'
  BY NextInv, NextUrl
<1>3. QED
  BY <1>1, <1>2, InitImplements, NextImplements, SystemSteps, PTL DEF Spec, ImplementsCatalogue, C!Spec

----------------------------------------------------------------------------
(***************************************************************************)
(* Where the outbound links of Pipeline lead, for any number of workers,   *)
(* admins, articles, URLs, sources and items.                              *)
(*                                                                         *)
(* LinkFidelity holds whenever no article is moved to another URL; the     *)
(* invariant adds what the transactions carry: the hrefs a worker has      *)
(* treated, the rows a transaction has updated and the URL DeleteArticle   *)
(* has read lead where the rows will (FidelityInv).                        *)
(***************************************************************************)

\* x leads where the anchor of h did: to h, or to an article published under it.
Leads(x, h) == x \in {None, h} \/ (x \in Published /\ url[x] = h)

LinksLead == \A b \in Articles, h \in Urls : Leads(link[b][h], h)

\* What a process is about to write leads there too; a worker's own article is
\* published by the commit that writes it.
CarriesLead(q) ==
    /\ \A h \in Urls :
        /\ Leads(treated[q][h], h)
        /\ \A b \in Articles :
              Leads(pend[q][b][h], h) \/ (pc[q] = "commit" /\ pend[q][b][h] = own[q] /\ url[own[q]] = h)
    /\ pc[q] = "deleteRetarget" => seenUrl[q] = url[own[q]]

FidelityInv == LinksLead /\ \A q \in Procs : CarriesLead(q)

----------------------------------------------------------------------------
(* Links lead where their author pointed.                                  *)

\* What a step does to the other processes: nothing, or it ends what they do.
Untouched(q) ==
    /\ pc'[q] = pc[q] /\ treated'[q] = treated[q] /\ own'[q] = own[q]
    /\ seenUrl'[q] = seenUrl[q] /\ src'[q] = src[q] /\ pend'[q] = pend[q]

Cleared(q) ==
    pc'[q] = "idle" /\ treated'[q] = NoHrefs /\ seenUrl'[q] = None /\ pend'[q] = NoRows

\* A reset clears its processes and leaves the others.
LEMMA ResetClears ==
  ASSUME NEW P \in SUBSET Procs, Reset(P)
  PROVE  \A q \in Procs : IF q \in P THEN Cleared(q) ELSE Untouched(q)
  BY DEF Reset, Cleared, Untouched

\* A published article stays one, and where it is; a commit that goes on has its
\* article still.
Settled ==
    /\ \A a \in Published : a \in Published' /\ url'[a] = url[a]
    /\ \A q \in Procs : pc[q] = "commit" /\ pc'[q] = "commit" => url'[own[q]] = url[own[q]]

LEMMA AbortSettles ==
  ASSUME IInv, NEW P \in SUBSET Procs, Abort(P)
  PROVE  Settled
<1>1. \A a \in Articles : a \in Inserted(P) \/ (state'[a] = state[a] /\ url'[a] = url[a])
  BY DEF Abort
<1>2. \A a \in Inserted(P) : state[a] = "pending" /\ \E p \in P : own[p] = a
  BY DEF Inserted
<1>3. ASSUME NEW q \in Procs, pc[q] = "commit", pc'[q] = "commit"
      PROVE  own[q] \in Articles \ Inserted(P)
  <2>1. q \notin P
    BY <1>3, ResetClears DEF Abort, Cleared
  <2>2. own[q] \in Articles /\ Stores(q)
    BY <1>3 DEF IInv, TypeInv, LocalsOK, Stores
  <2>3. ASSUME NEW p \in P, own[p] = own[q], state[own[q]] = "pending"
        PROVE  FALSE
    <3>1. Stores(p)
      BY <2>2, <2>3 DEF IInv, TypeInv, LocalsOK, RowInv, OwnState, Stores
    <3>2. QED
      BY <2>1, <2>2, <2>3, <3>1 DEF IInv, RowInv, OwnDistinct
  <2>4. QED
    BY <1>2, <2>2, <2>3
<1>4. QED
  BY <1>1, <1>2, <1>3 DEF Settled, Published

LEMMA NextSettles ==
  ASSUME IInv, "update" \notin AdminOps, [Step]_system
  PROVE  Settled
<1> USE PipelineAssumption
<1>a. /\ state \in [Articles -> {"free", "pending", "active", "removed"}]
      /\ url \in [Articles -> Urls \cup {None}]
  BY DEF IInv, TypeInv, SystemOK
<1>b. \A q \in Procs : pc[q] = "commit" => own[q] \in Articles /\ state[own[q]] = "pending"
  BY DEF IInv, TypeInv, LocalsOK, RowInv, OwnState
\* No URL changes but that of a free row, and none is freed or hidden.
<1>1. ASSUME \A a \in Articles :
               /\ state[a] # "free" => url'[a] = url[a]
               /\ state[a] \in {"active", "removed"} => state'[a] \in {"active", "removed"}
      PROVE  Settled
  BY <1>b, <1>1 DEF Settled, Published
<1>2. CASE UNCHANGED <<state, url>>
  BY <1>1, <1>2
<1>3. ASSUME NEW w \in Workers, WorkerStep(w)
      PROVE  Settled
  <2>1. CASE Insert(w)
    BY <1>1, <1>a, <2>1 DEF Insert
  <2>2. CASE Commit(w)
    <3>1. own[w] \in Articles
      BY <1>b, <2>2 DEF Commit, Procs
    <3>2. QED
      BY <1>1, <1>a, <2>2, <3>1 DEF Commit
  <2>3. CASE ~Insert(w) /\ ~Commit(w)
    BY <1>2, <1>3, <2>3
       DEF WorkerStep, Skip, Take, ResolveInternalURLs, KeywordsFail, FindSource, LoseInsert, Retarget, Judge, tables
  <2>4. QED
    BY <2>1, <2>2, <2>3
<1>4. ASSUME NEW p \in Admins, AdminStep(p)
      PROVE  Settled
  <2>1. CASE CreateInsert(p)
    BY <1>1, <1>a, <2>1 DEF CreateInsert
  <2>2. CASE DeleteRemove(p)
    BY <1>1, <1>a, <2>2 DEF DeleteRemove
  <2>3. CASE SourceRemove(p)
    BY <1>1, <1>a, <2>3 DEF SourceRemove
  <2>4. ASSUME NEW a \in Articles, NEW i \in Items, UpdateArticle(a, i)
        PROVE  Settled
    BY <2>4 DEF UpdateArticle
  <2>5. QED
    BY <1>2, <1>4, <2>1, <2>2, <2>3, <2>4
       DEF AdminStep, CreateFindSource, DeleteFind, DeleteRetarget, SourceFind, SourceRetarget, tables
<1>5. ASSUME NEW p \in Procs, Rollback(p)
      PROVE  Settled
  BY <1>5, AbortSettles DEF Rollback
<1>6. CASE Crash
  BY <1>6, AbortSettles DEF Crash
<1>7. CASE StartSweep \/ UNCHANGED system
  BY <1>2, <1>7 DEF StartSweep, system, tables
<1>8. QED
  BY <1>3, <1>4, <1>5, <1>6, <1>7 DEF Step

\* What led somewhere leads there after the step.
LEMMA LeadsOn ==
  ASSUME Settled, NEW x, NEW h, Leads(x, h)
  PROVE  x \in {None, h} \/ (x \in Published' /\ url'[x] = h)
  BY DEF Leads, Settled

\* A process that is left alone, or is done, carries nothing astray.
LEMMA UntouchedLeads ==
  ASSUME IInv, Settled, NEW q \in Procs, CarriesLead(q), Untouched(q)
  PROVE  CarriesLead(q)'
<1>1. pc[q] = "deleteRetarget" => own[q] \in Published
  BY DEF IInv, TypeInv, LocalsOK, RowInv, OwnState, Published
<1>2. pc'[q] = "deleteRetarget" => seenUrl'[q] = url'[own'[q]]
  BY <1>1 DEF Untouched, CarriesLead, Settled
<1>3. ASSUME NEW h \in Urls
      PROVE  Leads(treated[q][h], h)'
  BY LeadsOn DEF CarriesLead, Untouched, Leads
<1>4. ASSUME NEW h \in Urls, NEW b \in Articles
      PROVE  (Leads(pend[q][b][h], h) \/ (pc[q] = "commit" /\ pend[q][b][h] = own[q] /\ url[own[q]] = h))'
  <2>1. CASE Leads(pend[q][b][h], h)
    BY <2>1, LeadsOn DEF Untouched, Leads
  <2>2. CASE pc[q] = "commit" /\ pend[q][b][h] = own[q] /\ url[own[q]] = h
    BY <2>2 DEF Untouched, Settled
  <2>3. QED
    BY <2>1, <2>2 DEF CarriesLead
<1>5. QED
  BY <1>2, <1>3, <1>4 DEF CarriesLead

LEMMA ClearedLeads ==
  ASSUME NEW q \in Procs, Cleared(q)
  PROVE  CarriesLead(q)'
<1>1. \A h \in Urls : treated'[q][h] = None /\ \A b \in Articles : pend'[q][b][h] = None
  BY DEF Cleared, NoHrefs, NoRows
<1>2. QED
  BY <1>1 DEF CarriesLead, Leads, Cleared

\* A process that goes on with what it has.
LEMMA StepsOn ==
  ASSUME Settled, NEW q \in Procs, CarriesLead(q), pc[q] # "commit",
         treated'[q] = treated[q], pend'[q] = pend[q],
         pc'[q] = "deleteRetarget" => seenUrl'[q] = url'[own'[q]]
  PROVE  CarriesLead(q)'
<1>1. ASSUME NEW h \in Urls
      PROVE  Leads(treated[q][h], h)'
  BY LeadsOn DEF CarriesLead, Leads
<1>2. ASSUME NEW h \in Urls, NEW b \in Articles
      PROVE  Leads(pend[q][b][h], h)'
  BY LeadsOn DEF CarriesLead, Leads
<1>3. QED
  BY <1>1, <1>2 DEF CarriesLead

\* The rows that stay lead where they did, and the updated ones where they were to.
LEMMA LinksStay ==
  ASSUME Settled, LinksLead, UNCHANGED link
  PROVE  LinksLead'
  BY LeadsOn DEF LinksLead, Leads

LEMMA LinksApplied ==
  ASSUME Settled, LinksLead, NEW p \in Procs, CarriesLead(p), ApplyPend(p),
         pc[p] = "commit" => own[p] \in Published' /\ url'[own[p]] = url[own[p]]
  PROVE  LinksLead'
<1> SUFFICES ASSUME NEW b \in Articles, NEW h \in Urls
             PROVE  Leads(link[b][h], h)'
  BY DEF LinksLead
<1>1. link'[b][h] = IF pend[p][b][h] = None THEN link[b][h] ELSE pend[p][b][h]
  BY DEF ApplyPend
<1>2. Leads(link[b][h], h)
  BY DEF LinksLead
<1>3. CASE link'[b][h] = link[b][h]
  BY <1>2, <1>3, LeadsOn DEF Leads
<1>4. CASE link'[b][h] = pend[p][b][h] /\ Leads(pend[p][b][h], h)
  BY <1>4, LeadsOn DEF Leads
<1>5. CASE link'[b][h] = own[p] /\ pc[p] = "commit" /\ url[own[p]] = h
  BY <1>5 DEF Leads
<1>6. QED
  BY <1>1, <1>3, <1>4, <1>5 DEF CarriesLead

\* One process acts, the others are left alone.
LEMMA OneActs ==
  ASSUME IInv, Settled, FidelityInv, NEW p \in Procs, \A q \in Procs \ {p} : Untouched(q),
         LinksLead', CarriesLead(p)'
  PROVE  FidelityInv'
<1>1. \A q \in Procs : CarriesLead(q)
  BY DEF FidelityInv
<1>2. \A q \in Procs \ {p} : CarriesLead(q)'
  BY <1>1, UntouchedLeads
<1>3. QED
  BY <1>2 DEF FidelityInv

\* Several are reset, the others left alone.
LEMMA SomeReset ==
  ASSUME IInv, Settled, FidelityInv, NEW P \in SUBSET Procs, Reset(P), LinksLead'
  PROVE  FidelityInv'
<1>1. \A q \in Procs : CarriesLead(q)
  BY DEF FidelityInv
<1>2. \A q \in Procs : CarriesLead(q)'
  BY <1>1, ResetClears, UntouchedLeads, ClearedLeads
<1>3. QED
  BY <1>2 DEF FidelityInv

LEMMA WorkerFidelity ==
  ASSUME IInv, HasUrl, Settled, FidelityInv, NEW w \in Workers, WorkerStep(w)
  PROVE  FidelityInv'
<1> USE PipelineAssumption
<1>0. w \in Procs /\ LinksLead /\ \A q \in Procs : CarriesLead(q)
  BY DEF Procs, FidelityInv
<1>a. /\ pc \in [Procs -> WorkerPcs \cup AdminPcs] /\ own \in [Procs -> Articles \cup {None}]
      /\ treated \in [Procs -> [Urls -> Hrefs \cup {None}]]
      /\ pend \in [Procs -> [Articles -> [Urls -> Hrefs \cup {None}]]]
      /\ link \in [Articles -> [Urls -> Hrefs \cup {None}]]
      /\ url \in [Articles -> Urls \cup {None}]
      /\ item \in [Procs -> Items \cup {None}]
  BY DEF IInv, TypeInv, SystemOK
<1>b. ASSUME Reset({w}), UNCHANGED link
      PROVE  FidelityInv'
  BY <1>0, <1>b, LinksStay, SomeReset
<1>1. ASSUME NEW i \in Items, Skip(w, i)
      PROVE  FidelityInv'
  <2>1. UNCHANGED <<link, locals>>
    BY <1>1 DEF Skip, tables
  <2>2. \A q \in Procs : Untouched(q)
    BY <2>1 DEF Untouched, locals
  <2>3. CarriesLead(w)'
    BY <1>0, <2>2, UntouchedLeads
  <2>4. QED
    BY <1>0, <2>1, <2>2, <2>3, LinksStay, OneActs
<1>2. ASSUME NEW i \in Items, Take(w, i)
      PROVE  FidelityInv'
  <2>1. /\ pc[w] = "idle" /\ pc' = [pc EXCEPT ![w] = "treat"]
        /\ UNCHANGED <<link, treated, own, seenUrl, src, pend>>
    BY <1>2 DEF Take, Goto, tables
  <2>2. \A q \in Procs \ {w} : Untouched(q)
    BY <1>a, <2>1 DEF Untouched
  <2>3. CarriesLead(w)'
    BY <1>0, <1>a, <2>1, StepsOn
  <2>4. QED
    BY <1>0, <2>1, <2>2, <2>3, LinksStay, OneActs
<1>3. CASE ResolveInternalURLs(w)
  <2>1. /\ pc[w] = "treat" /\ pc' = [pc EXCEPT ![w] = "keywords"]
        /\ UNCHANGED <<state, url, link, own, seenUrl, src, pend>>
    BY <1>3 DEF ResolveInternalURLs, Goto, tables
  <2> DEFINE anchors == ItemHrefs[item[w]]
             plain == [h \in Urls |-> IF h \in anchors THEN h ELSE None]
             found == [h \in Urls |-> IF h \in anchors /\ Lookup(h) # None THEN Lookup(h) ELSE plain[h]]
  <2>2. treated' = [treated EXCEPT ![w] = found] \/ treated' = [treated EXCEPT ![w] = plain]
    BY <1>3 DEF ResolveInternalURLs
  <2>3. \A h \in Urls : Leads(plain[h], h)
    BY DEF Leads
  <2>4. \A h \in Urls : Leads(found[h], h)
    BY <2>3, FoundOne DEF Found, Leads, Published
  <2> HIDE DEF plain, found
  <2>5. \A q \in Procs \ {w} : Untouched(q)
    BY <1>a, <2>1, <2>2 DEF Untouched
  <2>6. \A h \in Urls : Leads(treated'[w][h], h)
    BY <1>0, <1>a, <2>2, <2>3, <2>4
  <2>7. CarriesLead(w)'
    <3>1. ASSUME NEW h \in Urls
          PROVE  Leads(treated[w][h], h)'
      BY <2>6, LeadsOn DEF Leads
    <3>2. ASSUME NEW h \in Urls, NEW b \in Articles
          PROVE  Leads(pend[w][b][h], h)'
      BY <1>0, <2>1, LeadsOn DEF CarriesLead, Leads
    <3>3. pc'[w] = "keywords"
      BY <1>0, <1>a, <2>1
    <3>4. QED
      BY <3>1, <3>2, <3>3 DEF CarriesLead
  <2>8. QED
    BY <1>0, <2>1, <2>5, <2>7, LinksStay, OneActs
<1>4. CASE KeywordsFail(w)
  BY <1>4, <1>b DEF KeywordsFail, tables
<1>5. CASE FindSource(w)
  <2>1. CASE Goto(w, "insert") /\ UNCHANGED <<item, treated, own, seenUrl, src, pend>>
    <3>1. pc[w] = "keywords" /\ pc' = [pc EXCEPT ![w] = "insert"] /\ UNCHANGED link
      BY <1>5, <2>1 DEF FindSource, Goto, tables
    <3>2. \A q \in Procs \ {w} : Untouched(q)
      BY <1>a, <2>1, <3>1 DEF Untouched
    <3>3. CarriesLead(w)'
      BY <1>0, <1>a, <2>1, <3>1, StepsOn
    <3>4. QED
      BY <1>0, <3>1, <3>2, <3>3, LinksStay, OneActs
  <2>2. CASE Reset({w})
    BY <1>5, <1>b, <2>2 DEF FindSource, tables
  <2>3. QED
    BY <1>5, <2>1, <2>2 DEF FindSource
<1>6. CASE LoseInsert(w)
  BY <1>6, <1>b DEF LoseInsert, tables
<1>7. CASE Insert(w)
  <2>1. PICK a \in Articles :
          /\ own' = [own EXCEPT ![w] = a]
          /\ link' = [link EXCEPT ![a] = treated[w]] \/ link' = link
    BY <1>7 DEF Insert, Assign
  <2>2. /\ pc[w] = "insert" /\ pc' = [pc EXCEPT ![w] = "retarget"]
        /\ treated' = [treated EXCEPT ![w] = NoHrefs] /\ UNCHANGED <<seenUrl, src, pend>>
    BY <1>7 DEF Insert, Goto
  <2>3. \A q \in Procs \ {w} : Untouched(q)
    BY <1>a, <2>1, <2>2 DEF Untouched
  <2>4. ASSUME NEW b \in Articles, NEW h \in Urls
        PROVE  Leads(link[b][h], h)'
    <3>1. link'[b][h] = link[b][h] \/ link'[b][h] = treated[w][h]
      BY <1>a, <2>1
    <3>2. Leads(link[b][h], h) /\ Leads(treated[w][h], h)
      BY <1>0 DEF LinksLead, CarriesLead
    <3>3. QED
      BY <3>1, <3>2, LeadsOn DEF Leads
  <2>5. CarriesLead(w)'
    <3>1. pc'[w] = "retarget" /\ \A h \in Urls : treated'[w][h] = None
      BY <1>0, <1>a, <2>2 DEF NoHrefs
    <3>2. ASSUME NEW h \in Urls, NEW b \in Articles
          PROVE  Leads(pend[w][b][h], h)'
      BY <1>0, <2>2, LeadsOn DEF CarriesLead, Leads
    <3>3. QED
      BY <3>1, <3>2 DEF CarriesLead, Leads
  <2>6. QED
    BY <1>0, <2>3, <2>4, <2>5, OneActs DEF LinksLead
<1>8. CASE Retarget(w)
  <2> DEFINE u == url[own[w]]
  <2>1. /\ pc[w] = "retarget" /\ pc' = [pc EXCEPT ![w] = "commit"]
        /\ UNCHANGED <<state, url, link, treated, own, seenUrl, src>>
        /\ Repoint(w, [x \in {u} |-> own[w]])
    BY <1>8 DEF Retarget, Goto, tables
  <2>2. /\ \A b \in Articles, h \in Urls :
              pend'[w][b][h] = IF Sees(w, b) /\ link[b][h] = u THEN own[w] ELSE None
        /\ \A q \in Procs \ {w} : pend'[q] = pend[q]
    BY <1>0, <1>a, <2>1 DEF Repoint, RowsTo
  <2>3. u \in Urls
    BY <1>0, <2>1 DEF HasUrl, IInv, TypeInv, LocalsOK, RowInv, OwnState
  <2>4. \A q \in Procs \ {w} : Untouched(q)
    BY <1>a, <2>1, <2>2 DEF Untouched
  <2>5. ASSUME NEW b \in Articles, NEW h \in Urls, pend'[w][b][h] # None
        PROVE  pend'[w][b][h] = own[w] /\ u = h
    <3>1. pend'[w][b][h] = own[w] /\ link[b][h] = u
      BY <2>2, <2>5
    <3>2. QED
      BY <1>0, <2>3, <3>1 DEF LinksLead, Leads, Published
  <2>6. CarriesLead(w)'
    <3>1. ASSUME NEW h \in Urls
          PROVE  Leads(treated[w][h], h)'
      BY <1>0, <2>1, LeadsOn DEF CarriesLead, Leads
    <3>2. pc'[w] = "commit"
      BY <1>0, <1>a, <2>1
    <3>3. QED
      BY <2>1, <2>5, <3>1, <3>2 DEF CarriesLead, Leads
  <2>7. QED
    BY <1>0, <2>1, <2>4, <2>6, LinksStay, OneActs
<1>9. CASE Commit(w)
  <2>1. /\ pc[w] = "commit" /\ pc' = [pc EXCEPT ![w] = "judge"]
        /\ state' = [state EXCEPT ![own[w]] = "active"] /\ ApplyPend(w)
        /\ pend' = [pend EXCEPT ![w] = NoRows] /\ UNCHANGED <<url, treated, own, seenUrl, src>>
    BY <1>9 DEF Commit, Goto
  <2>2. own[w] \in Articles /\ own[w] \in Published'
    BY <1>0, <2>1 DEF IInv, TypeInv, SystemOK, LocalsOK, Published
  <2>3. LinksLead'
    BY <1>0, <2>1, <2>2, LinksApplied
  <2>4. \A q \in Procs \ {w} : Untouched(q)
    BY <1>a, <2>1 DEF Untouched
  <2>5. CarriesLead(w)'
    <3>1. ASSUME NEW h \in Urls
          PROVE  Leads(treated[w][h], h)'
      BY <1>0, <2>1, LeadsOn DEF CarriesLead, Leads
    <3>2. pc'[w] = "judge" /\ \A b \in Articles, h \in Urls : pend'[w][b][h] = None
      BY <1>0, <1>a, <2>1 DEF NoRows, NoHrefs
    <3>3. QED
      BY <3>1, <3>2 DEF CarriesLead, Leads
  <2>6. QED
    BY <1>0, <2>3, <2>4, <2>5, OneActs
<1>10. CASE Judge(w)
  BY <1>10, <1>b DEF Judge
<1>11. QED
  BY <1>1, <1>2, <1>3, <1>4, <1>5, <1>6, <1>7, <1>8, <1>9, <1>10 DEF WorkerStep

\* What a transaction updates: the rows it sees that lead to one of the hrefs of to.
LEMMA RepointedRows ==
  ASSUME NEW p \in Procs, NEW to, Repoint(p, to), pend \in [Procs -> [Articles -> [Urls -> Hrefs \cup {None}]]]
  PROVE  /\ \A q \in Procs \ {p} : pend'[q] = pend[q]
         /\ \A b \in Articles, h \in Urls :
               pend'[p][b][h] = IF Sees(p, b) /\ link[b][h] \in DOMAIN to THEN to[link[b][h]] ELSE None
<1>1. pend' = [pend EXCEPT ![p] = [b \in Articles |-> [h \in Urls |->
                 IF <<b, h>> \in RowsTo(p, DOMAIN to) THEN to[link[b][h]] ELSE None]]]
  BY DEF Repoint
<1>2. \A b \in Articles, h \in Urls : <<b, h>> \in RowsTo(p, DOMAIN to) <=> Sees(p, b) /\ link[b][h] \in DOMAIN to
  BY DEF RowsTo
<1>3. QED
  BY <1>1, <1>2

LEMMA AdminFidelity ==
  ASSUME IInv, Settled, FidelityInv, "update" \notin AdminOps, NEW p \in Admins, AdminStep(p)
  PROVE  FidelityInv'
<1> USE PipelineAssumption
<1>0. p \in Procs /\ LinksLead /\ \A q \in Procs : CarriesLead(q)
  BY DEF Procs, FidelityInv
<1>a. /\ pc \in [Procs -> WorkerPcs \cup AdminPcs] /\ own \in [Procs -> Articles \cup {None}]
      /\ pend \in [Procs -> [Articles -> [Urls -> Hrefs \cup {None}]]]
      /\ link \in [Articles -> [Urls -> Hrefs \cup {None}]]
      /\ seenUrl \in [Procs -> Urls \cup {None}] /\ src \in [Procs -> Sources \cup {None}]
  BY DEF IInv, TypeInv, SystemOK
\* The process goes on, with the same body and updated rows.
<1>b. ASSUME NEW label, pc' = [pc EXCEPT ![p] = label], pc[p] = "idle", label # "deleteRetarget",
             UNCHANGED <<link, treated, own, seenUrl, pend>>, \A q \in Procs \ {p} : src'[q] = src[q]
      PROVE  FidelityInv'
  <2>1. \A q \in Procs \ {p} : Untouched(q)
    BY <1>a, <1>b DEF Untouched
  <2>2. CarriesLead(p)'
    BY <1>0, <1>a, <1>b, StepsOn
  <2>3. QED
    BY <1>0, <1>b, <2>1, <2>2, LinksStay, OneActs
\* The process updates rows, each to the URL its anchor had.
<1>c. ASSUME pc'[p] \in {"deleteRemove", "sourceRemove"}, \A q \in Procs \ {p} : pc'[q] = pc[q],
             UNCHANGED <<link, treated, own, seenUrl, src>>,
             \A q \in Procs \ {p} : pend'[q] = pend[q],
             \A b \in Articles, h \in Urls : pend'[p][b][h] \in {None, h}
      PROVE  FidelityInv'
  <2>1. \A q \in Procs \ {p} : Untouched(q)
    BY <1>a, <1>c DEF Untouched
  <2>2. pc'[p] \notin {"commit", "deleteRetarget"}
    BY <1>c
  <2>3. ASSUME NEW h \in Urls
        PROVE  Leads(treated[p][h], h)'
    BY <1>0, <1>c, LeadsOn DEF CarriesLead, Leads
  <2>4. ASSUME NEW h \in Urls, NEW b \in Articles
        PROVE  Leads(pend[p][b][h], h)'
    BY <1>c, <2>2 DEF Leads
  <2>5. CarriesLead(p)'
    BY <1>c, <2>2, <2>3, <2>4 DEF CarriesLead
  <2>6. QED
    BY <1>0, <1>c, <2>1, <2>5, LinksStay, OneActs
<1>1. ASSUME NEW i \in Items, CreateFindSource(p, i)
      PROVE  FidelityInv'
  BY <1>1, <1>b DEF CreateFindSource, Goto, tables
<1>2. CASE CreateInsert(p)
  BY <1>0, <1>2, LinksStay, SomeReset DEF CreateInsert
<1>3. ASSUME NEW a \in Articles, NEW i \in Items, UpdateArticle(a, i)
      PROVE  FidelityInv'
  BY <1>3 DEF UpdateArticle
<1>4. ASSUME NEW a \in Articles, DeleteFind(p, a)
      PROVE  FidelityInv'
  <2>1. /\ pc[p] = "idle" /\ pc' = [pc EXCEPT ![p] = "deleteRetarget"]
        /\ own' = [own EXCEPT ![p] = a] /\ seenUrl' = [seenUrl EXCEPT ![p] = url[a]]
        /\ UNCHANGED <<url, link, treated, src, pend>>
    BY <1>4 DEF DeleteFind, Goto, tables
  <2>2. \A q \in Procs \ {p} : Untouched(q)
    BY <1>a, <2>1 DEF Untouched
  <2>3. seenUrl'[p] = url'[own'[p]]
    BY <1>0, <1>a, <2>1
  <2>4. CarriesLead(p)'
    BY <1>0, <2>1, <2>3, StepsOn
  <2>5. QED
    BY <1>0, <2>1, <2>2, <2>4, LinksStay, OneActs
<1>5. CASE DeleteRetarget(p)
  <2>1. /\ pc[p] = "deleteRetarget" /\ pc' = [pc EXCEPT ![p] = "deleteRemove"]
        /\ UNCHANGED <<link, treated, own, seenUrl, src>>
        /\ Repoint(p, [x \in {own[p]} |-> seenUrl[p]])
    BY <1>5 DEF DeleteRetarget, Goto, tables
  <2>2. own[p] \in Articles /\ seenUrl[p] = url[own[p]]
    BY <1>0, <2>1 DEF IInv, TypeInv, LocalsOK, CarriesLead
  <2>3. /\ \A q \in Procs \ {p} : pend'[q] = pend[q]
        /\ \A b \in Articles, h \in Urls :
              pend'[p][b][h] = None \/ (link[b][h] = own[p] /\ pend'[p][b][h] = seenUrl[p])
    BY <1>0, <1>a, <2>1, RepointedRows
  <2>4. \A b \in Articles, h \in Urls : link[b][h] = own[p] => seenUrl[p] = h
    BY <1>0, <2>2 DEF LinksLead, Leads
  <2>5. pc'[p] = "deleteRemove" /\ \A q \in Procs \ {p} : pc'[q] = pc[q]
    BY <1>0, <1>a, <2>1
  <2>6. \A b \in Articles, h \in Urls : pend'[p][b][h] \in {None, h}
    BY <2>3, <2>4
  <2>7. QED
    BY <1>c, <2>1, <2>3, <2>5, <2>6
<1>6. CASE DeleteRemove(p)
  <2>1. pc[p] = "deleteRemove" /\ ApplyPend(p) /\ Reset({p})
    BY <1>6 DEF DeleteRemove
  <2>2. LinksLead'
    BY <1>0, <2>1, LinksApplied
  <2>3. QED
    BY <1>0, <2>1, <2>2, SomeReset
<1>7. ASSUME NEW s \in Sources, SourceFind(p, s)
      PROVE  FidelityInv'
  BY <1>a, <1>7, <1>b DEF SourceFind, Goto, tables
<1>8. CASE SourceRetarget(p)
  <2>1. /\ pc[p] = "sourceRetarget" /\ pc' = [pc EXCEPT ![p] = "sourceRemove"]
        /\ UNCHANGED <<link, treated, own, seenUrl, src>>
        /\ Repoint(p, [x \in ActiveOf(src[p]) |-> url[x]])
    BY <1>8 DEF SourceRetarget, Goto, tables
  <2>2. /\ \A q \in Procs \ {p} : pend'[q] = pend[q]
        /\ \A b \in Articles, h \in Urls :
              \/ pend'[p][b][h] = None
              \/ link[b][h] \in ActiveOf(src[p]) /\ pend'[p][b][h] = url[link[b][h]]
    BY <1>0, <1>a, <2>1, RepointedRows
  <2>3. \A b \in Articles, h \in Urls : link[b][h] \in ActiveOf(src[p]) => url[link[b][h]] = h
    BY <1>0 DEF LinksLead, Leads, ActiveOf
  <2>4. pc'[p] = "sourceRemove" /\ \A q \in Procs \ {p} : pc'[q] = pc[q]
    BY <1>0, <1>a, <2>1
  <2>5. \A b \in Articles, h \in Urls : pend'[p][b][h] \in {None, h}
    <3>1. ASSUME NEW b \in Articles, NEW h \in Urls
          PROVE  pend'[p][b][h] \in {None, h}
      BY <2>2, <2>3
    <3>2. QED
      BY <3>1
  <2>6. QED
    BY <1>c, <2>1, <2>2, <2>4, <2>5
<1>9. CASE SourceRemove(p)
  <2>1. pc[p] = "sourceRemove" /\ ApplyPend(p) /\ Reset({p})
    BY <1>9 DEF SourceRemove
  <2>2. LinksLead'
    BY <1>0, <2>1, LinksApplied
  <2>3. QED
    BY <1>0, <2>1, <2>2, SomeReset
<1>10. QED
  BY <1>1, <1>2, <1>3, <1>4, <1>5, <1>6, <1>7, <1>8, <1>9 DEF AdminStep

LEMMA AbortFidelity ==
  ASSUME IInv, Settled, FidelityInv, NEW P \in SUBSET Procs, Abort(P)
  PROVE  FidelityInv'
<1>1. ASSUME NEW b \in Articles, NEW h \in Urls
      PROVE  Leads(link[b][h], h)'
  <2>1. link'[b][h] = None \/ link'[b][h] = link[b][h]
    BY DEF Abort, NoHrefs
  <2>2. Leads(link[b][h], h)
    BY DEF FidelityInv, LinksLead
  <2>3. QED
    BY <2>1, <2>2, LeadsOn DEF Leads
<1>2. QED
  BY <1>1, SomeReset DEF Abort, LinksLead

LEMMA NextFidelity ==
  ASSUME IInv, HasUrl, FidelityInv, "update" \notin AdminOps, [Step]_system
  PROVE  FidelityInv'
<1>1. Settled
  BY NextSettles
<1>2. CASE StartSweep \/ UNCHANGED system
  <2>1. UNCHANGED <<link, locals>>
    BY <1>2 DEF StartSweep, system, tables
  <2>2. \A q \in Procs : Untouched(q)
    BY <2>1 DEF Untouched, locals
  <2>3. \A q \in Procs : CarriesLead(q)'
    BY <1>1, <2>2, UntouchedLeads DEF FidelityInv
  <2>4. QED
    BY <1>1, <2>1, <2>3, LinksStay DEF FidelityInv
<1>3. QED
  BY <1>1, <1>2, WorkerFidelity, AdminFidelity, AbortFidelity DEF Step, Rollback, Crash

LEMMA InitFidelity == Init => FidelityInv
  BY DEF Init, FidelityInv, LinksLead, CarriesLead, Leads, NoRows, NoHrefs

\* Where no article is moved to another URL, a link row leads to the URL its author
\* wrote or to the article published under it, through every race of retro-linking
\* with both removals (processor.go persist, articles.go and sources.go SoftDelete).
THEOREM LinksStayFaithful ==
  ASSUME "update" \notin AdminOps
  PROVE  Spec => []LinkFidelity
<1>1. Init => IInv /\ HasUrl /\ FidelityInv
  BY InitType, InitRow, InitUrl, InitFidelity DEF IInv
<1>2. IInv /\ HasUrl /\ FidelityInv /\ [Step]_system => (IInv /\ HasUrl /\ FidelityInv)'
  BY NextInv, NextUrl, NextFidelity
<1>3. FidelityInv => LinkFidelity
  BY DEF FidelityInv, LinksLead, Leads, LinkFidelity, Published
<1>4. QED
  BY <1>1, <1>2, <1>3, SystemSteps, PTL DEF Spec

----------------------------------------------------------------------------
(***************************************************************************)
(* Which links go dead, and which stay external.                           *)
(*                                                                         *)
(* The theorems below let everything overlap: sweeps with any number of    *)
(* workers, requests, failures and crashes.  What a removal relies on is   *)
(* that a row that leads to the article about to go is among the rows its  *)
(* transaction has updated, or that the article is in crossed (DeadInv);   *)
(* what a commit relies on is that a row that holds the URL of the article *)
(* about to be published is, or that the article is in missed (MissedInv). *)
(* TidyInv says whose the uncommitted rows are, and when a process carries *)
(* something at all.                                                       *)
(***************************************************************************)

PcOK == (\A w \in Workers : pc[w] \in WorkerPcs) /\ (\A p \in Admins : pc[p] \in AdminPcs)

\* An uncommitted row is a worker's, a free one has no links.
PendingOwned ==
    \A a \in Articles : state[a] = "pending" => \E w \in Workers : pc[w] \in {"retarget", "commit"} /\ own[w] = a

FreeOK == \A a \in Articles : state[a] = "free" => link[a] = NoHrefs

\* A transaction updates rows it sees, just before it commits; a treated body is
\* on its way to the INSERT; a URL is read by DeleteArticle.
Frugal(q) ==
    /\ \A b \in Articles, h \in Urls : pend[q][b][h] # None => b \in Published \/ (pc[q] = "commit" /\ b = own[q])
    /\ pc[q] = "deleteRetarget" => seenUrl[q] \in Urls
    /\ q \in Workers => seenUrl[q] = None
    /\ pc[q] \notin {"keywords", "insert"} => treated[q] = NoHrefs
    /\ pc[q] \notin {"commit", "deleteRemove", "sourceRemove"} => pend[q] = NoRows

TidyInv == PcOK /\ PendingOwned /\ FreeOK /\ \A q \in Procs : Frugal(q)

\* What a worker's step leaves alone.
LEMMA WorkerMoves ==
  ASSUME IInv, PcOK, NEW w \in Workers, WorkerStep(w)
  PROVE  /\ w \in Procs /\ w \notin Admins
         /\ \A q \in Procs \ {w} : Untouched(q)
         /\ pc'[w] \in WorkerPcs /\ pc'[w] # "deleteRetarget"
         /\ sourceUp' = sourceUp
<1> USE PipelineAssumption
<1>0. w \in Procs /\ w \notin Admins
  BY DEF Procs
<1>a. /\ pc \in [Procs -> WorkerPcs \cup AdminPcs] /\ own \in [Procs -> Articles \cup {None}]
      /\ treated \in [Procs -> [Urls -> Hrefs \cup {None}]]
      /\ pend \in [Procs -> [Articles -> [Urls -> Hrefs \cup {None}]]]
  BY DEF IInv, TypeInv, SystemOK
<1>b. ASSUME Reset({w}), UNCHANGED sourceUp
      PROVE  /\ \A q \in Procs \ {w} : Untouched(q)
             /\ pc'[w] \in WorkerPcs /\ pc'[w] # "deleteRetarget"
  BY <1>0, <1>b, ResetClears DEF Cleared, WorkerPcs
<1>1. ASSUME NEW i \in Items, Skip(w, i)
      PROVE  /\ \A q \in Procs \ {w} : Untouched(q)
             /\ pc'[w] \in WorkerPcs /\ pc'[w] # "deleteRetarget"
             /\ sourceUp' = sourceUp
  BY <1>1 DEF Skip, Untouched, tables, locals, WorkerPcs
<1>2. ASSUME NEW i \in Items, Take(w, i)
      PROVE  /\ \A q \in Procs \ {w} : Untouched(q)
             /\ pc'[w] \in WorkerPcs /\ pc'[w] # "deleteRetarget"
             /\ sourceUp' = sourceUp
  BY <1>0, <1>a, <1>2 DEF Take, Goto, Untouched, tables, WorkerPcs
<1>3. CASE ResolveInternalURLs(w)
  <2>1. \A q \in Procs \ {w} : treated'[q] = treated[q]
    BY <1>3, <1>a DEF ResolveInternalURLs
  <2>2. /\ pc[w] = "treat" /\ pc' = [pc EXCEPT ![w] = "keywords"]
        /\ UNCHANGED <<sourceUp, batch, own, seenUrl, src, pend>>
    BY <1>3 DEF ResolveInternalURLs, Goto, tables
  <2>3. QED
    BY <1>0, <1>a, <2>1, <2>2 DEF Untouched, WorkerPcs
<1>4. CASE KeywordsFail(w)
  BY <1>0, <1>4, <1>b DEF KeywordsFail, tables
<1>5. CASE FindSource(w)
  <2>1. CASE Goto(w, "insert") /\ UNCHANGED <<item, treated, own, seenUrl, src, pend>>
    BY <1>0, <1>a, <1>5, <2>1 DEF FindSource, Goto, tables, Untouched, WorkerPcs
  <2>2. CASE Reset({w})
    BY <1>0, <1>5, <1>b, <2>2 DEF FindSource, tables
  <2>3. QED
    BY <1>5, <2>1, <2>2 DEF FindSource
<1>6. CASE LoseInsert(w)
  BY <1>0, <1>6, <1>b DEF LoseInsert, tables
<1>7. CASE Insert(w)
  <2>1. \A q \in Procs \ {w} : own'[q] = own[q]
    BY <1>7, <1>a DEF Insert
  <2>2. /\ pc[w] = "insert" /\ pc' = [pc EXCEPT ![w] = "retarget"]
        /\ treated' = [treated EXCEPT ![w] = NoHrefs] /\ UNCHANGED <<sourceUp, batch, seenUrl, src, pend>>
    BY <1>7 DEF Insert, Goto
  <2>3. QED
    BY <1>0, <1>a, <2>1, <2>2 DEF Untouched, WorkerPcs
<1>8. CASE Retarget(w)
  <2>1. /\ pc[w] = "retarget" /\ pc' = [pc EXCEPT ![w] = "commit"]
        /\ UNCHANGED <<sourceUp, batch, treated, own, seenUrl, src>>
        /\ Repoint(w, [x \in {url[own[w]]} |-> own[w]])
    BY <1>8 DEF Retarget, Goto, tables
  <2>2. \A q \in Procs \ {w} : pend'[q] = pend[q]
    BY <1>0, <1>a, <2>1, RepointedRows
  <2>3. QED
    BY <1>0, <1>a, <2>1, <2>2 DEF Untouched, WorkerPcs
<1>9. CASE Commit(w)
  BY <1>0, <1>a, <1>9 DEF Commit, Goto, Untouched, WorkerPcs
<1>10. CASE Judge(w)
  BY <1>0, <1>10, <1>b DEF Judge
<1>11. QED
  BY <1>0, <1>1, <1>2, <1>3, <1>4, <1>5, <1>6, <1>7, <1>8, <1>9, <1>10 DEF WorkerStep

\* What an admin's step leaves alone.
LEMMA AdminMoves ==
  ASSUME IInv, PcOK, NEW p \in Admins, AdminStep(p)
  PROVE  /\ p \in Procs /\ p \notin Workers
         /\ \A q \in Procs \ {p} : Untouched(q)
         /\ pc'[p] \in AdminPcs
         /\ treated'[p] \in {treated[p], NoHrefs}
<1> USE PipelineAssumption
<1> DEFINE G == /\ \A q \in Procs \ {p} : Untouched(q)
                /\ pc'[p] \in AdminPcs
                /\ treated'[p] \in {treated[p], NoHrefs}
<1>0. p \in Procs /\ p \notin Workers /\ pc[p] \in AdminPcs
  BY DEF Procs, PcOK
<1>a. /\ pc \in [Procs -> WorkerPcs \cup AdminPcs] /\ own \in [Procs -> Articles \cup {None}]
      /\ pend \in [Procs -> [Articles -> [Urls -> Hrefs \cup {None}]]]
      /\ seenUrl \in [Procs -> Urls \cup {None}] /\ src \in [Procs -> Sources \cup {None}]
  BY DEF IInv, TypeInv, SystemOK
<1>b. ASSUME Reset({p})
      PROVE  G
  BY <1>0, <1>b, ResetClears DEF Cleared, AdminPcs
<1>1. ASSUME NEW i \in Items, CreateFindSource(p, i)
      PROVE  G
  BY <1>0, <1>a, <1>1 DEF CreateFindSource, Goto, tables, Untouched, AdminPcs
<1>2. CASE CreateInsert(p)
  BY <1>0, <1>2, <1>b DEF CreateInsert
<1>3. ASSUME NEW a \in Articles, NEW i \in Items, UpdateArticle(a, i)
      PROVE  G
  BY <1>0, <1>3 DEF UpdateArticle, locals, Untouched
<1>4. ASSUME NEW a \in Articles, DeleteFind(p, a)
      PROVE  G
  BY <1>0, <1>a, <1>4 DEF DeleteFind, Goto, tables, Untouched, AdminPcs
<1>5. CASE DeleteRetarget(p)
  <2>1. /\ pc[p] = "deleteRetarget" /\ pc' = [pc EXCEPT ![p] = "deleteRemove"]
        /\ UNCHANGED <<batch, treated, own, seenUrl, src>>
        /\ Repoint(p, [x \in {own[p]} |-> seenUrl[p]])
    BY <1>5 DEF DeleteRetarget, Goto, tables
  <2>2. \A q \in Procs \ {p} : pend'[q] = pend[q]
    BY <1>0, <1>a, <2>1, RepointedRows
  <2>3. QED
    BY <1>0, <1>a, <2>1, <2>2 DEF Untouched, AdminPcs
<1>6. CASE DeleteRemove(p)
  BY <1>0, <1>6, <1>b DEF DeleteRemove
<1>7. ASSUME NEW s \in Sources, SourceFind(p, s)
      PROVE  G
  BY <1>0, <1>a, <1>7 DEF SourceFind, Goto, tables, Untouched, AdminPcs
<1>8. CASE SourceRetarget(p)
  <2>1. /\ pc[p] = "sourceRetarget" /\ pc' = [pc EXCEPT ![p] = "sourceRemove"]
        /\ UNCHANGED <<batch, treated, own, seenUrl, src>>
        /\ Repoint(p, [x \in ActiveOf(src[p]) |-> url[x]])
    BY <1>8 DEF SourceRetarget, Goto, tables
  <2>2. \A q \in Procs \ {p} : pend'[q] = pend[q]
    BY <1>0, <1>a, <2>1, RepointedRows
  <2>3. QED
    BY <1>0, <1>a, <2>1, <2>2 DEF Untouched, AdminPcs
<1>9. CASE SourceRemove(p)
  BY <1>0, <1>9, <1>b DEF SourceRemove
<1>10. G
  BY <1>1, <1>2, <1>3, <1>4, <1>5, <1>6, <1>7, <1>8, <1>9 DEF AdminStep
<1>11. QED
  BY <1>0, <1>10

\* A rollback or a crash ends what its processes did and takes back their rows.
LEMMA AbortMoves ==
  ASSUME IInv, NEW P \in SUBSET Procs, Abort(P)
  PROVE  /\ \A q \in Procs : IF q \in P THEN Cleared(q) ELSE Untouched(q)
         /\ \A a \in Articles : \/ a \in Inserted(P) /\ state[a] = "pending" /\ state'[a] = "free" /\ link'[a] = NoHrefs
                                \/ /\ a \notin Inserted(P)
                                   /\ state'[a] = state[a] /\ url'[a] = url[a] /\ source'[a] = source[a]
                                   /\ via'[a] = via[a] /\ link'[a] = link[a]
         /\ sourceUp' = sourceUp
<1>1. \A q \in Procs : IF q \in P THEN Cleared(q) ELSE Untouched(q)
  BY ResetClears DEF Abort
<1>2. \A a \in Inserted(P) : state[a] = "pending"
  BY DEF Inserted
<1>3. QED
  BY <1>1, <1>2, Zenon DEF Abort

\* A process that is left alone, or is done.
LEMMA UntouchedFrugal ==
  ASSUME NEW q \in Procs, Frugal(q), Untouched(q), Published \subseteq Published'
  PROVE  Frugal(q)'
  BY DEF Frugal, Untouched

LEMMA ClearedFrugal ==
  ASSUME NEW q \in Procs, Cleared(q)
  PROVE  Frugal(q)'
  BY DEF Frugal, Cleared, NoRows, NoHrefs

LEMMA UpdatedAreSeen ==
  ASSUME NEW p \in Procs, NEW to, Repoint(p, to), pend \in [Procs -> [Articles -> [Urls -> Hrefs \cup {None}]]]
  PROVE  \A b \in Articles, h \in Urls : pend'[p][b][h] # None => Sees(p, b)
  BY RepointedRows

\* A worker takes no row without owning it, and keeps nothing it no longer needs.
LEMMA WorkerTidy ==
  ASSUME IInv, HasUrl, TidyInv, NEW w \in Workers, WorkerStep(w)
  PROVE  /\ PendingOwned' /\ FreeOK' /\ Published \subseteq Published'
         /\ Frugal(w)'
<1> USE PipelineAssumption
<1>0. /\ w \in Procs /\ Frugal(w) /\ PendingOwned /\ FreeOK /\ w \notin Admins
      /\ \A q \in Workers \ {w} : pc'[q] = pc[q] /\ own'[q] = own[q]
      /\ pc'[w] # "deleteRetarget" /\ pc[w] \in WorkerPcs
  BY WorkerMoves DEF TidyInv, Untouched, Procs, PcOK
<1>a. /\ pc \in [Procs -> WorkerPcs \cup AdminPcs] /\ own \in [Procs -> Articles \cup {None}]
      /\ treated \in [Procs -> [Urls -> Hrefs \cup {None}]]
      /\ pend \in [Procs -> [Articles -> [Urls -> Hrefs \cup {None}]]]
      /\ link \in [Articles -> [Urls -> Hrefs \cup {None}]]
      /\ state \in [Articles -> {"free", "pending", "active", "removed"}]
  BY DEF IInv, TypeInv, SystemOK
<1> DEFINE G == /\ PendingOwned' /\ FreeOK' /\ Published \subseteq Published'
                /\ Frugal(w)'
\* The worker only reads.
<1>b. ASSUME UNCHANGED <<state, link>>,
             pc[w] \notin {"retarget", "commit"} \/ (pc'[w] = "commit" /\ own'[w] = own[w]),
             Frugal(w)'
      PROVE  G
  <2>1. Published' = Published /\ FreeOK'
    BY <1>0, <1>b DEF Published, FreeOK
  <2>2. PendingOwned'
    BY <1>0, <1>b DEF PendingOwned
  <2>3. QED
    BY <1>b, <2>1, <2>2
<1>c. ASSUME UNCHANGED <<pend, seenUrl>>, pc[w] # "commit", pc'[w] \in {"treat", "keywords", "insert", "retarget"},
             pc'[w] \in {"keywords", "insert"} \/ treated'[w] = NoHrefs
      PROVE  Frugal(w)'
  <2>1. pend[w] = NoRows
    BY <1>0, <1>c DEF Frugal, WorkerPcs
  <2>2. \A b \in Articles, h \in Urls : pend'[w][b][h] = None
    BY <1>c, <2>1 DEF NoRows, NoHrefs
  <2>3. QED
    BY <1>0, <1>c, <2>1, <2>2 DEF Frugal
<1>d. ASSUME Reset({w})
      PROVE  Frugal(w)'
  BY <1>0, <1>d, ResetClears, ClearedFrugal
<1>1. ASSUME NEW i \in Items, Skip(w, i)
      PROVE  G
  <2>1. pc[w] = "idle" /\ UNCHANGED <<state, link, locals>>
    BY <1>1 DEF Skip, tables
  <2>2. Frugal(w)'
    BY <1>0, <2>1, UntouchedFrugal DEF Published, Untouched, locals
  <2>3. QED
    BY <1>b, <2>1, <2>2
<1>2. ASSUME NEW i \in Items, Take(w, i)
      PROVE  G
  <2>1. pc[w] = "idle" /\ pc'[w] = "treat" /\ UNCHANGED <<state, link, treated, seenUrl, pend>>
    BY <1>0, <1>a, <1>2 DEF Take, Goto, tables
  <2>2. treated'[w] = NoHrefs
    BY <1>0, <2>1 DEF Frugal
  <2>3. QED
    BY <1>b, <1>c, <2>1, <2>2
<1>3. CASE ResolveInternalURLs(w)
  <2>1. pc[w] = "treat" /\ pc'[w] = "keywords" /\ UNCHANGED <<state, link, seenUrl, pend>>
    BY <1>0, <1>a, <1>3 DEF ResolveInternalURLs, Goto, tables
  <2>2. QED
    BY <1>b, <1>c, <2>1
<1>4. CASE KeywordsFail(w)
  <2>1. pc[w] = "keywords" /\ Reset({w}) /\ UNCHANGED <<state, link>>
    BY <1>4 DEF KeywordsFail, tables
  <2>2. QED
    BY <1>b, <1>d, <2>1
<1>5. CASE FindSource(w)
  <2>1. pc[w] = "keywords" /\ UNCHANGED <<state, link>>
    BY <1>5 DEF FindSource, tables
  <2>2. Reset({w}) \/ (pc'[w] = "insert" /\ UNCHANGED <<seenUrl, pend>>)
    BY <1>0, <1>a, <1>5 DEF FindSource, Goto
  <2>3. QED
    BY <1>b, <1>c, <1>d, <2>1, <2>2
<1>6. CASE LoseInsert(w)
  <2>1. pc[w] = "insert" /\ Reset({w}) /\ UNCHANGED <<state, link>>
    BY <1>6 DEF LoseInsert, tables
  <2>2. QED
    BY <1>b, <1>d, <2>1
<1>7. CASE Insert(w)
  <2>1. PICK a \in Articles :
          /\ state[a] = "free" /\ state' = [state EXCEPT ![a] = "pending"]
          /\ own' = [own EXCEPT ![w] = a]
          /\ link' = [link EXCEPT ![a] = treated[w]] \/ link' = link
    BY <1>7 DEF Insert, Assign
  <2>2. pc[w] = "insert" /\ pc'[w] = "retarget" /\ UNCHANGED <<seenUrl, pend>> /\ treated'[w] = NoHrefs
    BY <1>0, <1>a, <1>7 DEF Insert, Goto
  <2>3. PendingOwned'
    <3>1. pc'[w] = "retarget" /\ own'[w] = a
      BY <1>0, <1>a, <2>1, <2>2
    <3>2. \A b \in Articles : state'[b] = "pending" => b = a \/ state[b] = "pending"
      BY <1>a, <2>1
    <3>3. QED
      BY <1>0, <2>2, <3>1, <3>2 DEF PendingOwned
  <2>4. FreeOK' /\ Published' = Published
    BY <1>0, <1>a, <2>1 DEF FreeOK, Published
  <2>5. Frugal(w)'
    BY <1>c, <2>2
  <2>6. QED
    BY <2>3, <2>4, <2>5
<1>8. CASE Retarget(w)
  <2>1. /\ pc[w] = "retarget" /\ pc' = [pc EXCEPT ![w] = "commit"]
        /\ UNCHANGED <<state, link, treated, own, seenUrl, src>>
        /\ Repoint(w, [x \in {url[own[w]]} |-> own[w]])
    BY <1>8 DEF Retarget, Goto, tables
  <2>2. pc'[w] = "commit"
    BY <1>0, <1>a, <2>1
  <2>3. \A b \in Articles, h \in Urls : pend'[w][b][h] # None => Sees(w, b)
    BY <1>0, <1>a, <2>1, UpdatedAreSeen
  <2>4. Frugal(w)'
    BY <1>0, <2>1, <2>2, <2>3 DEF Frugal, Sees, Published
  <2>5. QED
    BY <1>b, <2>1, <2>2, <2>4
<1>9. CASE Commit(w)
  <2>1. /\ pc[w] = "commit" /\ pc'[w] = "judge"
        /\ state' = [state EXCEPT ![own[w]] = "active"] /\ ApplyPend(w)
        /\ pend'[w] = NoRows /\ UNCHANGED <<treated, seenUrl>>
    BY <1>0, <1>a, <1>9 DEF Commit, Goto
  <2>2. own[w] \in Articles /\ state[own[w]] = "pending"
    BY <1>0, <2>1 DEF IInv, TypeInv, LocalsOK, RowInv, OwnState
  <2>3. Published' = Published \cup {own[w]}
    BY <1>a, <2>1, <2>2 DEF Published
  <2>4. PendingOwned'
    <3>1. \A b \in Articles : state'[b] = "pending" => b # own[w] /\ state[b] = "pending"
      BY <1>a, <2>1, <2>2
    <3>2. QED
      BY <1>0, <3>1 DEF PendingOwned
  <2>5. FreeOK'
    <3>1. ASSUME NEW b \in Articles, state'[b] = "free"
          PROVE  link'[b] = NoHrefs
      <4>1. b \notin Published \cup {own[w]} /\ link[b] = NoHrefs
        BY <1>0, <1>a, <2>1, <2>2, <3>1 DEF Published, FreeOK
      <4>2. \A h \in Urls : pend[w][b][h] = None
        BY <1>0, <4>1 DEF Frugal
      <4>3. link'[b] = [h \in Urls |-> link[b][h]]
        BY <2>1, <4>2 DEF ApplyPend
      <4>4. QED
        BY <4>1, <4>3 DEF NoHrefs
    <3>2. QED
      BY <3>1 DEF FreeOK
  <2>6. Frugal(w)'
    BY <1>0, <2>1 DEF Frugal, NoRows, NoHrefs
  <2>7. QED
    BY <2>3, <2>4, <2>5, <2>6
<1>10. CASE Judge(w)
  <2>1. pc[w] = "judge" /\ Reset({w}) /\ UNCHANGED <<state, link>>
    BY <1>10 DEF Judge
  <2>2. QED
    BY <1>b, <1>d, <2>1
<1>11. G
  BY <1>1, <1>2, <1>3, <1>4, <1>5, <1>6, <1>7, <1>8, <1>9, <1>10 DEF WorkerStep
<1>12. QED
  BY <1>11

\* So does an administrator.
LEMMA AdminTidy ==
  ASSUME IInv, HasUrl, TidyInv, NEW p \in Admins, AdminStep(p)
  PROVE  /\ PendingOwned' /\ FreeOK' /\ Published \subseteq Published'
         /\ Frugal(p)'
<1> USE PipelineAssumption
<1>0. /\ p \in Procs /\ Frugal(p) /\ FreeOK /\ p \notin Workers
      /\ pc[p] \in AdminPcs
      /\ PendingOwned
      /\ \A w \in Workers : pc'[w] = pc[w] /\ own'[w] = own[w]
      /\ treated'[p] \in {treated[p], NoHrefs}
  BY AdminMoves DEF TidyInv, Untouched, Procs, PcOK
<1>t. treated[p] = NoHrefs /\ treated'[p] = NoHrefs
  BY <1>0 DEF Frugal, AdminPcs
<1>a. /\ pc \in [Procs -> WorkerPcs \cup AdminPcs] /\ own \in [Procs -> Articles \cup {None}]
      /\ pend \in [Procs -> [Articles -> [Urls -> Hrefs \cup {None}]]]
      /\ link \in [Articles -> [Urls -> Hrefs \cup {None}]]
      /\ state \in [Articles -> {"free", "pending", "active", "removed"}]
      /\ seenUrl \in [Procs -> Urls \cup {None}]
  BY DEF IInv, TypeInv, SystemOK
<1> DEFINE G == /\ PendingOwned' /\ FreeOK' /\ Published \subseteq Published'
                /\ Frugal(p)'
\* A removal, or a step that changes no article.
<1>b. ASSUME \A a \in Articles : state'[a] = state[a] \/ (state[a] \in {"active", "removed"} /\ state'[a] = "removed"),
             link' = link \/ ApplyPend(p),
             Frugal(p)'
      PROVE  G
  <2>1. Published \subseteq Published' /\ PendingOwned'
    <3>1. \A a \in Articles : state'[a] = "pending" => state[a] = "pending"
      BY <1>b
    <3>2. QED
      BY <1>0, <1>b, <3>1 DEF Published, PendingOwned
  <2>2. ASSUME NEW b \in Articles, state'[b] = "free"
        PROVE  link'[b] = NoHrefs
    <3>1. b \notin Published /\ link[b] = NoHrefs /\ pc[p] # "commit"
      BY <1>0, <1>b, <2>2 DEF Published, FreeOK, AdminPcs
    <3>2. \A h \in Urls : pend[p][b][h] = None
      BY <1>0, <3>1 DEF Frugal
    <3>3. link'[b] = [h \in Urls |-> link[b][h]]
      BY <1>a, <1>b, <3>2 DEF ApplyPend
    <3>4. QED
      BY <3>1, <3>3 DEF NoHrefs
  <2>3. FreeOK'
    BY <2>2 DEF FreeOK
  <2>4. QED
    BY <1>b, <2>1, <2>3
<1>c. ASSUME pend'[p] = pend[p], pc[p] = "idle", pc'[p] # "deleteRetarget" \/ seenUrl'[p] \in Urls, UNCHANGED state
      PROVE  Frugal(p)'
  BY <1>0, <1>t, <1>c DEF Frugal, NoRows, NoHrefs
<1>d. ASSUME Reset({p})
      PROVE  Frugal(p)'
  BY <1>0, <1>d, ResetClears, ClearedFrugal
<1>1. ASSUME NEW i \in Items, CreateFindSource(p, i)
      PROVE  G
  <2>1. pc[p] = "idle" /\ pc'[p] = "createInsert" /\ UNCHANGED <<state, link, pend>>
    BY <1>0, <1>a, <1>1 DEF CreateFindSource, Goto, tables
  <2>2. QED
    BY <1>b, <1>c, <2>1
<1>2. CASE CreateInsert(p)
  <2>1. Reset({p}) /\ link' = link
    BY <1>2 DEF CreateInsert
  <2>2. state' = state \/ \E a \in Articles : state[a] = "free" /\ state' = [state EXCEPT ![a] = "active"]
    BY <1>2 DEF CreateInsert
  <2>3. /\ \A a \in Articles : /\ state'[a] = "pending" => state[a] = "pending"
                               /\ state'[a] = "free" => state[a] = "free"
        /\ Published \subseteq Published'
    BY <1>0, <1>a, <2>2 DEF Published
  <2>4. QED
    BY <1>0, <1>d, <2>1, <2>3 DEF PendingOwned, FreeOK
<1>3. ASSUME NEW a \in Articles, NEW i \in Items, UpdateArticle(a, i)
      PROVE  G
  <2>1. UNCHANGED <<state, link, locals>>
    BY <1>3 DEF UpdateArticle
  <2>2. Frugal(p)'
    BY <1>0, <2>1, UntouchedFrugal DEF Published, Untouched, locals
  <2>3. QED
    BY <1>b, <2>1, <2>2
<1>4. ASSUME NEW a \in Articles, DeleteFind(p, a)
      PROVE  G
  <2>1. /\ pc[p] = "idle" /\ UNCHANGED <<state, link, pend>>
        /\ state[a] = "active" /\ seenUrl' = [seenUrl EXCEPT ![p] = url[a]]
    BY <1>4 DEF DeleteFind, tables
  <2>2. seenUrl'[p] \in Urls
    BY <1>0, <1>a, <2>1 DEF HasUrl
  <2>3. QED
    BY <1>b, <1>c, <2>1, <2>2
<1>5. ASSUME pc[p] \in {"deleteRetarget", "sourceRetarget"}, pc'[p] \in {"deleteRemove", "sourceRemove"},
             UNCHANGED <<state, link, own>>, NEW to, Repoint(p, to)
      PROVE  G
  <2>1. \A b \in Articles, h \in Urls : pend'[p][b][h] # None => Sees(p, b)
    BY <1>0, <1>a, <1>5, RepointedRows
  <2>2. own[p] \in Articles => own[p] \in Published
    BY <1>0, <1>5 DEF IInv, TypeInv, LocalsOK, RowInv, OwnState, Published
  <2>3. Frugal(p)'
    BY <1>0, <1>t, <1>5, <2>1, <2>2 DEF Frugal, Sees, Published
  <2>4. QED
    BY <1>b, <1>5, <2>3
<1>6. CASE DeleteRetarget(p)
  <2>1. /\ pc[p] = "deleteRetarget" /\ pc'[p] = "deleteRemove"
        /\ UNCHANGED <<state, link, own>>
    BY <1>0, <1>a, <1>6 DEF DeleteRetarget, Goto, tables
  <2>2. QED
    BY <1>5, <1>6, <2>1 DEF DeleteRetarget
<1>7. CASE DeleteRemove(p)
  <2>1. /\ pc[p] = "deleteRemove" /\ Reset({p}) /\ ApplyPend(p)
        /\ state' = [state EXCEPT ![own[p]] = "removed"]
    BY <1>7 DEF DeleteRemove
  <2>2. state[own[p]] \in {"active", "removed"}
    BY <1>0, <2>1 DEF IInv, RowInv, OwnState
  <2>3. QED
    BY <1>a, <1>b, <1>d, <2>1, <2>2
<1>8. ASSUME NEW s \in Sources, SourceFind(p, s)
      PROVE  G
  <2>1. pc[p] = "idle" /\ pc'[p] = "sourceRetarget" /\ UNCHANGED <<state, link, pend>>
    BY <1>0, <1>a, <1>8 DEF SourceFind, Goto, tables
  <2>2. QED
    BY <1>b, <1>c, <2>1
<1>9. CASE SourceRetarget(p)
  <2>1. /\ pc[p] = "sourceRetarget" /\ pc'[p] = "sourceRemove"
        /\ UNCHANGED <<state, link, own>>
    BY <1>0, <1>a, <1>9 DEF SourceRetarget, Goto, tables
  <2>2. QED
    BY <1>5, <1>9, <2>1 DEF SourceRetarget
<1>10. CASE SourceRemove(p)
  <2>1. /\ Reset({p}) /\ ApplyPend(p)
        /\ \A a \in Articles : state'[a] = state[a] \/ (state[a] = "active" /\ state'[a] = "removed")
    BY <1>10 DEF SourceRemove, ActiveOf
  <2>2. QED
    BY <1>b, <1>d, <2>1
<1>11. G
  BY <1>1, <1>2, <1>3, <1>4, <1>6, <1>7, <1>8, <1>9, <1>10 DEF AdminStep
<1>12. QED
  BY <1>11

\* And a rollback.
LEMMA AbortTidy ==
  ASSUME IInv, TidyInv, NEW P \in SUBSET Procs, Abort(P)
  PROVE  PendingOwned' /\ FreeOK' /\ \A q \in Procs : Frugal(q)'
<1>0. /\ \A q \in Procs : Frugal(q)
      /\ PendingOwned /\ FreeOK
  BY DEF TidyInv
<1>1. \A a \in Articles : state'[a] = "free" \/ (a \notin Inserted(P) /\ state'[a] = state[a])
  BY AbortMoves
<1>2. FreeOK'
  BY <1>0, AbortMoves DEF FreeOK
<1>3. ASSUME NEW a \in Articles, state'[a] = "pending"
      PROVE  \E w \in Workers : pc'[w] \in {"retarget", "commit"} /\ own'[w] = a
  <2>1. a \notin Inserted(P) /\ state[a] = "pending"
    BY <1>1, <1>3
  <2>2. PICK w \in Workers : pc[w] \in {"retarget", "commit"} /\ own[w] = a
    BY <1>0, <2>1 DEF PendingOwned
  <2>3. w \in Procs \ P
    BY <2>1, <2>2 DEF Inserted, Procs
  <2>4. QED
    BY <2>2, <2>3, AbortMoves DEF Untouched
<1>4. Published \subseteq Published'
  BY AbortMoves DEF Published
<1>5. \A q \in Procs : Frugal(q)'
  BY <1>0, <1>4, AbortMoves, UntouchedFrugal, ClearedFrugal
<1>6. QED
  BY <1>2, <1>3, <1>5 DEF PendingOwned

LEMMA NextTidy == IInv /\ HasUrl /\ TidyInv /\ [Step]_system => TidyInv'
<1> SUFFICES ASSUME IInv, HasUrl, TidyInv, [Step]_system
             PROVE  TidyInv'
  OBVIOUS
<1>0. PcOK /\ \A q \in Procs : Frugal(q)
  BY DEF TidyInv
<1>a. Workers \cap Admins = {}
  BY PipelineAssumption
<1>1. CASE StartSweep \/ UNCHANGED system
  <2>0. UNCHANGED <<state, link, locals>>
    BY <1>1 DEF StartSweep, system, tables
  <2>1. Published' = Published /\ \A q \in Procs : Untouched(q)
    BY <2>0 DEF Published, Untouched, locals
  <2>2. PendingOwned' /\ FreeOK' /\ PcOK'
    BY <2>0 DEF TidyInv, PendingOwned, FreeOK, PcOK, locals
  <2>3. QED
    BY <1>0, <2>1, <2>2, UntouchedFrugal DEF TidyInv
<1>2. ASSUME NEW p \in Procs, PendingOwned', FreeOK', Published \subseteq Published', Frugal(p)',
             \A q \in Procs \ {p} : Untouched(q), PcOK'
      PROVE  TidyInv'
  BY <1>0, <1>2, UntouchedFrugal DEF TidyInv
<1>3. ASSUME NEW w \in Workers, WorkerStep(w)
      PROVE  TidyInv'
  <2>1. PcOK'
    BY <1>0, <1>a, <1>3, WorkerMoves DEF PcOK, Untouched, Procs
  <2>2. QED
    BY <1>0, <1>2, <1>3, <2>1, WorkerMoves, WorkerTidy
<1>4. ASSUME NEW p \in Admins, AdminStep(p)
      PROVE  TidyInv'
  <2>1. PcOK'
    BY <1>0, <1>a, <1>4, AdminMoves DEF PcOK, Untouched, Procs
  <2>2. QED
    BY <1>0, <1>2, <1>4, <2>1, AdminMoves, AdminTidy
<1>5. ASSUME NEW P \in SUBSET Procs, Abort(P)
      PROVE  TidyInv'
  <2>1. PcOK'
    BY <1>0, <1>5, AbortMoves DEF PcOK, Untouched, Cleared, Procs, WorkerPcs, AdminPcs
  <2>2. QED
    BY <1>0, <1>5, <2>1, AbortTidy DEF TidyInv
<1>6. QED
  BY <1>1, <1>3, <1>4, <1>5 DEF Step, Rollback, Crash

LEMMA InitTidy == Init => TidyInv
<1> SUFFICES ASSUME Init
             PROVE  TidyInv
  OBVIOUS
<1>1. \A p \in Procs : pc[p] = "idle" /\ treated[p] = NoHrefs /\ seenUrl[p] = None /\ pend[p] = NoRows
  BY DEF Init
<1>2. PcOK
  BY <1>1 DEF PcOK, WorkerPcs, AdminPcs, Procs
<1>3. PendingOwned /\ FreeOK
  BY DEF Init, PendingOwned, FreeOK, NoRows
<1>4. \A q \in Procs : Frugal(q)
  BY <1>1 DEF Frugal, NoRows, NoHrefs, Procs
<1>5. QED
  BY <1>2, <1>3, <1>4 DEF TidyInv

----------------------------------------------------------------------------
(* Links to removed articles, links to URLs of stored ones: the invariants. *)

\* The last step of a transaction that repoints rows.
Hot == {"commit", "deleteRemove", "sourceRemove"}

\* An article a link may lead to.
Sound(x) == x \in Published /\ (state[x] = "active" \/ x \in crossed)

\* A row that leads to an article is updated by whoever is removing it.
RowSound(b, h) ==
    link[b][h] \in Articles =>
        /\ Sound(link[b][h])
        /\ \A p \in Procs : Removing(p, link[b][h]) => pend[p][b][h] # None \/ link[b][h] \in crossed

RowsSound == \A b \in Articles, h \in Urls : RowSound(b, h)

TreatedSound == \A q \in Procs, h \in Urls : treated[q][h] \in Articles => Sound(treated[q][h])

\* Only a worker repoints a row to an article: its own.
PendOwn ==
    \A q \in Procs, b \in Articles, h \in Urls :
        pend[q][b][h] \in Articles => pc[q] = "commit" /\ pend[q][b][h] = own[q]

CrossOK == \A x \in Crossing : state[x] # "free" => x \in crossed

DeadInv == RowsSound /\ TreatedSound /\ PendOwn /\ CrossOK

\* The pipeline's articles, those about to be committed included.
Past(b) == (state[b] = "active" /\ via[b] = "sweep") \/ \E w \in Procs : Storing(w, b)

\* Those no link to which was on its way when they were stored.
Fresh(b) == Past(b) /\ b \notin missed

\* No row holds b's URL, but one that b's commit repoints.
NotLinked(b) ==
    \A a \in Articles, h \in Urls :
        link[a][h] = url[b] => \E w \in Procs : Storing(w, b) /\ pend[w][a][h] = b

NotTreated(b) == \A q \in Procs, h \in Urls : treated[q][h] # url[b]

\* A transaction that writes b's URL back, or read it to do so, removes b.
NotPended(b) ==
    \A p \in Procs, a \in Articles, h \in Urls :
        pend[p][a][h] = url[b] => Removing(p, b) /\ state[b] = "active"

NotSeen(b) == \A p \in Procs : seenUrl[p] = url[b] => own[p] = b

Clean(b) == NotLinked(b) /\ NotTreated(b) /\ NotPended(b) /\ NotSeen(b)

PassOK == \A x \in Passing : state[x] \in {"pending", "active"} => x \in missed

MissedInv == PassOK /\ \A b \in Articles : Fresh(b) => Clean(b)

\* What both rest on.
Base == IInv /\ HasUrl /\ TidyInv

\* What a step remembers.
Remembers ==
    /\ CrossOK' /\ PassOK'
    /\ \A x \in Articles : x \in crossed /\ state'[x] # "free" => x \in crossed'
    /\ \A x \in Articles : x \in missed \cup Overlooked /\ state'[x] \in {"pending", "active"} => x \in missed'

----------------------------------------------------------------------------
(* Frames.                                                                 *)

LEMMA RememberNext == Remember => Remembers
<1> SUFFICES ASSUME Remember
             PROVE  Remembers
  OBVIOUS
<1>1. CrossOK' /\ PassOK'
  BY DEF Remember, CrossOK, PassOK
<1>2. QED
  BY <1>1 DEF Remember, Remembers

\* Who carries an article while another removes it: it is in crossed.
LEMMA Crosses ==
  ASSUME CrossOK, NEW x \in Articles, NEW p \in Procs, NEW q \in Procs, p # q,
         Removing(p, x), Carries(q, x), state[x] # "free"
  PROVE  x \in crossed
  BY DEF CrossOK, Crossing

LEMMA CrossesNext ==
  ASSUME CrossOK', NEW x \in Articles, NEW p \in Procs, NEW q \in Procs, p # q,
         Removing(p, x)', Carries(q, x)', state'[x] # "free"
  PROVE  x \in crossed'
  BY DEF CrossOK, Crossing

LEMMA PassesNext ==
  ASSUME PassOK', NEW x \in Articles, NEW p \in Procs, NEW q \in Procs, p # q,
         Storing(p, x)', Carries(q, url[x])', state'[x] \in {"pending", "active"}
  PROVE  x \in missed'
  BY DEF PassOK, Passing

\* Pipeline's articles are in the index.
LEMMA PastHasUrl ==
  ASSUME Base, NEW b \in Articles, Past(b)
  PROVE  state[b] \in {"pending", "active"} /\ url[b] \in Urls
  BY DEF Base, Past, Storing, IInv, RowInv, OwnState, HasUrl

LEMMA PastHasUrlNext ==
  ASSUME Base', NEW b \in Articles, Past(b)'
  PROVE  state'[b] \in {"pending", "active"} /\ url'[b] \in Urls
  BY DEF Base, Past, Storing, IInv, RowInv, OwnState, HasUrl

\* Nothing to apply, before or after: the process is not repointing rows.
Calm(q) ==
    \/ Untouched(q)
    \/ Cleared(q)
    \/ pend'[q] = pend[q] /\ pc[q] \notin Hot /\ pc'[q] \notin Hot

\* A process that removes x after the step was removing it before, with the same rows.
LEMMA CalmRemoving ==
  ASSUME NEW p \in Procs, Calm(p), NEW x, source'[x] = source[x], Removing(p, x)'
  PROVE  Removing(p, x) /\ pend'[p] = pend[p]
  BY DEF Calm, Untouched, Cleared, Removing, Hot

\* A process that has just repointed its rows has repointed enough of them.
Repointed(q) ==
    /\ \A b \in Articles, h \in Urls, x \in Articles :
          link[b][h] = x /\ state[x] = "active" /\ Removing(q, x)' => pend'[q][b][h] # None \/ x \in crossed'
    /\ \A b \in Articles, h \in Urls :
          pend'[q][b][h] \in Articles => pc'[q] = "commit" /\ pend'[q][b][h] = own'[q]

\* A step that removes nothing a link leads to, but what is in crossed.
Spares(x) == x \in Published' /\ source'[x] = source[x] /\ (state'[x] = state[x] \/ x \in crossed)

LEMMA SoundStays ==
  ASSUME Remembers, NEW x, Sound(x), Spares(x)
  PROVE  Sound(x)' /\ (x \in crossed => x \in crossed')
  BY DEF Sound, Spares, Remembers, Published

LEMMA DeadFrame ==
  ASSUME Base, DeadInv, Remembers, TreatedSound',
         \A q \in Procs : Calm(q) \/ Repointed(q),
         \A b \in Articles, h \in Urls, x \in Articles :
            link[b][h] = x /\ link'[b][h] = x /\ Sound(x) => Spares(x),
         \A b \in Articles, h \in Urls : link'[b][h] \in {link[b][h], None} \/ RowSound(b, h)'
  PROVE  DeadInv'
<1> USE PipelineAssumption
<1>1. ASSUME NEW b \in Articles, NEW h \in Urls, NEW x \in Articles, link[b][h] = x, link'[b][h] = x
      PROVE  RowSound(b, h)'
  <2>1. Sound(x) /\ \A p \in Procs : Removing(p, x) => pend[p][b][h] # None \/ x \in crossed
    BY <1>1 DEF DeadInv, RowsSound, RowSound, Sound, Removing
  <2>2. Spares(x)
    BY <1>1, <2>1
  <2>3. Sound(x)' /\ (x \in crossed => x \in crossed')
    BY <2>1, <2>2, SoundStays
  <2>5. ASSUME NEW p \in Procs, Removing(p, x)'
        PROVE  pend'[p][b][h] # None \/ x \in crossed'
    <3>1. CASE Calm(p)
      <4>1. source'[x] = source[x]
        BY <2>2 DEF Spares
      <4>2. Removing(p, x) /\ pend'[p] = pend[p]
        BY <2>5, <3>1, <4>1, CalmRemoving
      <4>3. QED
        BY <2>1, <2>3, <4>2
    <3>2. CASE Repointed(p)
      BY <1>1, <2>1, <2>3, <2>5, <3>2 DEF Repointed, Sound
    <3>3. QED
      BY <3>1, <3>2
  <2>6. \A p \in Procs : Removing(p, x)' => pend'[p][b][h] # None \/ x \in crossed'
    BY <2>5
  <2>7. QED
    BY <1>1, <2>3, <2>6 DEF RowSound, Sound, Removing, Published
<1>2. RowsSound'
  <2>1. ASSUME NEW b \in Articles, NEW h \in Urls
        PROVE  RowSound(b, h)'
    <3>1. CASE link'[b][h] = None
      BY <3>1 DEF RowSound
    <3>2. CASE link'[b][h] = link[b][h] /\ link[b][h] \in Articles
      BY <1>1, <3>2
    <3>3. CASE link'[b][h] = link[b][h] /\ link[b][h] \notin Articles
      BY <3>3 DEF RowSound
    <3>4. QED
      BY <3>1, <3>2, <3>3
  <2>2. QED
    BY <2>1 DEF RowsSound
<1>3. PendOwn'
  <2>1. ASSUME NEW q \in Procs, NEW b \in Articles, NEW h \in Urls, pend'[q][b][h] \in Articles
        PROVE  pc'[q] = "commit" /\ pend'[q][b][h] = own'[q]
    <3>1. CASE Calm(q)
      <4>1. pend'[q] # NoRows
        BY <2>1 DEF NoRows, NoHrefs
      <4>2. pend'[q] = pend[q]
        BY <3>1, <4>1 DEF Calm, Untouched, Cleared
      <4>3. pc[q] = "commit" /\ pend[q][b][h] = own[q]
        BY <2>1, <4>2 DEF DeadInv, PendOwn
      <4>4. QED
        BY <3>1, <4>1, <4>2, <4>3 DEF Calm, Untouched, Cleared, Hot
    <3>2. CASE Repointed(q)
      BY <2>1, <3>2 DEF Repointed
    <3>3. QED
      BY <3>1, <3>2
  <2>2. QED
    BY <2>1 DEF PendOwn
<1>4. QED
  BY <1>2, <1>3 DEF DeadInv, Remembers

\* Treated bodies stay sound.
LEMMA TreatedStays ==
  ASSUME DeadInv, Remembers,
         \A q \in Procs : treated'[q] \in {treated[q], NoHrefs},
         \A q \in Procs, h \in Urls, x \in Articles : treated[q][h] = x /\ Sound(x) => Spares(x)
  PROVE  TreatedSound'
<1>1. ASSUME NEW q \in Procs, NEW h \in Urls, NEW x \in Articles, treated'[q][h] = x
      PROVE  Sound(x)'
  <2>1. treated[q][h] = x
    BY <1>1, PipelineAssumption DEF NoHrefs
  <2>2. Sound(x)
    BY <1>1, <2>1 DEF DeadInv, TreatedSound, Sound
  <2>3. QED
    BY <2>1, <2>2, SoundStays
<1>2. \A q \in Procs, h \in Urls : \A x \in Articles : treated'[q][h] = x =>
         x \in Published' /\ (state'[x] = "active" \/ x \in crossed')
  BY <1>1 DEF Sound
<1>3. QED
  BY <1>2 DEF TreatedSound, Sound, Published

\* What a step leaves of an article.
Same(b) == state'[b] = state[b] /\ url'[b] = url[b] /\ source'[b] = source[b] /\ via'[b] = via[b]

\* A repointing process goes on: its rows are as they were.
LEMMA CalmStoring ==
  ASSUME NEW p \in Procs, Calm(p), NEW x, Storing(p, x)'
  PROVE  Storing(p, x)
  BY DEF Calm, Untouched, Cleared, Storing, Hot

\* A process does not turn to b, and where it writes b's URL it removes b.
Keeps(q, b) ==
    /\ ~Storing(q, b)'
    /\ Fresh(b) => \A a \in Articles, h \in Urls :
                      pend'[q][a][h] = url[b] => Removing(q, b)' /\ state'[b] = "active"

LEMMA StaysFresh ==
  ASSUME Base', Remembers, NEW b \in Articles, Same(b), \A q \in Procs : Calm(q) \/ Keeps(q, b), Fresh(b)'
  PROVE  Fresh(b) /\ url[b] \in Urls /\ state[b] \in {"pending", "active"}
<1>1. Past(b)'
  BY DEF Fresh
<1>2. Past(b)
  <2>1. CASE state'[b] = "active" /\ via'[b] = "sweep"
    BY <2>1 DEF Past, Same
  <2>2. ASSUME NEW w \in Procs, Storing(w, b)'
        PROVE  Past(b)
    BY <2>2, CalmStoring DEF Past, Keeps
  <2>3. QED
    BY <1>1, <2>1, <2>2 DEF Past
<1>3. state'[b] \in {"pending", "active"} /\ url'[b] \in Urls
  BY <1>1, PastHasUrlNext
<1>4. b \notin missed
  BY <1>3 DEF Remembers, Fresh
<1>5. QED
  BY <1>2, <1>3, <1>4 DEF Fresh, Same

\* A calm process that wrote b's URL back still removes b.
LEMMA CalmPended ==
  ASSUME NEW p \in Procs, Calm(p), NEW b \in Articles, Same(b), url[b] \in Urls, NotPended(b),
         NEW a \in Articles, NEW h \in Urls, pend'[p][a][h] = url[b]
  PROVE  Removing(p, b)' /\ state'[b] = "active"
<1>1. pend'[p] # NoRows
  BY PipelineAssumption DEF NoRows, NoHrefs
<1>2. pend'[p] = pend[p]
  BY <1>1 DEF Calm, Untouched, Cleared
<1>3. Removing(p, b) /\ state[b] = "active"
  BY <1>2 DEF NotPended
<1>4. Untouched(p)
  BY <1>1, <1>3 DEF Calm, Cleared, Removing, Hot
<1>5. QED
  BY <1>3, <1>4 DEF Untouched, Removing, Same

LEMMA CalmSeen ==
  ASSUME NEW p \in Procs, seenUrl'[p] = None \/ (seenUrl'[p] = seenUrl[p] /\ own'[p] = own[p]),
         NEW b \in Articles, url'[b] = url[b], url[b] \in Urls, NotSeen(b), seenUrl'[p] = url'[b]
  PROVE  own'[p] = b
  BY PipelineAssumption DEF NotSeen

\* What a step may write while b is one of the clean ones.
LEMMA CleanFrame ==
  ASSUME Base, Base', MissedInv, Remembers, NEW b \in Articles, Fresh(b)', Same(b),
         \A a \in Articles, h \in Urls : link'[a][h] \in {link[a][h], None} \/ (Fresh(b) => link'[a][h] # url[b]),
         \A q \in Procs : treated'[q] \in {treated[q], NoHrefs} \/ \A h \in Urls : treated'[q][h] # url[b],
         \A q \in Procs : Calm(q) \/ Keeps(q, b),
         \A q \in Procs : \/ seenUrl'[q] = None \/ (seenUrl'[q] = seenUrl[q] /\ own'[q] = own[q])
                          \/ seenUrl'[q] = url[b] /\ state[b] \in {"pending", "active"} => own'[q] = b,
         \A w \in Procs : Storing(w, b) => Untouched(w) \/ state'[b] # "pending"
  PROVE  Clean(b)'
<1> USE PipelineAssumption
<1>2. Fresh(b) /\ url[b] \in Urls /\ url'[b] = url[b] /\ state[b] \in {"pending", "active"}
  BY StaysFresh DEF Same
<1>3. NotLinked(b) /\ NotTreated(b) /\ NotPended(b) /\ NotSeen(b)
  BY <1>2 DEF MissedInv, Clean
<1>4. ASSUME NEW a \in Articles, NEW h \in Urls, link'[a][h] = url'[b]
      PROVE  \E w \in Procs : Storing(w, b)' /\ pend'[w][a][h] = b
  <2>1. link[a][h] = url[b]
    BY <1>2, <1>4
  <2>2. PICK w \in Procs : Storing(w, b) /\ pend[w][a][h] = b
    BY <1>3, <2>1 DEF NotLinked
  <2>3. state'[b] = "pending"
    BY <2>2 DEF Same, Storing, Base, IInv, RowInv, OwnState
  <2>4. Untouched(w)
    BY <2>2, <2>3
  <2>5. QED
    BY <2>2, <2>4 DEF Untouched, Storing
<1>5. NotLinked(b)'
  BY <1>4 DEF NotLinked, Storing
<1>6. NotTreated(b)'
  BY <1>2, <1>3 DEF NotTreated, NoHrefs
<1>7. ASSUME NEW p \in Procs, NEW a \in Articles, NEW h \in Urls, pend'[p][a][h] = url'[b]
      PROVE  Removing(p, b)' /\ state'[b] = "active"
  BY <1>2, <1>3, <1>7, CalmPended DEF Keeps
<1>8. NotPended(b)'
  BY <1>7 DEF NotPended, Removing
<1>9. ASSUME NEW p \in Procs, seenUrl'[p] = url'[b]
      PROVE  own'[p] = b
  <2>1. CASE seenUrl'[p] = None \/ (seenUrl'[p] = seenUrl[p] /\ own'[p] = own[p])
    BY <1>2, <1>3, <1>9, <2>1, CalmSeen
  <2>2. CASE seenUrl'[p] = url[b] => own'[p] = b
    BY <1>2, <1>9, <2>2
  <2>3. QED
    BY <1>2, <2>1, <2>2
<1>10. NotSeen(b)'
  BY <1>9 DEF NotSeen
<1>11. QED
  BY <1>5, <1>6, <1>8, <1>10 DEF Clean

LEMMA MissedOf ==
  ASSUME Remembers, \A b \in Articles : Fresh(b)' => Clean(b)'
  PROVE  MissedInv'
  BY DEF MissedInv, Remembers

----------------------------------------------------------------------------
(* The steps.                                                              *)

LinkInv == DeadInv /\ MissedInv

\* What a DeleteArticle has read, or nothing.
ReadOK(q) ==
    \/ seenUrl'[q] = None \/ (seenUrl'[q] = seenUrl[q] /\ own'[q] = own[q])
    \/ own'[q] \in Articles /\ state[own'[q]] = "active" /\ seenUrl'[q] = url[own'[q]]

LEMMA ReadOne ==
  ASSUME IInv, NEW q \in Procs, ReadOK(q), NEW b \in Articles
  PROVE  \/ seenUrl'[q] = None \/ (seenUrl'[q] = seenUrl[q] /\ own'[q] = own[q])
         \/ seenUrl'[q] = url[b] /\ state[b] \in {"pending", "active"} => own'[q] = b
  BY DEF ReadOK, IInv, RowInv, IndexUnique

\* A step that changes no row: a look-up, a judgement, an item that is dropped.
LEMMA ReadsOnly ==
  ASSUME Base, Base', LinkInv, Remembers,
         UNCHANGED <<state, url, source, via, link>>,
         \A q \in Procs : Calm(q) /\ treated'[q] \in {treated[q], NoHrefs} /\ ReadOK(q),
         \A w \in Procs, b \in Articles : Storing(w, b) => Untouched(w)
  PROVE  LinkInv'
<1>1. TreatedSound'
  BY TreatedStays DEF LinkInv, Spares, Sound, Published
<1>2. DeadInv'
  BY <1>1, DeadFrame DEF LinkInv, Spares, Sound, Published
<1>3. ASSUME NEW b \in Articles, Fresh(b)'
      PROVE  Clean(b)'
  BY <1>3, ReadOne, CleanFrame DEF LinkInv, Same, Base
<1>4. QED
  BY <1>2, <1>3, MissedOf DEF LinkInv

\* A rollback or a crash takes uncommitted rows back.
LEMMA AbortLinks ==
  ASSUME Base, Base', LinkInv, Remembers, NEW P \in SUBSET Procs, Abort(P)
  PROVE  LinkInv'
<1>1. \A q \in Procs : IF q \in P THEN Cleared(q) ELSE Untouched(q)
  BY AbortMoves DEF Base
<1>2. \A a \in Articles : \/ a \in Inserted(P) /\ state[a] = "pending" /\ state'[a] = "free" /\ link'[a] = NoHrefs
                          \/ a \notin Inserted(P) /\ Same(a) /\ link'[a] = link[a]
  BY AbortMoves DEF Base, Same
<1>3. \A q \in Procs : Calm(q) /\ treated'[q] \in {treated[q], NoHrefs} /\ ReadOK(q)
  BY <1>1 DEF Calm, Cleared, Untouched, ReadOK
<1>4. \A x \in Articles : Sound(x) => Spares(x)
  BY <1>2 DEF Sound, Published, Spares, Same
<1>5. \A b \in Articles, h \in Urls : link'[b][h] \in {link[b][h], None}
  BY <1>2 DEF NoHrefs
<1>6. DeadInv'
  BY <1>3, <1>4, <1>5, TreatedStays, DeadFrame DEF LinkInv
<1>7. ASSUME NEW b \in Articles, Fresh(b)'
      PROVE  Clean(b)'
  <2>1. Same(b)
    BY <1>2, <1>7, PastHasUrlNext DEF Fresh
  <2>2. ASSUME NEW w \in Procs, Storing(w, b)
        PROVE  Untouched(w) \/ state'[b] # "pending"
    BY <1>1, <1>2, <2>2 DEF Storing, Inserted, Base, IInv, RowInv, OwnState
  <2>3. QED
    BY <1>3, <1>5, <1>7, <2>1, <2>2, ReadOne, CleanFrame DEF LinkInv, Base
<1>8. QED
  BY <1>6, <1>7, MissedOf DEF LinkInv

\* An administrator's article is no retro-link's, and holds no row.
LEMMA EditsLinks ==
  ASSUME Base, Base', LinkInv, Remembers, UNCHANGED link,
         \A q \in Procs : Calm(q) /\ treated'[q] \in {treated[q], NoHrefs} /\ ReadOK(q),
         \A w \in Procs, b \in Articles : Storing(w, b) => Untouched(w),
         \A x \in Published : state'[x] = state[x] /\ source'[x] = source[x],
         \A b \in Articles : Same(b) \/ (state'[b] = "active" /\ via'[b] = "admin")
  PROVE  LinkInv'
<1>1. \A x \in Articles : Sound(x) => Spares(x)
  BY DEF Sound, Published, Spares
<1>2. DeadInv'
  BY <1>1, TreatedStays, DeadFrame DEF LinkInv
<1>3. ASSUME NEW b \in Articles, Fresh(b)'
      PROVE  Clean(b)'
  <2>1. Same(b)
    <3>1. \A w \in Procs : Storing(w, b)' => state'[b] = "pending"
      BY DEF Storing, Base, IInv, RowInv, OwnState
    <3>2. QED
      BY <1>3, <3>1 DEF Fresh, Past
  <2>2. QED
    BY <1>3, <2>1, ReadOne, CleanFrame DEF LinkInv, Base
<1>4. QED
  BY <1>2, <1>3, MissedOf DEF LinkInv

\* The look-ups of a treatment: what they find is published, and what they do not
\* find is overlooked, or is being stored meanwhile.
LEMMA ResolveLinks ==
  ASSUME Base, Base', LinkInv, Remembers, NEW w \in Workers, ResolveInternalURLs(w)
  PROVE  LinkInv'
<1> USE PipelineAssumption
<1>0. w \in Procs /\ \A q \in Procs \ {w} : Untouched(q)
  BY WorkerMoves DEF Base, TidyInv, WorkerStep
<1>a. /\ pc \in [Procs -> WorkerPcs \cup AdminPcs]
      /\ treated \in [Procs -> [Urls -> Hrefs \cup {None}]]
  BY DEF Base, IInv, TypeInv, SystemOK
<1>1. /\ pc[w] = "treat" /\ pc'[w] = "keywords"
      /\ UNCHANGED <<state, url, source, via, link, own, seenUrl, src, pend>>
  BY <1>0, <1>a DEF ResolveInternalURLs, Goto, tables
<1>2. \A h \in Urls : treated'[w][h] \in {h, None} \/ (treated'[w][h] = Lookup(h) /\ Lookup(h) # None)
  <2> DEFINE anchors == ItemHrefs[item[w]]
             plain == [h \in Urls |-> IF h \in anchors THEN h ELSE None]
             found == [h \in Urls |-> IF h \in anchors /\ Lookup(h) # None THEN Lookup(h) ELSE plain[h]]
  <2>1. treated' = [treated EXCEPT ![w] = found] \/ treated' = [treated EXCEPT ![w] = plain]
    BY DEF ResolveInternalURLs
  <2>2. treated'[w] = found \/ treated'[w] = plain
    BY <1>0, <1>a, <2>1
  <2>3. QED
    BY <2>2
<1>3. Found
  BY FoundOne DEF Base
<1>4. \A q \in Procs : Calm(q) /\ ReadOK(q)
  BY <1>0, <1>1 DEF Calm, ReadOK, Untouched, Hot
<1>5. TreatedSound'
  <2>1. ASSUME NEW q \in Procs, NEW h \in Urls, NEW x \in Articles, treated'[q][h] = x
        PROVE  Sound(x)'
    <3>1. Sound(x)
      <4>1. CASE q = w
        BY <1>2, <1>3, <2>1, <4>1 DEF Found, Sound, Published
      <4>2. CASE q # w
        BY <1>0, <2>1, <4>2 DEF Untouched, LinkInv, DeadInv, TreatedSound, Sound
      <4>3. QED
        BY <4>1, <4>2
    <3>2. Spares(x)
      BY <1>1, <3>1 DEF Spares, Sound, Published
    <3>3. QED
      BY <3>1, <3>2, SoundStays
  <2>2. \A q \in Procs, h \in Urls : \A x \in Articles : treated'[q][h] = x =>
           x \in Published' /\ (state'[x] = "active" \/ x \in crossed')
    BY <2>1 DEF Sound
  <2>3. QED
    BY <2>2 DEF TreatedSound, Sound, Published
<1>6. DeadInv'
  <2>1. \A x \in Articles : Sound(x) => Spares(x)
    BY <1>1 DEF Sound, Published, Spares
  <2>2. QED
    BY <1>1, <1>4, <1>5, <2>1, DeadFrame DEF LinkInv
<1>7. ASSUME NEW b \in Articles, Fresh(b)'
      PROVE  Clean(b)'
  <2>1. Same(b)
    BY <1>1 DEF Same
  <2>2. Fresh(b) /\ url[b] \in Urls /\ state[b] \in {"pending", "active"}
    BY <1>4, <1>7, <2>1, StaysFresh
  <2>3. ASSUME NEW h \in Urls, treated'[w][h] = url[b]
        PROVE  FALSE
    <3>1. treated'[w][h] = h /\ h = url[b]
      BY <1>2, <1>3, <2>2, <2>3 DEF Found
    <3>2. CASE state[b] = "active"
      <4>1. Lookup(h) = b
        BY <1>3, <3>1, <3>2 DEF Found
      <4>2. b \in Overlooked
        BY <1>1, <3>1, <4>1 DEF Overlooked
      <4>3. QED
        BY <1>7, <2>1, <2>2, <4>2 DEF Remembers, Same, Fresh
    <3>3. CASE state[b] = "pending"
      <4>1. PICK v \in Procs : Storing(v, b)'
        BY <1>1, <1>7, <3>3 DEF Fresh, Past
      <4>2. v # w
        BY <1>1, <4>1 DEF Storing
      <4>3. Carries(w, url[b])'
        BY <1>1, <2>3 DEF Carries
      <4>4. b \in missed'
        BY <1>0, <2>1, <2>2, <4>1, <4>2, <4>3, PassesNext DEF Remembers, Same
      <4>5. QED
        BY <1>7, <4>4 DEF Fresh
    <3>4. QED
      BY <2>2, <3>2, <3>3
  <2>4. \A q \in Procs : treated'[q] \in {treated[q], NoHrefs} \/ \A h \in Urls : treated'[q][h] # url[b]
    BY <1>0, <2>3 DEF Untouched
  <2>5. \A v \in Procs : Storing(v, b) => Untouched(v)
    BY <1>0, <1>1 DEF Storing
  <2>6. QED
    BY <1>1, <1>4, <1>7, <2>1, <2>4, <2>5, ReadOne, CleanFrame DEF LinkInv, Base
<1>8. QED
  BY <1>6, <1>7, MissedOf DEF LinkInv

\* An INSERT writes the rows of a treated body: a link to an article that is being
\* removed crosses its removal.
LEMMA InsertLinks ==
  ASSUME Base, Base', LinkInv, Remembers, NEW w \in Workers, Insert(w)
  PROVE  LinkInv'
<1> USE PipelineAssumption
<1>0. w \in Procs /\ w \notin Admins /\ \A q \in Procs \ {w} : Untouched(q)
  BY WorkerMoves DEF Base, TidyInv, WorkerStep
<1>a. /\ pc \in [Procs -> WorkerPcs \cup AdminPcs] /\ own \in [Procs -> Articles \cup {None}]
      /\ treated \in [Procs -> [Urls -> Hrefs \cup {None}]]
      /\ link \in [Articles -> [Urls -> Hrefs \cup {None}]]
      /\ state \in [Articles -> {"free", "pending", "active", "removed"}]
      /\ url \in [Articles -> Urls \cup {None}] /\ source \in [Articles -> Sources \cup {None}]
      /\ via \in [Articles -> {"sweep", "admin", None}]
  BY DEF Base, IInv, TypeInv, SystemOK
<1>1. PICK a \in Articles :
        /\ state[a] = "free" /\ state' = [state EXCEPT ![a] = "pending"]
        /\ url' = [url EXCEPT ![a] = ItemUrl[item[w]]]
        /\ source' = [source EXCEPT ![a] = ItemSource[item[w]]]
        /\ via' = [via EXCEPT ![a] = "sweep"]
        /\ link' = [link EXCEPT ![a] = treated[w]] \/ link' = link
  BY DEF Insert, Assign
<1>2. /\ pc[w] = "insert" /\ pc'[w] = "retarget" /\ treated'[w] = NoHrefs
      /\ UNCHANGED <<seenUrl, pend>> /\ seenUrl[w] = None
  BY <1>0, <1>a DEF Insert, Goto, Base, TidyInv, Frugal
<1>3. /\ state'[a] = "pending" /\ \A b \in Articles \ {a} : Same(b) /\ link'[b] = link[b]
      /\ link'[a] \in {link[a], treated[w]}
  BY <1>a, <1>1 DEF Same
<1>4. \A q \in Procs : Calm(q) /\ treated'[q] \in {treated[q], NoHrefs} /\ ReadOK(q)
  BY <1>0, <1>2 DEF Calm, ReadOK, Untouched, Hot
<1>5. \A x \in Articles : Sound(x) => x # a /\ Spares(x)
  BY <1>1, <1>3 DEF Sound, Published, Spares, Same
<1>6. TreatedSound'
  BY <1>4, <1>5, TreatedStays DEF LinkInv
<1>7. ASSUME NEW h \in Urls, NEW x \in Articles, link'[a][h] = x, treated[w][h] = x
      PROVE  RowSound(a, h)'
  <2>1. Sound(x) /\ Spares(x)
    BY <1>0, <1>5, <1>7 DEF LinkInv, DeadInv, TreatedSound, Sound
  <2>2. Sound(x)' /\ (x \in crossed => x \in crossed')
    BY <2>1, SoundStays
  <2>3. ASSUME NEW p \in Procs, Removing(p, x)'
        PROVE  x \in crossed'
    <3>1. p # w
      BY <1>2, <2>3 DEF Removing
    <3>2. Removing(p, x)
      BY <1>0, <2>1, <2>3, <3>1 DEF Untouched, Removing, Spares
    <3>3. Carries(w, x)
      BY <1>7 DEF Carries
    <3>4. x \in crossed
      BY <1>0, <2>1, <3>1, <3>2, <3>3, Crosses DEF LinkInv, DeadInv, Sound, Published
    <3>5. QED
      BY <2>2, <3>4
  <2>4. \A p \in Procs : Removing(p, x)' => x \in crossed'
    BY <2>3
  <2>5. QED
    BY <1>7, <2>2, <2>4 DEF RowSound, Sound, Removing, Published
<1>8. ASSUME NEW b \in Articles, NEW h \in Urls
      PROVE  link'[b][h] \in {link[b][h], None} \/ RowSound(b, h)'
  <2>1. CASE link'[b] = link[b]
    BY <2>1
  <2>2. CASE b = a /\ link'[a] = treated[w] /\ treated[w][h] \in Articles
    BY <1>7, <2>2
  <2>3. CASE b = a /\ link'[a] = treated[w] /\ treated[w][h] \notin Articles
    BY <2>3 DEF RowSound
  <2>4. QED
    BY <1>3, <2>1, <2>2, <2>3
<1>9. DeadInv'
  BY <1>4, <1>5, <1>6, <1>8, DeadFrame DEF LinkInv
<1>10. ASSUME NEW b \in Articles, Fresh(b)'
       PROVE  Clean(b)'
  <2>1. b # a
    <3>1. ASSUME NEW v \in Procs, Storing(v, a)'
          PROVE  FALSE
      <4>1. Storing(v, a)
        BY <1>4, <3>1, CalmStoring
      <4>2. QED
        BY <1>1, <4>1 DEF Storing, Base, IInv, RowInv, OwnState
    <3>2. QED
      BY <1>3, <1>10, <3>1 DEF Fresh, Past
  <2>2. Same(b)
    BY <1>3, <2>1
  <2>3. Fresh(b) => \A h \in Urls : treated[w][h] # url[b]
    BY <1>0 DEF LinkInv, MissedInv, Clean, NotTreated
  <2>4. \A c \in Articles, h \in Urls : link'[c][h] \in {link[c][h], None} \/ (Fresh(b) => link'[c][h] # url[b])
    BY <1>3, <2>3
  <2>5. \A v \in Procs : Storing(v, b) => Untouched(v)
    BY <1>0, <1>2 DEF Storing
  <2>6. QED
    BY <1>4, <1>10, <2>2, <2>4, <2>5, ReadOne, CleanFrame DEF LinkInv, Base
<1>11. QED
  BY <1>9, <1>10, MissedOf DEF LinkInv

\* The rows of an article nobody sees yet are its worker's to carry.
LEMMA UnseenCarried ==
  ASSUME TidyInv, NEW b \in Articles, b \notin Published, NEW h \in Urls, link[b][h] # None,
         state \in [Articles -> {"free", "pending", "active", "removed"}]
  PROVE  state[b] = "pending" /\ \E v \in Workers : pc[v] \in {"retarget", "commit"} /\ own[v] = b
<1>1. state[b] # "free"
  BY DEF TidyInv, FreeOK, NoHrefs
<1>2. state[b] = "pending"
  BY <1>1 DEF Published
<1>3. QED
  BY <1>2 DEF TidyInv, PendingOwned

\* Retargeting repoints what it sees to the new article; what it does not see is
\* on its way, in the locals or the transaction of another process.
LEMMA RetargetLinks ==
  ASSUME Base, Base', LinkInv, Remembers, NEW w \in Workers, Retarget(w)
  PROVE  LinkInv'
<1> USE PipelineAssumption
<1>0. w \in Procs /\ w \notin Admins /\ \A q \in Procs \ {w} : Untouched(q)
  BY WorkerMoves DEF Base, TidyInv, WorkerStep
<1>a. /\ pc \in [Procs -> WorkerPcs \cup AdminPcs]
      /\ pend \in [Procs -> [Articles -> [Urls -> Hrefs \cup {None}]]]
      /\ state \in [Articles -> {"free", "pending", "active", "removed"}]
  BY DEF Base, IInv, TypeInv, SystemOK
<1>1. /\ pc[w] = "retarget" /\ pc'[w] = "commit"
      /\ UNCHANGED <<state, url, source, via, link, treated, own, seenUrl, src>>
  BY <1>0, <1>a DEF Retarget, Goto, tables
<1>n. PICK n \in Articles : n = own[w]
  BY <1>0, <1>1 DEF Base, IInv, TypeInv, LocalsOK
<1>2. \A b \in Articles, h \in Urls :
         pend'[w][b][h] = IF Sees(w, b) /\ link[b][h] = url[n] THEN n ELSE None
  <2>1. Repoint(w, [x \in {url[n]} |-> n])
    BY <1>n DEF Retarget
  <2>2. QED
    BY <1>0, <1>a, <2>1, RepointedRows
<1>3. own'[w] = n /\ own[w] = n /\ state[n] = "pending" /\ url[n] \in Urls
  BY <1>0, <1>1, <1>n DEF Base, IInv, RowInv, OwnState, HasUrl
<1>4. seenUrl[w] = None /\ treated[w] = NoHrefs
  BY <1>0, <1>1 DEF Base, TidyInv, Frugal
<1>5. \A q \in Procs : q # w => Calm(q)
  BY <1>0 DEF Calm
<1>6. Repointed(w)
  BY <1>1, <1>2, <1>3 DEF Repointed, Removing
<1>7. DeadInv'
  <2>1. \A x \in Articles : Sound(x) => Spares(x)
    BY <1>1 DEF Sound, Published, Spares
  <2>2. TreatedSound'
    BY <1>1, <2>1, TreatedStays DEF LinkInv
  <2>3. QED
    BY <1>1, <1>5, <1>6, <2>1, <2>2, DeadFrame DEF LinkInv
<1>8. ASSUME NEW q \in Procs, q # w, Carries(q, url[n])', n \notin missed'
      PROVE  FALSE
  <2>1. Storing(w, n)'
    BY <1>1, <1>3 DEF Storing
  <2>2. state'[n] \in {"pending", "active"}
    BY <1>1, <1>3
  <2>3. QED
    BY <1>0, <1>8, <2>1, <2>2, PassesNext DEF Remembers
<1>9. ASSUME NEW b \in Articles, Fresh(b)'
      PROVE  Clean(b)'
  <2>1. CASE b # n
    <3>1. Keeps(w, b)
      BY <1>1, <1>2, <1>3, <2>1, PastHasUrl DEF Keeps, Storing, Fresh
    <3>2. Same(b) /\ \A v \in Procs : Storing(v, b) => Untouched(v)
      BY <1>0, <1>1, <1>3 DEF Same, Storing
    <3>3. \A q \in Procs : (Calm(q) \/ Keeps(q, b)) /\ treated'[q] = treated[q] /\ ReadOK(q)
      BY <1>1, <1>5, <3>1 DEF ReadOK
    <3>4. QED
      BY <1>1, <1>9, <3>2, <3>3, ReadOne, CleanFrame DEF LinkInv, Base
  <2>2. CASE b = n
    <3>0. n \notin missed'
      BY <1>9, <2>2 DEF Fresh
    <3>1. ASSUME NEW a \in Articles, NEW h \in Urls, link'[a][h] = url'[n]
          PROVE  \E v \in Procs : Storing(v, n)' /\ pend'[v][a][h] = n
      <4>1. CASE Sees(w, a)
        BY <1>0, <1>1, <1>2, <1>3, <3>1, <4>1 DEF Storing
      <4>2. CASE ~Sees(w, a)
        <5>1. a \notin Published /\ a # n /\ link[a][h] # None /\ link[a][h] = url[n]
          BY <1>1, <1>3, <3>1, <4>2 DEF Sees
        <5>2. PICK v \in Workers : own[v] = a /\ state[a] = "pending"
          BY <1>a, <5>1, UnseenCarried DEF Base
        <5>3. v \in Procs /\ v # w
          BY <1>3, <5>1, <5>2 DEF Procs
        <5>4. Carries(v, url[n])'
          BY <1>1, <3>1, <5>2 DEF Carries
        <5>5. QED
          BY <1>8, <3>0, <5>3, <5>4
      <4>3. QED
        BY <4>1, <4>2
    <3>2. ASSUME NEW q \in Procs, NEW h \in Urls, treated'[q][h] = url'[n]
          PROVE  FALSE
      <4>1. q # w
        BY <1>1, <1>3, <1>4, <3>2 DEF NoHrefs
      <4>2. Carries(q, url[n])'
        BY <3>2 DEF Carries
      <4>3. QED
        BY <1>8, <3>0, <4>1, <4>2
    <3>3. ASSUME NEW q \in Procs, NEW a \in Articles, NEW h \in Urls, pend'[q][a][h] = url'[n]
          PROVE  FALSE
      <4>1. q # w
        BY <1>1, <1>2, <1>3, <3>3
      <4>2. Carries(q, url[n])'
        BY <3>3 DEF Carries
      <4>3. QED
        BY <1>8, <3>0, <4>1, <4>2
    <3>4. ASSUME NEW q \in Procs, seenUrl'[q] = url'[n]
          PROVE  FALSE
      <4>1. q # w
        BY <1>1, <1>3, <1>4, <3>4
      <4>2. Carries(q, url[n])'
        BY <3>4 DEF Carries
      <4>3. QED
        BY <1>8, <3>0, <4>1, <4>2
    <3>5. NotLinked(n)' /\ NotTreated(n)' /\ NotPended(n)' /\ NotSeen(n)'
      BY <3>1, <3>2, <3>3, <3>4 DEF NotLinked, NotTreated, NotPended, NotSeen, Storing
    <3>6. QED
      BY <2>2, <3>5 DEF Clean
  <2>3. QED
    BY <2>1, <2>2
<1>10. QED
  BY <1>7, <1>9, MissedOf DEF LinkInv

\* A commit publishes the article its rows were repointed to.
LEMMA CommitLinks ==
  ASSUME Base, Base', LinkInv, Remembers, NEW w \in Workers, Commit(w)
  PROVE  LinkInv'
<1> USE PipelineAssumption
<1>0. w \in Procs /\ w \notin Admins /\ \A q \in Procs \ {w} : Untouched(q)
  BY WorkerMoves DEF Base, TidyInv, WorkerStep
<1>a. /\ pc \in [Procs -> WorkerPcs \cup AdminPcs]
      /\ pend \in [Procs -> [Articles -> [Urls -> Hrefs \cup {None}]]]
      /\ state \in [Articles -> {"free", "pending", "active", "removed"}]
  BY DEF Base, IInv, TypeInv, SystemOK
<1>1. /\ pc[w] = "commit" /\ pc'[w] = "judge" /\ pend'[w] = NoRows /\ ApplyPend(w)
      /\ UNCHANGED <<url, source, via, treated, own, seenUrl, src>>
      /\ state' = [state EXCEPT ![own[w]] = "active"]
  BY <1>0, <1>a DEF Commit, Goto
<1>n. PICK n \in Articles : n = own[w]
  BY <1>0, <1>1 DEF Base, IInv, TypeInv, LocalsOK
<1>2. /\ own[w] = n /\ own'[w] = n /\ state[n] = "pending" /\ state'[n] = "active" /\ url[n] \in Urls
      /\ \A b \in Articles \ {n} : Same(b)
  BY <1>0, <1>a, <1>1, <1>n DEF Base, IInv, RowInv, OwnState, HasUrl, Same
<1>3. \A b \in Articles, h \in Urls :
         link'[b][h] = IF pend[w][b][h] = None THEN link[b][h] ELSE pend[w][b][h]
  BY <1>1 DEF ApplyPend
<1>4. \A q \in Procs : q # w => Calm(q)
  BY <1>0 DEF Calm
<1>5. \A b \in Articles, h \in Urls : pend'[w][b][h] = None
  BY <1>1 DEF NoRows, NoHrefs
<1>6. Repointed(w)
  BY <1>1, <1>5 DEF Repointed, Removing
<1>7. \A x \in Articles : Sound(x) => Spares(x)
  BY <1>1, <1>2 DEF Sound, Published, Spares, Same
<1>8. ASSUME NEW b \in Articles, NEW h \in Urls, link'[b][h] = n, pend[w][b][h] = n
      PROVE  RowSound(b, h)'
  <2>1. ASSUME NEW p \in Procs, Removing(p, n)'
        PROVE  n \in crossed'
    <3>1. p # w
      BY <1>1, <2>1 DEF Removing
    <3>2. Removing(p, n)
      BY <1>0, <1>1, <2>1, <3>1 DEF Untouched, Removing
    <3>3. Carries(w, n)
      BY <1>8 DEF Carries
    <3>4. n \in crossed
      BY <1>0, <1>2, <3>1, <3>2, <3>3, Crosses DEF LinkInv, DeadInv
    <3>5. QED
      BY <1>2, <3>4 DEF Remembers
  <2>2. \A p \in Procs : Removing(p, n)' => n \in crossed'
    BY <2>1
  <2>3. QED
    BY <1>2, <1>8, <2>2 DEF RowSound, Sound, Removing, Published
<1>9. ASSUME NEW b \in Articles, NEW h \in Urls
      PROVE  link'[b][h] \in {link[b][h], None} \/ RowSound(b, h)'
  <2>1. CASE pend[w][b][h] = None
    BY <1>3, <2>1
  <2>2. CASE pend[w][b][h] # None /\ pend[w][b][h] \in Articles
    <3>1. pend[w][b][h] = n
      BY <1>0, <1>2, <2>2 DEF LinkInv, DeadInv, PendOwn
    <3>2. QED
      BY <1>3, <1>8, <2>2, <3>1
  <2>3. CASE pend[w][b][h] # None /\ pend[w][b][h] \notin Articles
    BY <1>3, <2>3 DEF RowSound
  <2>4. QED
    BY <2>1, <2>2, <2>3
<1>10. DeadInv'
  <2>1. TreatedSound'
    BY <1>1, <1>7, TreatedStays DEF LinkInv
  <2>2. QED
    BY <1>4, <1>6, <1>7, <1>9, <2>1, DeadFrame DEF LinkInv
<1>11. ASSUME NEW b \in Articles, Fresh(b), NEW c \in Articles, NEW h \in Urls, url[b] \in Urls
       PROVE  pend[w][c][h] # url[b]
  BY <1>0, <1>1, <1>11 DEF LinkInv, MissedInv, Clean, NotPended, Removing
<1>12. ASSUME NEW b \in Articles, Fresh(b)'
       PROVE  Clean(b)'
  <2>1. CASE b # n
    <3>1. Keeps(w, b)
      BY <1>1, <1>5, <1>12, PastHasUrlNext DEF Keeps, Storing, Fresh
    <3>2. \A v \in Procs : Storing(v, b) => Untouched(v)
      BY <1>0, <1>2, <2>1 DEF Storing
    <3>3. \A q \in Procs : (Calm(q) \/ Keeps(q, b)) /\ treated'[q] = treated[q] /\ ReadOK(q)
      BY <1>1, <1>4, <3>1 DEF ReadOK
    <3>4. \A c \in Articles, h \in Urls : link'[c][h] \in {link[c][h], None} \/ (Fresh(b) => link'[c][h] # url[b])
      BY <1>3, <1>11, PastHasUrl DEF Fresh
    <3>5. QED
      BY <1>2, <1>12, <2>1, <3>2, <3>3, <3>4, ReadOne, CleanFrame DEF LinkInv, Base
  <2>2. CASE b = n
    <3>1. Fresh(n)
      BY <1>0, <1>1, <1>2, <1>12, <2>2 DEF Fresh, Past, Storing, Remembers
    <3>2. NotLinked(n) /\ NotTreated(n) /\ NotPended(n) /\ NotSeen(n)
      BY <3>1 DEF LinkInv, MissedInv, Clean
    <3>3. ASSUME NEW a \in Articles, NEW h \in Urls, link'[a][h] = url[n]
          PROVE  FALSE
      <4>1. pend[w][a][h] = None /\ link[a][h] = url[n]
        BY <1>2, <1>3, <1>11, <3>1, <3>3
      <4>2. PICK v \in Procs : Storing(v, n) /\ pend[v][a][h] = n
        BY <3>2, <4>1 DEF NotLinked
      <4>3. v = w
        BY <1>0, <1>1, <1>2, <4>2 DEF Storing, Stores, Base, IInv, RowInv, OwnDistinct
      <4>4. QED
        BY <4>1, <4>2, <4>3
    <3>4. NotPended(n)'
      <4>1. \A p \in Procs, a \in Articles, h \in Urls : pend'[p][a][h] # url[n]
        BY <1>0, <1>2, <1>5, <3>2 DEF Untouched, NotPended
      <4>2. QED
        BY <1>1, <4>1 DEF NotPended
    <3>5. NotLinked(n)'
      BY <1>1, <3>3 DEF NotLinked
    <3>6. NotTreated(n)' /\ NotSeen(n)'
      BY <1>1, <3>2 DEF NotTreated, NotSeen
    <3>7. QED
      BY <2>2, <3>4, <3>5, <3>6 DEF Clean
  <2>3. QED
    BY <2>1, <2>2
<1>13. QED
  BY <1>10, <1>12, MissedOf DEF LinkInv

\* A clean-up repoints every row it sees that leads to an article it is about to
\* remove, to that article's URL.
LEMMA RepointLinks ==
  ASSUME Base, Base', LinkInv, Remembers, NEW p \in Admins, PcOK',
         pc[p] \notin Hot, pc'[p] \in {"deleteRemove", "sourceRemove"},
         UNCHANGED <<state, url, source, via, link, treated, own, seenUrl, src>>,
         \A q \in Procs \ {p} : Untouched(q),
         NEW to, Repoint(p, to),
         \A y \in DOMAIN to : to[y] \in Urls,
         \A x \in Articles : state[x] = "active" /\ Removing(p, x)' => x \in DOMAIN to,
         \A y \in DOMAIN to, b \in Articles :
            NotSeen(b) /\ state[b] \in {"pending", "active"} /\ to[y] = url[b] => Removing(p, b)' /\ state[b] = "active"
  PROVE  LinkInv'
<1> USE PipelineAssumption
<1>0. p \in Procs /\ p \notin Workers
  BY DEF Procs
<1>a. /\ pend \in [Procs -> [Articles -> [Urls -> Hrefs \cup {None}]]]
      /\ state \in [Articles -> {"free", "pending", "active", "removed"}]
  BY DEF Base, IInv, TypeInv, SystemOK
<1>1. \A b \in Articles, h \in Urls :
         pend'[p][b][h] = IF Sees(p, b) /\ link[b][h] \in DOMAIN to THEN to[link[b][h]] ELSE None
  BY <1>0, <1>a, RepointedRows
<1>2. \A q \in Procs : q # p => Calm(q)
  BY DEF Calm
<1>3. \A x \in Articles : Sound(x) => Spares(x)
  BY DEF Sound, Published, Spares
<1>4. Repointed(p)
  <2>1. ASSUME NEW b \in Articles, NEW h \in Urls, NEW x \in Articles, link[b][h] = x, state[x] = "active", Removing(p, x)'
        PROVE  pend'[p][b][h] # None \/ x \in crossed'
    <3>1. CASE Sees(p, b)
      BY <1>1, <2>1, <3>1
    <3>2. CASE ~Sees(p, b)
      <4>1. b \notin Published /\ link[b][h] # None
        BY <2>1, <3>2 DEF Sees
      <4>2. PICK v \in Workers : own[v] = b /\ state[b] = "pending"
        BY <1>a, <4>1, UnseenCarried DEF Base
      <4>3. v \in Procs /\ v # p
        BY <1>0, <4>2 DEF Procs
      <4>4. Carries(v, x)'
        BY <2>1, <4>2 DEF Carries
      <4>5. QED
        BY <1>0, <2>1, <4>3, <4>4, CrossesNext DEF Remembers
    <3>3. QED
      BY <3>1, <3>2
  <2>2. \A b \in Articles, h \in Urls : pend'[p][b][h] \notin Articles
    BY <1>1
  <2>3. QED
    BY <2>1, <2>2 DEF Repointed
<1>5. DeadInv'
  <2>1. TreatedSound'
    BY <1>3, TreatedStays DEF LinkInv
  <2>2. QED
    BY <1>2, <1>3, <1>4, <2>1, DeadFrame DEF LinkInv
<1>6. ASSUME NEW b \in Articles, Fresh(b)'
      PROVE  Clean(b)'
  <2>1. state[b] \in {"pending", "active"} /\ url[b] \in Urls
    BY <1>6, PastHasUrlNext DEF Fresh
  <2>2. Fresh(b) => NotSeen(b)
    BY DEF LinkInv, MissedInv, Clean
  <2>3. ASSUME Fresh(b), NEW a \in Articles, NEW h \in Urls, pend'[p][a][h] = url[b]
        PROVE  Removing(p, b)' /\ state'[b] = "active"
    BY <1>1, <2>1, <2>2, <2>3
  <2>4. Keeps(p, b)
    BY <2>3 DEF Keeps, Storing
  <2>5. Same(b) /\ \A v \in Procs : Storing(v, b) => Untouched(v)
    BY DEF Same, Storing, Hot
  <2>6. \A q \in Procs : (Calm(q) \/ Keeps(q, b)) /\ treated'[q] = treated[q] /\ ReadOK(q)
    BY <1>2, <2>4 DEF ReadOK
  <2>7. QED
    BY <1>6, <2>5, <2>6, ReadOne, CleanFrame DEF LinkInv, Base
<1>7. QED
  BY <1>5, <1>6, MissedOf DEF LinkInv

\* A removal commits: the rows it repointed hold URLs again, and a link it did not
\* see is to an article that crossed its removal.
LEMMA RemovalLinks ==
  ASSUME Base, Base', LinkInv, Remembers, NEW p \in Admins,
         pc[p] \in {"deleteRemove", "sourceRemove"}, ApplyPend(p), Cleared(p),
         UNCHANGED <<url, source, via>>,
         \A q \in Procs \ {p} : Untouched(q),
         \A x \in Articles : \/ state'[x] = state[x]
                             \/ Removing(p, x) /\ state[x] \in {"active", "removed"} /\ state'[x] = "removed",
         \A x \in Articles : Removing(p, x) /\ state[x] = "active" => state'[x] = "removed"
  PROVE  LinkInv'
<1> USE PipelineAssumption
<1>0. p \in Procs
  BY DEF Procs
<1>1. \A b \in Articles, h \in Urls :
         link'[b][h] = IF pend[p][b][h] = None THEN link[b][h] ELSE pend[p][b][h]
  BY DEF ApplyPend
<1>2. \A b \in Articles, h \in Urls : pend[p][b][h] \notin Articles
  BY <1>0 DEF LinkInv, DeadInv, PendOwn
<1>3. \A q \in Procs : Calm(q) /\ treated'[q] \in {treated[q], NoHrefs} /\ ReadOK(q)
  BY DEF Calm, Cleared, Untouched, ReadOK
<1>4. \A x \in Published : x \in Published'
  BY DEF Published
<1>5. ASSUME NEW b \in Articles, NEW h \in Urls, NEW x \in Articles, link[b][h] = x, link'[b][h] = x, Sound(x)
      PROVE  Spares(x)
  <2>1. pend[p][b][h] = None
    BY <1>1, <1>2, <1>5
  <2>2. Removing(p, x) => x \in crossed
    BY <1>0, <1>5, <2>1 DEF LinkInv, DeadInv, RowsSound, RowSound, Removing
  <2>3. QED
    BY <1>4, <1>5, <2>2 DEF Spares, Sound
<1>6. ASSUME NEW q \in Procs, NEW h \in Urls, NEW x \in Articles, treated[q][h] = x, Sound(x)
      PROVE  Spares(x)
  <2>1. Removing(p, x) => x \in crossed
    <3>1. treated[p] = NoHrefs
      BY <1>0 DEF Base, TidyInv, Frugal
    <3>2. q # p
      BY <1>6, <3>1 DEF NoHrefs
    <3>3. Carries(q, x)
      BY <1>6 DEF Carries
    <3>4. QED
      BY <1>0, <1>6, <3>2, <3>3, Crosses DEF LinkInv, DeadInv, Sound, Published
  <2>2. QED
    BY <1>4, <1>6, <2>1 DEF Spares, Sound
<1>7. TreatedSound'
  BY <1>3, <1>6, TreatedStays DEF LinkInv
<1>8. \A b \in Articles, h \in Urls : link'[b][h] \in {link[b][h], None} \/ RowSound(b, h)'
  BY <1>1, <1>2 DEF RowSound
<1>9. DeadInv'
  BY <1>3, <1>5, <1>7, <1>8, DeadFrame DEF LinkInv
<1>10. ASSUME NEW b \in Articles, Fresh(b)'
       PROVE  Clean(b)'
  <2>1. state'[b] \in {"pending", "active"}
    BY <1>10, PastHasUrlNext DEF Fresh
  <2>2. Same(b)
    BY <2>1 DEF Same
  <2>3. Fresh(b) => \A a \in Articles, h \in Urls : pend[p][a][h] # url[b]
    BY <1>0, <2>1 DEF LinkInv, MissedInv, Clean, NotPended
  <2>4. \A c \in Articles, h \in Urls : link'[c][h] \in {link[c][h], None} \/ (Fresh(b) => link'[c][h] # url[b])
    BY <1>1, <2>3
  <2>5. \A v \in Procs : Storing(v, b) => Untouched(v)
    BY DEF Storing
  <2>6. QED
    BY <1>3, <1>10, <2>2, <2>4, <2>5, ReadOne, CleanFrame DEF LinkInv, Base
<1>11. QED
  BY <1>9, <1>10, MissedOf DEF LinkInv

\* A step of a discovery worker.
LEMMA WorkerLinks ==
  ASSUME Base, Base', LinkInv, Remembers, NEW w \in Workers, WorkerStep(w)
  PROVE  LinkInv'
<1>0. w \in Procs /\ \A q \in Procs \ {w} : Untouched(q)
  BY WorkerMoves DEF Base, TidyInv
<1>a. /\ pc \in [Procs -> WorkerPcs \cup AdminPcs] /\ own \in [Procs -> Articles \cup {None}]
      /\ treated \in [Procs -> [Urls -> Hrefs \cup {None}]]
  BY DEF Base, IInv, TypeInv, SystemOK
<1>b. ASSUME UNCHANGED <<state, url, source, via, link>>, pc[w] \notin Hot, Reset({w})
      PROVE  LinkInv'
  <2>1. Cleared(w)
    BY <1>0, <1>b, ResetClears
  <2>2. \A q \in Procs : Calm(q) /\ treated'[q] \in {treated[q], NoHrefs} /\ ReadOK(q)
    BY <1>0, <2>1 DEF Calm, ReadOK, Cleared, Untouched
  <2>3. \A v \in Procs, b \in Articles : Storing(v, b) => Untouched(v)
    BY <1>0, <1>b DEF Storing, Hot
  <2>4. QED
    BY <1>b, <2>2, <2>3, ReadsOnly
<1>c. ASSUME UNCHANGED <<state, url, source, via, link, treated, own, seenUrl, pend>>,
             pc[w] \notin Hot, pc'[w] \notin Hot
      PROVE  LinkInv'
  <2>1. \A q \in Procs : Calm(q) /\ treated'[q] \in {treated[q], NoHrefs} /\ ReadOK(q)
    BY <1>0, <1>c DEF Calm, ReadOK
  <2>2. \A v \in Procs, b \in Articles : Storing(v, b) => Untouched(v)
    BY <1>0, <1>c DEF Storing, Hot
  <2>3. QED
    BY <1>c, <2>1, <2>2, ReadsOnly
<1>1. ASSUME NEW i \in Items, Skip(w, i)
      PROVE  LinkInv'
  <2>1. UNCHANGED <<state, url, source, via, link, treated, own, seenUrl, pend>> /\ pc[w] \notin Hot /\ pc'[w] \notin Hot
    BY <1>1 DEF Skip, tables, locals, Hot
  <2>2. QED
    BY <1>c, <2>1
<1>2. ASSUME NEW i \in Items, Take(w, i)
      PROVE  LinkInv'
  <2>1. UNCHANGED <<state, url, source, via, link, treated, own, seenUrl, pend>> /\ pc[w] \notin Hot /\ pc'[w] \notin Hot
    BY <1>0, <1>a, <1>2 DEF Take, Goto, tables, Hot
  <2>2. QED
    BY <1>c, <2>1
<1>3. CASE KeywordsFail(w)
  BY <1>3, <1>b DEF KeywordsFail, tables, Hot
<1>4. CASE FindSource(w)
  <2>1. UNCHANGED <<state, url, source, via, link>> /\ pc[w] = "keywords"
    BY <1>4 DEF FindSource, tables
  <2>2. CASE Reset({w})
    BY <1>b, <2>1, <2>2 DEF Hot
  <2>3. CASE Goto(w, "insert") /\ UNCHANGED <<item, treated, own, seenUrl, src, pend>>
    <3>1. pc'[w] = "insert"
      BY <1>0, <1>a, <2>3 DEF Goto
    <3>2. QED
      BY <1>c, <2>1, <2>3, <3>1 DEF Hot
  <2>4. QED
    BY <1>4, <2>2, <2>3 DEF FindSource
<1>5. CASE LoseInsert(w)
  BY <1>5, <1>b DEF LoseInsert, tables, Hot
<1>6. CASE Judge(w)
  BY <1>6, <1>b DEF Judge, Hot
<1>7. QED
  BY <1>1, <1>2, <1>3, <1>4, <1>5, <1>6, ResolveLinks, InsertLinks, RetargetLinks, CommitLinks DEF WorkerStep

\* A step of an admin request.
LEMMA AdminLinks ==
  ASSUME Base, Base', LinkInv, Remembers, NEW p \in Admins, AdminStep(p)
  PROVE  LinkInv'
<1> USE PipelineAssumption
<1>0. p \in Procs /\ p \notin Workers /\ \A q \in Procs \ {p} : Untouched(q)
  BY AdminMoves DEF Base, TidyInv
<1>a. /\ pc \in [Procs -> WorkerPcs \cup AdminPcs] /\ own \in [Procs -> Articles \cup {None}]
      /\ state \in [Articles -> {"free", "pending", "active", "removed"}]
      /\ url \in [Articles -> Urls \cup {None}] /\ source \in [Articles -> Sources \cup {None}]
      /\ via \in [Articles -> {"sweep", "admin", None}]
      /\ src \in [Procs -> Sources \cup {None}] /\ seenUrl \in [Procs -> Urls \cup {None}]
  BY DEF Base, IInv, TypeInv, SystemOK
<1>b. ASSUME pc[p] \notin Hot, pc'[p] \notin Hot, UNCHANGED <<treated, pend>>, ReadOK(p)
      PROVE  /\ \A q \in Procs : Calm(q) /\ treated'[q] \in {treated[q], NoHrefs} /\ ReadOK(q)
             /\ \A v \in Procs, b \in Articles : Storing(v, b) => Untouched(v)
  BY <1>0, <1>b DEF Calm, ReadOK, Untouched, Storing, Hot
<1>1. ASSUME NEW i \in Items, CreateFindSource(p, i)
      PROVE  LinkInv'
  <2>1. pc[p] \notin Hot /\ pc'[p] \notin Hot /\ UNCHANGED <<treated, pend>> /\ ReadOK(p)
    BY <1>0, <1>a, <1>1 DEF CreateFindSource, Goto, Hot, ReadOK
  <2>2. UNCHANGED <<state, url, source, via, link>>
    BY <1>1 DEF CreateFindSource, tables
  <2>3. QED
    BY <1>b, <2>1, <2>2, ReadsOnly
<1>2. CASE CreateInsert(p)
  <2>1. Cleared(p) /\ pc[p] = "createInsert" /\ UNCHANGED link
    BY <1>0, <1>2, ResetClears DEF CreateInsert
  <2>2. \A q \in Procs : Calm(q) /\ treated'[q] \in {treated[q], NoHrefs} /\ ReadOK(q)
    BY <1>0, <2>1 DEF Calm, ReadOK, Cleared, Untouched
  <2>3. \A v \in Procs, b \in Articles : Storing(v, b) => Untouched(v)
    BY <1>0, <2>1 DEF Storing
  <2>4. CASE UNCHANGED <<state, url, source, body, via>>
    BY <2>1, <2>2, <2>3, <2>4, ReadsOnly
  <2>5. ASSUME NEW a \in Articles, state[a] = "free", state' = [state EXCEPT ![a] = "active"],
               NEW u, url' = [url EXCEPT ![a] = u], NEW s, source' = [source EXCEPT ![a] = s],
               via' = [via EXCEPT ![a] = "admin"]
        PROVE  LinkInv'
    <3>1. \A x \in Published : state'[x] = state[x] /\ source'[x] = source[x]
      BY <1>a, <2>5 DEF Published
    <3>2. \A b \in Articles : Same(b) \/ (state'[b] = "active" /\ via'[b] = "admin")
      BY <1>a, <2>5 DEF Same
    <3>3. QED
      BY <2>1, <2>2, <2>3, <3>1, <3>2, EditsLinks
  <2>6. QED
    BY <1>2, <2>4, <2>5 DEF CreateInsert
<1>3. ASSUME NEW a \in Articles, NEW i \in Items, UpdateArticle(a, i)
      PROVE  LinkInv'
  <2>1. UNCHANGED <<link, state, source, locals>> /\ state[a] = "active"
        /\ url' = [url EXCEPT ![a] = ItemUrl[i]] /\ via' = [via EXCEPT ![a] = "admin"]
    BY <1>3 DEF UpdateArticle
  <2>2. \A q \in Procs : Calm(q) /\ treated'[q] \in {treated[q], NoHrefs} /\ ReadOK(q)
    BY <2>1 DEF Calm, Untouched, ReadOK, locals
  <2>3. \A v \in Procs, b \in Articles : Storing(v, b) => Untouched(v)
    BY <2>1 DEF Untouched, locals
  <2>4. \A b \in Articles : Same(b) \/ (state'[b] = "active" /\ via'[b] = "admin")
    BY <1>a, <2>1 DEF Same
  <2>5. QED
    BY <2>1, <2>2, <2>3, <2>4, EditsLinks
<1>4. ASSUME NEW a \in Articles, DeleteFind(p, a)
      PROVE  LinkInv'
  <2>1. pc[p] \notin Hot /\ pc'[p] \notin Hot /\ UNCHANGED <<treated, pend>> /\ ReadOK(p)
    BY <1>0, <1>a, <1>4 DEF DeleteFind, Goto, Hot, ReadOK
  <2>2. UNCHANGED <<state, url, source, via, link>>
    BY <1>4 DEF DeleteFind, tables
  <2>3. QED
    BY <1>b, <2>1, <2>2, ReadsOnly
<1>5. CASE DeleteRetarget(p)
  <2>1. /\ pc[p] = "deleteRetarget" /\ pc'[p] = "deleteRemove"
        /\ UNCHANGED <<state, url, source, via, link, treated, own, seenUrl, src>>
    BY <1>0, <1>a, <1>5 DEF DeleteRetarget, Goto, tables
  <2>2. own[p] \in Articles /\ seenUrl[p] \in Urls /\ state[own[p]] \in {"active", "removed"}
    BY <1>0, <2>1 DEF Base, IInv, TypeInv, LocalsOK, RowInv, OwnState, TidyInv, Frugal
  <2> DEFINE to == [x \in {own[p]} |-> seenUrl[p]]
  <2>3. Repoint(p, to) /\ \A y \in DOMAIN to : to[y] \in Urls
    BY <1>5, <2>2 DEF DeleteRetarget
  <2>4. \A x \in Articles : Removing(p, x)' => x \in DOMAIN to
    BY <2>1 DEF Removing
  <2>5. \A y \in DOMAIN to, b \in Articles :
            NotSeen(b) /\ state[b] \in {"pending", "active"} /\ to[y] = url[b] => Removing(p, b)' /\ state[b] = "active"
    BY <1>0, <2>1, <2>2 DEF NotSeen, Removing
  <2>6. pc[p] \notin Hot /\ PcOK'
    BY <2>1 DEF Hot, Base, TidyInv
  <2> HIDE DEF to
  <2>7. QED
    BY <1>0, <2>1, <2>3, <2>4, <2>5, <2>6, RepointLinks
<1>6. CASE DeleteRemove(p)
  <2>1. /\ pc[p] = "deleteRemove" /\ ApplyPend(p) /\ Cleared(p) /\ UNCHANGED <<url, source, via>>
        /\ state' = [state EXCEPT ![own[p]] = "removed"]
    BY <1>0, <1>6, ResetClears DEF DeleteRemove
  <2>2. own[p] \in Articles /\ state[own[p]] \in {"active", "removed"}
    BY <1>0, <2>1 DEF Base, IInv, TypeInv, LocalsOK, RowInv, OwnState
  <2>3. \A x \in Articles : \/ state'[x] = state[x]
                            \/ Removing(p, x) /\ state[x] \in {"active", "removed"} /\ state'[x] = "removed"
    BY <1>a, <2>1, <2>2 DEF Removing
  <2>4. \A x \in Articles : Removing(p, x) /\ state[x] = "active" => state'[x] = "removed"
    BY <1>a, <2>1 DEF Removing
  <2>5. QED
    BY <1>0, <2>1, <2>3, <2>4, RemovalLinks
<1>7. ASSUME NEW s \in Sources, SourceFind(p, s)
      PROVE  LinkInv'
  <2>1. pc[p] \notin Hot /\ pc'[p] \notin Hot /\ UNCHANGED <<treated, pend>> /\ ReadOK(p)
    BY <1>0, <1>a, <1>7 DEF SourceFind, Goto, Hot, ReadOK
  <2>2. UNCHANGED <<state, url, source, via, link>>
    BY <1>7 DEF SourceFind, tables
  <2>3. QED
    BY <1>b, <2>1, <2>2, ReadsOnly
<1>8. CASE SourceRetarget(p)
  <2>1. /\ pc[p] = "sourceRetarget" /\ pc'[p] = "sourceRemove"
        /\ UNCHANGED <<state, url, source, via, link, treated, own, seenUrl, src>>
    BY <1>0, <1>a, <1>8 DEF SourceRetarget, Goto, tables
  <2> DEFINE to == [x \in ActiveOf(src[p]) |-> url[x]]
  <2>2. Repoint(p, to) /\ \A y \in DOMAIN to : to[y] \in Urls
    BY <1>8 DEF SourceRetarget, ActiveOf, Base, HasUrl
  <2>3. \A x \in Articles : state[x] = "active" /\ Removing(p, x)' => x \in DOMAIN to
    BY <2>1 DEF Removing, ActiveOf
  <2>4. \A y \in DOMAIN to, b \in Articles :
            NotSeen(b) /\ state[b] \in {"pending", "active"} /\ to[y] = url[b] => Removing(p, b)' /\ state[b] = "active"
    <3>1. ASSUME NEW y \in DOMAIN to, NEW b \in Articles, state[b] \in {"pending", "active"}, to[y] = url[b]
          PROVE  Removing(p, b)' /\ state[b] = "active"
      <4>1. y \in Articles /\ state[y] = "active" /\ source[y] = src[p] /\ url[y] = url[b]
        BY <3>1 DEF ActiveOf
      <4>2. y = b
        BY <3>1, <4>1 DEF Base, IInv, RowInv, IndexUnique
      <4>3. QED
        BY <2>1, <4>1, <4>2 DEF Removing
    <3>2. QED
      BY <3>1
  <2>5. pc[p] \notin Hot /\ PcOK'
    BY <2>1 DEF Hot, Base, TidyInv
  <2> HIDE DEF to
  <2>6. QED
    BY <1>0, <2>1, <2>2, <2>3, <2>4, <2>5, RepointLinks
<1>9. CASE SourceRemove(p)
  <2>1. /\ pc[p] = "sourceRemove" /\ ApplyPend(p) /\ Cleared(p) /\ UNCHANGED <<url, source, via>>
        /\ state' = [a \in Articles |-> IF a \in ActiveOf(src[p]) THEN "removed" ELSE state[a]]
    BY <1>0, <1>9, ResetClears DEF SourceRemove
  <2>2. \A x \in Articles : \/ state'[x] = state[x]
                            \/ Removing(p, x) /\ state[x] \in {"active", "removed"} /\ state'[x] = "removed"
    BY <2>1 DEF Removing, ActiveOf
  <2>3. src[p] \in Sources
    BY <1>0, <2>1 DEF Base, IInv, TypeInv, LocalsOK
  <2>4. \A x \in Articles : Removing(p, x) /\ state[x] = "active" => state'[x] = "removed"
    BY <2>1 DEF Removing, ActiveOf
  <2>5. QED
    BY <1>0, <2>1, <2>2, <2>4, RemovalLinks
<1>10. QED
  BY <1>1, <1>2, <1>3, <1>4, <1>5, <1>6, <1>7, <1>8, <1>9 DEF AdminStep

\* Whatever the step.
LEMMA NextLinks == Base /\ Base' /\ LinkInv /\ [Next]_vars => LinkInv'
<1> SUFFICES ASSUME Base, Base', LinkInv, [Next]_vars
             PROVE  LinkInv'
  OBVIOUS
<1>1. CASE UNCHANGED vars
  <2>1. /\ UNCHANGED <<state, url, source, via, link>> /\ UNCHANGED <<pc, treated, own, seenUrl, src, pend>>
        /\ UNCHANGED <<crossed, missed>>
    BY <1>1 DEF vars, system, races, tables, locals
  <2>2. TreatedSound' = TreatedSound /\ RowsSound' = RowsSound /\ PendOwn' = PendOwn /\ CrossOK' = CrossOK
    BY <2>1 DEF TreatedSound, RowsSound, RowSound, PendOwn, CrossOK, Crossing, Sound, Published, Removing, Carries
  <2>3. MissedInv' = MissedInv
    BY <2>1 DEF MissedInv, PassOK, Passing, Carries, Fresh, Past, Clean, NotLinked, NotTreated, NotPended, NotSeen, Storing, Removing
  <2>4. QED
    BY <2>2, <2>3 DEF LinkInv, DeadInv
<1>2. CASE Next
  <2>0. Remembers
    BY <1>2, RememberNext DEF Next
  <2>1. ASSUME NEW w \in Workers, WorkerStep(w)
        PROVE  LinkInv'
    BY <2>0, <2>1, WorkerLinks
  <2>2. ASSUME NEW p \in Admins, AdminStep(p)
        PROVE  LinkInv'
    BY <2>0, <2>2, AdminLinks
  <2>3. ASSUME NEW P \in SUBSET Procs, Abort(P)
        PROVE  LinkInv'
    BY <2>0, <2>3, AbortLinks
  <2>4. CASE StartSweep
    <3>1. UNCHANGED <<state, url, source, via, link>> /\ \A q \in Procs : Untouched(q)
      BY <2>4 DEF StartSweep, tables, locals, Untouched
    <3>2. QED
      BY <2>0, <3>1, ReadsOnly DEF Calm, ReadOK, Untouched
  <2>5. QED
    BY <1>2, <2>1, <2>2, <2>3, <2>4 DEF Next, Step, Rollback, Crash
<1>3. QED
  BY <1>1, <1>2

LEMMA InitLinks == Init => LinkInv
<1> SUFFICES ASSUME Init
             PROVE  LinkInv
  OBVIOUS
<1> USE PipelineAssumption
<1>1. /\ \A p \in Procs : /\ pc[p] = "idle" /\ seenUrl[p] = None
                          /\ \A h \in Urls : treated[p][h] = None
                          /\ \A a \in Articles, h \in Urls : pend[p][a][h] = None
      /\ \A a \in Articles, h \in Urls : link[a][h] = None
      /\ \A a \in Articles : state[a] = "free"
  BY DEF Init, NoRows, NoHrefs
<1>2. RowsSound /\ TreatedSound /\ PendOwn
  BY <1>1 DEF RowsSound, RowSound, TreatedSound, PendOwn
<1>3. CrossOK /\ PassOK
  BY <1>1 DEF CrossOK, PassOK, Crossing, Passing
<1>4. \A b \in Articles : ~Past(b)
  BY <1>1 DEF Past, Storing
<1>5. QED
  BY <1>2, <1>3, <1>4 DEF LinkInv, DeadInv, MissedInv, Fresh

\* The invariants hold in every state.
LEMMA LinksInvariance == Spec => [](Base /\ LinkInv)
<1>1. Init => Base /\ LinkInv
  BY InitType, InitRow, InitUrl, InitTidy, InitLinks DEF Base, IInv
<1>2. Base /\ LinkInv /\ [Next]_vars => Base' /\ LinkInv'
  <2>1. Base /\ [Next]_vars => Base'
    BY SystemSteps, NextInv, NextUrl, NextTidy DEF Base
  <2>2. QED
    BY <2>1, NextLinks
<1>3. QED
  BY <1>1, <1>2, PTL DEF Spec

\* A link from a served body to a removed article was on its way to its row, in the
\* locals or in the open transaction of another process, while a removal that had
\* repointed the links to that article was about to commit (articles.go and
\* sources.go SoftDelete): nothing else defeats the clean-up.
THEOREM LinksStayLive == Spec => []NoDeadLinkUnlessCrossed
<1>1. LinkInv => NoDeadLinkUnlessCrossed
  BY DEF LinkInv, DeadInv, RowsSound, RowSound, Sound, NoDeadLinkUnlessCrossed
<1>2. QED
  BY <1>1, LinksInvariance, PTL

\* A link to the URL of an article the pipeline stored opens it, whichever came
\* first (processor.go persist), unless its look-up failed or it was on its way to
\* its row while that article, its links already repointed, was about to be
\* committed.
THEOREM LinksAreRetro == Spec => []NoMissedLinkUnlessPassed
<1>1. Base /\ LinkInv => NoMissedLinkUnlessPassed
  <2> SUFFICES ASSUME Base, LinkInv, NEW a \in Articles, NEW b \in Articles, NEW h \in Urls,
                      state[b] = "active", via[b] = "sweep", link[a][h] = url[b], b \notin missed
               PROVE  FALSE
    BY DEF NoMissedLinkUnlessPassed
  <2>1. Fresh(b)
    BY DEF Fresh, Past
  <2>2. PICK w \in Procs : Storing(w, b)
    BY <2>1 DEF LinkInv, MissedInv, Clean, NotLinked
  <2>3. QED
    BY <2>2 DEF Storing, Base, IInv, RowInv, OwnState
<1>2. QED
  BY <1>1, LinksInvariance, PTL

\* The removal of a source takes all its served articles in the same commit
\* (sources.go SoftDelete), so that the only active article of a removed source is
\* one stored after it.
THEOREM SourcesTakeTheirArticles == Spec => SourceTakesItsArticles
<1>1. TypeInv /\ [Next]_vars =>
        [\A a \in Articles : state[a] = "active" /\ sourceUp[source[a]] /\ ~sourceUp'[source[a]]
             => state'[a] = "removed"]_vars
  <2> SUFFICES ASSUME TypeInv, Step, NEW a \in Articles,
                      state[a] = "active", sourceUp[source[a]], ~sourceUp'[source[a]]
               PROVE  state'[a] = "removed"
    BY DEF Next
  <2>1. PICK p \in Admins : SourceRemove(p)
    BY DEF Step, StartSweep, Rollback, Crash, Abort, tables,
           WorkerStep, Skip, Take, ResolveInternalURLs, KeywordsFail, FindSource, LoseInsert, Insert, Retarget, Commit, Judge,
           AdminStep, CreateFindSource, CreateInsert, UpdateArticle, DeleteFind, DeleteRetarget, DeleteRemove,
           SourceFind, SourceRetarget
  <2>2. source[a] = src[p]
    BY <2>1 DEF SourceRemove, TypeInv, SystemOK
  <2>3. QED
    BY <2>1, <2>2 DEF SourceRemove, ActiveOf
<1>2. Init => TypeInv
  BY InitType
<1>3. TypeInv /\ [Next]_vars => TypeInv'
  BY NextType, SystemSteps
<1>4. QED
  BY <1>1, <1>2, <1>3, PTL DEF Spec, SourceTakesItsArticles
=============================================================================
