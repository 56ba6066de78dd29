------------------------------- MODULE Pipeline -------------------------------
(***************************************************************************)
(* The life of an article: the discovery pipeline that turns feed items    *)
(* into rows (services/discovery/processor.go) and the admin endpoints     *)
(* that create, edit and remove articles and sources, all running against  *)
(* one PostgreSQL database.                                                *)
(*                                                                         *)
(* Every transaction runs at READ COMMITTED (BeginTx(ctx, nil)), so the    *)
(* grain is the SQL statement: a statement sees what is committed when it  *)
(* starts plus its own transaction's writes, an UPDATE locks the rows it   *)
(* touches until commit, and an INSERT whose key is held by an uncommitted *)
(* row waits for that transaction.                                         *)
(*                                                                         *)
(* Simplifications: a transaction's last write and its COMMIT are one      *)
(* step; the lookups of one resolveInternalURLs call are one step; a       *)
(* statement that has to wait is taken to start when the wait ends; titles,*)
(* keywords, languages and markup are left out.  Article ids come from a   *)
(* finite pool (Articles): with none left an INSERT fails like any other   *)
(* database error.                                                         *)
(***************************************************************************)
EXTENDS Naturals, FiniteSets

CONSTANTS
    Workers,       \* goroutines of TreatmentProcessor.Process
    Admins,        \* concurrent admin requests
    Articles,      \* the pool of article ids
    Urls,          \* original URLs, also the external hrefs of bodies
    Sources,
    Items,         \* feed items; two items may carry the same URL
    ItemUrl,       \* [Items -> Urls]
    ItemSource,    \* [Items -> Sources]
    ItemHrefs,     \* [Items -> SUBSET Urls]: the anchors of an item's body
    AdminOps,      \* the admin operations in use
    Faults,        \* the failures that may happen
    None,          \* no row, no href, no article
    IdRef          \* an anchor that holds an outbound-link id

AllAdminOps == {"create", "update", "delete", "deleteSource"}
AllFaults   == {"db", "resolve", "keywords", "assign", "crash"}

ASSUME PipelineAssumption ==
    /\ Workers \cap Admins = {}
    /\ Articles \cap Urls = {}
    /\ None \notin Articles \cup Urls \cup Sources \cup Items
    /\ IdRef \notin Articles \cup Urls \cup {None}
    /\ ItemUrl \in [Items -> Urls]
    /\ ItemSource \in [Items -> Sources]
    /\ ItemHrefs \in [Items -> SUBSET Urls]
    /\ AdminOps \subseteq AllAdminOps
    /\ Faults \subseteq AllFaults

Procs == Workers \cup Admins

\* An href: an external URL, or the internal page of an article (the token
\* form {CLIENT_URL}/articles/{id} that outboundlinks.InternalHref builds).
Hrefs == Urls \cup Articles

NoHrefs == [h \in Urls |-> None]
NoRows  == [b \in Articles |-> NoHrefs]

VARIABLES
    \* the tables
    sourceUp,  \* sourceUp[s]: status = TRUE and removed_at IS NULL
    state,     \* state[a]: "free", "pending" (uncommitted), "active", "removed"
    url,       \* url[a]: articles.url_original
    source,    \* source[a]: articles.source_id
    body,      \* body[a][h]: what the anchor the author wrote as h holds now
    link,      \* link[a][h]: href of the outbound row of that anchor, or None
    via,       \* via[a]: who wrote url[a] last, "sweep" or "admin" (history)
    judged,    \* judged[a]: how many times a was handed to judge (history)
    \* the processes
    batch,     \* items of the running sweep not yet taken by a worker
    pc,
    item,      \* item[p]: the item being stored
    treated,   \* treated[w][h]: href of anchor h after url treatment
    own,       \* own[p]: the article a process works on
    seenUrl,   \* seenUrl[p]: url_original as DeleteArticle read it
    src,       \* src[p]: the source DeleteSource removes
    pend,      \* pend[p][a][h]: new href of a row p's transaction has updated
    \* what overlapped with what (history, see Remember)
    crossed,   \* articles removed while a link to them was on its way to a row
    missed     \* live articles stored while a link to their URL was on its way

tables == <<sourceUp, state, url, source, body, link, via, judged>>
locals == <<pc, item, treated, own, seenUrl, src, pend>>
races  == <<crossed, missed>>
system == <<tables, batch, locals>>
vars   == <<system, races>>

WorkerPcs == {"idle", "treat", "keywords", "insert", "retarget", "commit", "judge"}
AdminPcs  == {"idle", "createInsert", "deleteRetarget", "deleteRemove", "sourceRetarget", "sourceRemove"}

Init ==
    /\ sourceUp = [s \in Sources |-> TRUE]
    /\ state = [a \in Articles |-> "free"]
    /\ url = [a \in Articles |-> None]
    /\ source = [a \in Articles |-> None]
    /\ body = NoRows
    /\ link = NoRows
    /\ via = [a \in Articles |-> None]
    /\ judged = [a \in Articles |-> 0]
    /\ batch = {}
    /\ pc = [p \in Procs |-> "idle"]
    /\ item = [p \in Procs |-> None]
    /\ treated = [p \in Procs |-> NoHrefs]
    /\ own = [p \in Procs |-> None]
    /\ seenUrl = [p \in Procs |-> None]
    /\ src = [p \in Procs |-> None]
    /\ pend = [p \in Procs |-> NoRows]
    /\ crossed = {}
    /\ missed = {}

----------------------------------------------------------------------------
(* What a statement sees.                                                  *)

Published == {a \in Articles : state[a] \in {"active", "removed"}}

\* FindArticleByURLOriginal: committed, active articles only.
FindByURLOriginal(u) == {a \in Articles : state[a] = "active" /\ url[a] = u}

\* The row of that query (LIMIT 1), or None.
Lookup(u) == IF FindByURLOriginal(u) = {} THEN None
             ELSE CHOOSE a \in FindByURLOriginal(u) : TRUE

\* The holders of u in the partial unique index on url_original: active rows
\* and the uncommitted rows of other transactions, which an INSERT waits for.
\* Mutation: the application looks before it inserts, and there is no index.
IndexHolders_CommittedOnly(u) == {a \in Articles : state[a] = "active" /\ url[a] = u}

IndexHolders(u) == {a \in Articles : state[a] \in {"active", "pending"} /\ url[a] = u}

\* No transaction in flight holds u, so an INSERT or UPDATE of u need not wait.
NoWait(u) == \A a \in IndexHolders(u) : state[a] = "active"

\* The outbound rows p's transaction sees: those of published articles and
\* those of the article it is inserting.
Sees(p, b) == b \in Published \/ b = own[p]

\* The rows p sees whose href is one of H.
RowsTo(p, H) == {r \in Articles \X Urls : Sees(p, r[1]) /\ link[r[1]][r[2]] \in H}

Unlocked(p, R) == \A q \in Procs \ {p}, r \in R : pend[q][r[1]][r[2]] = None

(* UPDATE article_outbound_links SET href = to[href] WHERE href IN DOMAIN to:
   waits for the row locks of other transactions, then holds its own.
   Mutation: the WHERE is forgotten. *)
Repoint_EveryRow(p, to) ==
    /\ Unlocked(p, RowsTo(p, Hrefs))
    /\ \E y \in {to[x] : x \in DOMAIN to} :
         pend' = [pend EXCEPT ![p] = [b \in Articles |-> [h \in Urls |->
                   IF <<b, h>> \in RowsTo(p, Hrefs) THEN y ELSE None]]]

Repoint(p, to) ==
    LET R == RowsTo(p, DOMAIN to) IN
    /\ Unlocked(p, R)
    /\ pend' = [pend EXCEPT ![p] = [b \in Articles |-> [h \in Urls |->
                  IF <<b, h>> \in R THEN to[link[b][h]] ELSE None]]]

\* The rows p's transaction updated take their new href at its commit.
ApplyPend(p) ==
    link' = [b \in Articles |-> [h \in Urls |->
               IF pend[p][b][h] = None THEN link[b][h] ELSE pend[p][b][h]]]

\* The processes of P are done with their item or request.
Reset(P) ==
    /\ pc' = [p \in Procs |-> IF p \in P THEN "idle" ELSE pc[p]]
    /\ item' = [p \in Procs |-> IF p \in P THEN None ELSE item[p]]
    /\ treated' = [p \in Procs |-> IF p \in P THEN NoHrefs ELSE treated[p]]
    /\ own' = [p \in Procs |-> IF p \in P THEN None ELSE own[p]]
    /\ seenUrl' = [p \in Procs |-> IF p \in P THEN None ELSE seenUrl[p]]
    /\ src' = [p \in Procs |-> IF p \in P THEN None ELSE src[p]]
    /\ pend' = [p \in Procs |-> IF p \in P THEN NoRows ELSE pend[p]]

Goto(p, label) == pc' = [pc EXCEPT ![p] = label]

----------------------------------------------------------------------------
(* One discovery sweep.                                                    *)

Quiet == batch = {} /\ \A w \in Workers : pc[w] = "idle"

\* DiscoveryRunner.Run: never two sweeps at once (SkipIfStillRunning); the
\* sources are the active ones, and any of them may fail to fetch.
StartSweep ==
    /\ Quiet
    /\ \E fetched \in SUBSET {s \in Sources : sourceUp[s]} :
         batch' = {i \in Items : ItemSource[i] \in fetched}
    /\ UNCHANGED <<tables, locals>>

\* alreadyExists: skip an item whose URL is stored (or whose lookup failed).
Skip(w, i) ==
    /\ pc[w] = "idle" /\ i \in batch
    /\ FindByURLOriginal(ItemUrl[i]) # {} \/ "db" \in Faults
    /\ batch' = batch \ {i}
    /\ UNCHANGED <<tables, locals>>

Take(w, i) ==
    /\ pc[w] = "idle" /\ i \in batch
    /\ FindByURLOriginal(ItemUrl[i]) = {}
    /\ batch' = batch \ {i}
    /\ item' = [item EXCEPT ![w] = i]
    /\ Goto(w, "treat")
    /\ UNCHANGED <<tables, treated, own, seenUrl, src, pend>>

\* urltreatment.Treat with resolveInternalURLs: an anchor whose href is the URL
\* of a stored article becomes internal.  On a lookup error the body keeps its
\* external hrefs.
ResolveInternalURLs(w) ==
    /\ pc[w] = "treat"
    /\ LET anchors == ItemHrefs[item[w]]
           plain == [h \in Urls |-> IF h \in anchors THEN h ELSE None]
       IN \/ treated' = [treated EXCEPT ![w] = [h \in Urls |->
                 IF h \in anchors /\ Lookup(h) # None THEN Lookup(h) ELSE plain[h]]]
          \/ /\ "resolve" \in Faults
             /\ treated' = [treated EXCEPT ![w] = plain]
    /\ Goto(w, "keywords")
    /\ UNCHANGED <<tables, batch, item, own, seenUrl, src, pend>>

\* The AI failed to name keywords: the item is dropped until the next sweep.
KeywordsFail(w) ==
    /\ pc[w] = "keywords" /\ "keywords" \in Faults
    /\ Reset({w})
    /\ UNCHANGED <<tables, batch>>

\* persist begins; ArticleController.Create first looks up the source.  An
\* inactive one is ErrArticleSourceInvalid.
FindSource(w) ==
    /\ pc[w] = "keywords"
    /\ \/ /\ sourceUp[ItemSource[item[w]]]
          /\ Goto(w, "insert")
          /\ UNCHANGED <<item, treated, own, seenUrl, src, pend>>
       \/ /\ ~sourceUp[ItemSource[item[w]]]
          /\ Reset({w})
    /\ UNCHANGED <<tables, batch>>

\* The INSERT meets the unique index: ErrArticleAlreadyExists, the item is
\* dropped before judgement.  Mutation: the winner's row is judged again.
LoseInsert_StillJudges(w) ==
    /\ pc[w] = "insert"
    /\ NoWait(ItemUrl[item[w]])
    /\ \E a \in IndexHolders(ItemUrl[item[w]]) : own' = [own EXCEPT ![w] = a]
    /\ Goto(w, "judge")
    /\ UNCHANGED <<tables, batch, item, treated, seenUrl, src, pend>>

LoseInsert(w) ==
    /\ pc[w] = "insert"
    /\ NoWait(ItemUrl[item[w]])
    /\ IndexHolders(ItemUrl[item[w]]) # {}
    /\ Reset({w})
    /\ UNCHANGED <<tables, batch>>

Ids(hrefs) == [h \in Urls |-> IF hrefs[h] = None THEN None ELSE IdRef]

\* Assign: one outbound row per distinct href, the body's anchors rewritten to
\* the rows' ids.  If Assign fails the body keeps its hrefs and there are no
\* rows.  Mutation: the rows' INSERTs are best effort as well.
Assign_RowsBestEffort(w, a) ==
    \/ /\ link' = [link EXCEPT ![a] = treated[w]]
       /\ body' = [body EXCEPT ![a] = Ids(treated[w])]
    \/ /\ "db" \in Faults
       /\ body' = [body EXCEPT ![a] = Ids(treated[w])]
       /\ link' = link

Assign(w, a) ==
    \/ /\ link' = [link EXCEPT ![a] = treated[w]]
       /\ body' = [body EXCEPT ![a] = Ids(treated[w])]
    \/ /\ "assign" \in Faults
       /\ body' = [body EXCEPT ![a] = treated[w]]
       /\ link' = link

Insert(w) ==
    /\ pc[w] = "insert"
    /\ IndexHolders(ItemUrl[item[w]]) = {}
    /\ \E a \in Articles :
         /\ state[a] = "free"
         /\ state' = [state EXCEPT ![a] = "pending"]
         /\ url' = [url EXCEPT ![a] = ItemUrl[item[w]]]
         /\ source' = [source EXCEPT ![a] = ItemSource[item[w]]]
         /\ via' = [via EXCEPT ![a] = "sweep"]
         /\ own' = [own EXCEPT ![w] = a]
         /\ Assign(w, a)
    /\ item' = [item EXCEPT ![w] = None]
    /\ treated' = [treated EXCEPT ![w] = NoHrefs]
    /\ Goto(w, "retarget")
    /\ UNCHANGED <<sourceUp, judged, batch, seenUrl, src, pend>>

\* Retroactive linking: the rows that hold the new article's URL open it
\* internally from now on.  Mutation: only new bodies are linked.
Retarget_None(w) ==
    /\ pc[w] = "retarget"
    /\ Goto(w, "commit")
    /\ UNCHANGED <<tables, batch, item, treated, own, seenUrl, src, pend>>

Retarget(w) ==
    /\ pc[w] = "retarget"
    /\ Repoint(w, [x \in {url[own[w]]} |-> own[w]])
    /\ Goto(w, "commit")
    /\ UNCHANGED <<tables, batch, item, treated, own, seenUrl, src>>

Commit(w) ==
    /\ pc[w] = "commit"
    /\ state' = [state EXCEPT ![own[w]] = "active"]
    /\ ApplyPend(w)
    /\ pend' = [pend EXCEPT ![w] = NoRows]
    /\ Goto(w, "judge")
    /\ UNCHANGED <<sourceUp, url, source, body, via, judged, batch, item, treated, own, seenUrl, src>>

\* judge runs after the commit, outside the transaction (module Feeds).
Judge(w) ==
    /\ pc[w] = "judge"
    /\ judged' = [judged EXCEPT ![own[w]] = @ + 1]
    /\ Reset({w})
    /\ UNCHANGED <<sourceUp, state, url, source, body, link, via, batch>>

----------------------------------------------------------------------------
(* The admin endpoints.                                                    *)

\* CreateArticle: ArticleController.Create and nothing else, the body as given.
CreateFindSource(p, i) ==
    /\ pc[p] = "idle" /\ "create" \in AdminOps
    /\ sourceUp[ItemSource[i]]
    /\ item' = [item EXCEPT ![p] = i]
    /\ Goto(p, "createInsert")
    /\ UNCHANGED <<tables, batch, treated, own, seenUrl, src, pend>>

CreateInsert(p) ==
    LET i == item[p] IN
    /\ pc[p] = "createInsert"
    /\ NoWait(ItemUrl[i])
    /\ \/ /\ IndexHolders(ItemUrl[i]) # {}
          /\ UNCHANGED <<state, url, source, body, via>>
       \/ /\ IndexHolders(ItemUrl[i]) = {}
          /\ \E a \in Articles :
               /\ state[a] = "free"
               /\ state' = [state EXCEPT ![a] = "active"]
               /\ url' = [url EXCEPT ![a] = ItemUrl[i]]
               /\ source' = [source EXCEPT ![a] = ItemSource[i]]
               /\ via' = [via EXCEPT ![a] = "admin"]
               /\ body' = [body EXCEPT ![a] = [h \in Urls |->
                             IF h \in ItemHrefs[i] THEN h ELSE None]]
    /\ Reset({p})
    /\ UNCHANGED <<sourceUp, link, judged, batch>>

\* UpdateArticle overwrites the URL and the body of an active article; its
\* outbound rows stay as they are.  A URL another article holds is a 409.
UpdateArticle(a, i) ==
    /\ "update" \in AdminOps
    /\ state[a] = "active"
    /\ IndexHolders(ItemUrl[i]) \subseteq {a}
    /\ url' = [url EXCEPT ![a] = ItemUrl[i]]
    /\ via' = [via EXCEPT ![a] = "admin"]
    /\ body' = [body EXCEPT ![a] = [h \in Urls |-> IF h \in ItemHrefs[i] THEN h ELSE None]]
    /\ UNCHANGED <<sourceUp, state, source, link, judged, batch, locals>>

\* DeleteArticle: FindByID, Retarget to the URL it read, SoftDelete.
DeleteFind(p, a) ==
    /\ pc[p] = "idle" /\ "delete" \in AdminOps
    /\ state[a] = "active"
    /\ own' = [own EXCEPT ![p] = a]
    /\ seenUrl' = [seenUrl EXCEPT ![p] = url[a]]
    /\ Goto(p, "deleteRetarget")
    /\ UNCHANGED <<tables, batch, item, treated, src, pend>>

DeleteRetarget(p) ==
    /\ pc[p] = "deleteRetarget"
    /\ Repoint(p, [x \in {own[p]} |-> seenUrl[p]])
    /\ Goto(p, "deleteRemove")
    /\ UNCHANGED <<tables, batch, item, treated, own, seenUrl, src>>

DeleteRemove(p) ==
    /\ pc[p] = "deleteRemove"
    /\ state' = [state EXCEPT ![own[p]] = "removed"]
    /\ ApplyPend(p)
    /\ Reset({p})
    /\ UNCHANGED <<sourceUp, url, source, body, via, judged, batch>>

\* DeleteSource: FindByID, then SourceController.SoftDelete: the source row
\* (locked until commit), the links to its articles, the articles.
SourceFind(p, s) ==
    /\ pc[p] = "idle" /\ "deleteSource" \in AdminOps
    /\ sourceUp[s]
    /\ src' = [src EXCEPT ![p] = s]
    /\ Goto(p, "sourceRetarget")
    /\ UNCHANGED <<tables, batch, item, treated, own, seenUrl, pend>>

ActiveOf(s) == {a \in Articles : state[a] = "active" /\ source[a] = s}

\* Mutation: the cascade removes the articles and leaves the links to them.
SourceRetarget_None(p) ==
    /\ pc[p] = "sourceRetarget"
    /\ \A q \in Admins : ~(pc[q] = "sourceRemove" /\ src[q] = src[p])
    /\ Goto(p, "sourceRemove")
    /\ UNCHANGED <<tables, batch, item, treated, own, seenUrl, src, pend>>

SourceRetarget(p) ==
    /\ pc[p] = "sourceRetarget"
    /\ \A q \in Admins : ~(pc[q] = "sourceRemove" /\ src[q] = src[p])
    /\ Repoint(p, [x \in ActiveOf(src[p]) |-> url[x]])
    /\ Goto(p, "sourceRemove")
    /\ UNCHANGED <<tables, batch, item, treated, own, seenUrl, src>>

\* Mutation: the source goes and its articles stay.
SourceRemove_NoCascade(p) ==
    /\ pc[p] = "sourceRemove"
    /\ sourceUp' = [sourceUp EXCEPT ![src[p]] = FALSE]
    /\ ApplyPend(p)
    /\ Reset({p})
    /\ UNCHANGED <<state, url, source, body, via, judged, batch>>

SourceRemove(p) ==
    /\ pc[p] = "sourceRemove"
    /\ state' = [a \in Articles |-> IF a \in ActiveOf(src[p]) THEN "removed" ELSE state[a]]
    /\ sourceUp' = [sourceUp EXCEPT ![src[p]] = FALSE]
    /\ ApplyPend(p)
    /\ Reset({p})
    /\ UNCHANGED <<url, source, body, via, judged, batch>>

----------------------------------------------------------------------------
(* Failures.                                                               *)

\* The article rows the open transactions of P inserted.  Mutation: a clean-up
\* that deletes the article a failed request worked on.
Inserted_ByOwner(P) == {a \in Articles : \E p \in P : own[p] = a}

Inserted(P) == {a \in Articles : state[a] = "pending" /\ \E p \in P : own[p] = a}

\* WithTransaction rolls back: the rows P inserted or updated never were.
Abort(P) ==
    LET undone == Inserted(P) IN
    /\ state' = [a \in Articles |-> IF a \in undone THEN "free" ELSE state[a]]
    /\ url' = [a \in Articles |-> IF a \in undone THEN None ELSE url[a]]
    /\ source' = [a \in Articles |-> IF a \in undone THEN None ELSE source[a]]
    /\ via' = [a \in Articles |-> IF a \in undone THEN None ELSE via[a]]
    /\ body' = [a \in Articles |-> IF a \in undone THEN NoHrefs ELSE body[a]]
    /\ link' = [a \in Articles |-> IF a \in undone THEN NoHrefs ELSE link[a]]
    /\ Reset(P)
    /\ UNCHANGED <<sourceUp, judged>>

\* A statement of p's open transaction fails.
Rollback(p) ==
    /\ "db" \in Faults \/ (pc[p] \in {"insert", "createInsert"} /\ \A a \in Articles : state[a] # "free")
    /\ pc[p] \notin {"idle", "treat", "keywords", "judge"}
    /\ Abort({p})
    /\ UNCHANGED batch

\* The process dies: the sweep is gone, open transactions roll back, and an
\* article that was committed but not yet judged never will be.
Crash ==
    /\ "crash" \in Faults
    /\ Abort(Procs)
    /\ batch' = {}

----------------------------------------------------------------------------
WorkerStep(w) ==
    \/ \E i \in Items : Skip(w, i) \/ Take(w, i)
    \/ ResolveInternalURLs(w) \/ KeywordsFail(w) \/ FindSource(w)
    \/ LoseInsert(w) \/ Insert(w) \/ Retarget(w) \/ Commit(w) \/ Judge(w)

AdminStep(p) ==
    \/ \E i \in Items : CreateFindSource(p, i)
    \/ CreateInsert(p)
    \/ \E a \in Articles, i \in Items : UpdateArticle(a, i)
    \/ \E a \in Articles : DeleteFind(p, a)
    \/ DeleteRetarget(p) \/ DeleteRemove(p)
    \/ \E s \in Sources : SourceFind(p, s)
    \/ SourceRetarget(p) \/ SourceRemove(p)

Step ==
    \/ StartSweep
    \/ \E w \in Workers : WorkerStep(w)
    \/ \E p \in Admins : AdminStep(p)
    \/ \E p \in Procs : Rollback(p)
    \/ Crash

(* What the properties remember of overlaps.  A process carries t when it has
   read t, or written it, in a transaction that no other one can see yet. *)
Carries(q, t) ==
    \/ seenUrl[q] = t
    \/ \E h \in Urls : treated[q][h] = t
    \/ \E a \in Articles, h \in Urls :
          pend[q][a][h] = t \/ (own[q] = a /\ state[a] = "pending" /\ link[a][h] = t)

\* p has repointed the links to x and is about to remove it.
Removing(p, x) ==
    \/ pc[p] = "deleteRemove" /\ own[p] = x
    \/ pc[p] = "sourceRemove" /\ src[p] = source[x]

\* p has repointed the links to x's URL and is about to publish x.
Storing(p, x) == pc[p] = "commit" /\ own[p] = x

Crossing == {x \in Articles : \E p, q \in Procs : p # q /\ Removing(p, x) /\ Carries(q, x)}

Passing == {x \in Articles : \E p, q \in Procs : p # q /\ Storing(p, x) /\ Carries(q, url[x])}

\* Articles a failed look-up did not find.
Overlooked ==
    {x \in Articles : \E w \in Workers, h \in Urls :
        /\ pc[w] = "treat" /\ pc'[w] = "keywords"
        /\ Lookup(h) = x /\ treated'[w][h] = h}

Remember ==
    /\ crossed' = {x \in crossed \cup Crossing' : state'[x] # "free"}
    /\ missed' = {x \in missed \cup Passing' \cup Overlooked : state'[x] \in {"pending", "active"}}

Next == Step /\ Remember

Spec == Init /\ [][Next]_vars
----------------------------------------------------------------------------
(* Properties.                                                             *)

\* The tables and the locals hold values of their types.
SystemOK ==
    /\ sourceUp \in [Sources -> BOOLEAN]
    /\ state \in [Articles -> {"free", "pending", "active", "removed"}]
    /\ url \in [Articles -> Urls \cup {None}]
    /\ source \in [Articles -> Sources \cup {None}]
    /\ body \in [Articles -> [Urls -> Hrefs \cup {None, IdRef}]]
    /\ link \in [Articles -> [Urls -> Hrefs \cup {None}]]
    /\ via \in [Articles -> {"sweep", "admin", None}]
    /\ judged \in [Articles -> Nat]
    /\ batch \subseteq Items
    /\ pc \in [Procs -> WorkerPcs \cup AdminPcs]
    /\ item \in [Procs -> Items \cup {None}]
    /\ treated \in [Procs -> [Urls -> Hrefs \cup {None}]]
    /\ own \in [Procs -> Articles \cup {None}]
    /\ seenUrl \in [Procs -> Urls \cup {None}]
    /\ src \in [Procs -> Sources \cup {None}]
    /\ pend \in [Procs -> [Articles -> [Urls -> Hrefs \cup {None}]]]

\* Every variable holds a value of its type, and an anchor that holds the id of
\* an outbound row has that row: persist stores both or neither, and nothing
\* later takes one of them alone.
TypeOK ==
    /\ SystemOK
    /\ crossed \subseteq Articles
    /\ missed \subseteq Articles
    /\ \A a \in Articles, h \in Urls : body[a][h] = IdRef => link[a][h] # None

\* Two active articles never share an original URL, whatever the interleaving of
\* workers that discovered the same item twice, admin creations and moves, and
\* re-discoveries after a removal (the partial unique index on url_original).
UniqueActiveUrl ==
    \A a, b \in Articles :
        state[a] = "active" /\ state[b] = "active" /\ url[a] = url[b] => a = b

\* An article is handed to judgement at most once in its life, and only by the
\* worker whose INSERT won: the loser of a race is dropped before judgement, and
\* a crash or a later sweep never judges it again.
JudgedAtMostOnce == \A a \in Articles : judged[a] <= 1

\* A link row always leads where its author pointed: to the URL of the anchor,
\* or to the page of an article published under that URL.  Retro-linking, both
\* removal clean-ups and their races never swap a link for another one
\* (instances without UpdateArticle, which moves an article to another URL).
LinkFidelity ==
    \A b \in Articles, h \in Urls :
        LET x == link[b][h] IN x \in {None, h} \/ (x \in Articles /\ url[x] = h)

\* What the anchor the author wrote as h opens for a reader of b.
Opens(b, h) == IF body[b][h] = IdRef THEN link[b][h] ELSE body[b][h]

\* No served body opens the page of an article that reads no longer serve: the
\* claim of DeleteArticle's clean-up, which the code does not keep.
NoDeadInternalLink ==
    \A b \in Articles, h \in Urls :
        state[b] = "active" /\ Opens(b, h) \in Articles => state[Opens(b, h)] = "active"

\* What holds of it: a row of a served body that leads to a removed article was
\* on its way while the article was being removed, between the clean-up of the
\* links and the commit of the removal; however removals, both clean-ups,
\* treatments and failures interleave otherwise, none is left.  (An anchor that
\* a failed Assign left without a row is out of every clean-up's reach.)
NoDeadLinkUnlessCrossed ==
    \A b \in Articles, h \in Urls :
        state[b] = "active" /\ body[b][h] = IdRef /\ link[b][h] \in Articles
            => state[link[b][h]] = "active" \/ link[b][h] \in crossed

\* An active article never belongs to an inactive source: the claim of
\* SourceController.SoftDelete and of the joins that skip the source check,
\* which the code does not keep.
ActiveHasActiveSource ==
    \A a \in Articles : state[a] = "active" => sourceUp[source[a]]

\* What holds of it: the removal of a source takes every article that is served
\* by then, whatever else runs; the only stray is one committed afterwards.
SourceTakesItsArticles ==
    [][\A a \in Articles :
         state[a] = "active" /\ sourceUp[source[a]] /\ ~sourceUp'[source[a]]
             => state'[a] = "removed"]_vars

\* A link to the URL of an article the pipeline stored opens it internally,
\* whichever of the two was discovered first, unless its look-up failed or it
\* was on its way to a row, where repointing could not see it, while that
\* article was being stored.  With several workers the latter happens: two
\* articles of one sweep that link to each other, stored side by side, keep an
\* external link, and processOne is not quite "safe to run concurrently with
\* itself".
NoMissedLinkUnlessPassed ==
    \A a, b \in Articles, h \in Urls :
        /\ state[a] = "active" /\ body[a][h] = IdRef
        /\ state[b] = "active" /\ via[b] = "sweep"
        /\ link[a][h] = url[b]
        => b \in missed

\* The article store keeps Catalogue's promise: one live article per URL, an
\* id published once.
C == INSTANCE Catalogue WITH live <- [u \in Urls |-> Lookup(u)], used <- Published

ImplementsCatalogue == C!Spec
=============================================================================
