-------------------------------- MODULE Feeds --------------------------------
(***************************************************************************)
(* Feeds and what lands in them: the users' requests that create, edit and *)
(* remove feeds and mark articles as read (endpoints/v1/feeds,             *)
(* endpoints/v1/articles/mark_as_read.go), and the judgement that follows  *)
(* the storing of an article (processor.go judge, services/judgement).     *)
(*                                                                         *)
(* As in Pipeline the grain is the SQL statement at READ COMMITTED, a      *)
(* transaction's last write and its COMMIT being one step.  Judgement is   *)
(* not one transaction: the candidates are read in one, the AI is asked    *)
(* outside any, and every association is a transaction of its own.         *)
(*                                                                         *)
(* Simplifications: of the storing of an article the check of its source   *)
(* and the COMMIT remain (Pipeline has what lies between); the removal of  *)
(* a source is one step, at the UPDATE of its articles; a score is only    *)
(* whether it reaches the threshold; names, texts and translations are     *)
(* left out.  MarkAsRead and DeleteFeed look before they write; the write  *)
(* repeats the condition, so they are one step.                            *)
(***************************************************************************)
EXTENDS Naturals, FiniteSets, Sequences

CONSTANTS
    Users,
    Clients,        \* requests in flight; a user may have several
    ClientUser,     \* [Clients -> Users]
    Workers,        \* goroutines of TreatmentProcessor.Process
    FeedIds,        \* the pool of feed ids
    Articles,       \* the pool of article ids
    Sources,
    KeywordLists,   \* the keyword lists of feeds (duplicates allowed)
    ArticleWords,   \* the keyword sets of articles
    FeedMaxPerUser, \* schemas.FeedMaxPerUser
    FeedKeywordsMin,\* schemas.FeedKeywordsMin
    MinMatches,     \* Evaluator.minMatches
    RatioNum,       \* Evaluator.autoAssociateRatio = RatioNum / RatioDen
    RatioDen,
    Faults,         \* the failures that may happen
    None

AllFaults == {"db", "ai", "crash"}

ASSUME FeedsAssumption ==
    /\ ClientUser \in [Clients -> Users]
    /\ \A l \in KeywordLists : l \in Seq(STRING) /\ Len(l) >= FeedKeywordsMin
    /\ \A s \in ArticleWords : s \subseteq STRING
    /\ FeedMaxPerUser \in Nat
    /\ FeedKeywordsMin \in Nat \ {0}
    /\ MinMatches \in Nat \ {0}
    /\ RatioNum \in Nat
    /\ RatioDen \in Nat \ {0}
    /\ Faults \subseteq AllFaults
    /\ None \notin Articles \cup FeedIds \cup Users \cup Sources \cup KeywordLists

VARIABLES
    \* the tables
    feed,      \* feed[f]: [state, user, words] of a row of feeds
    seen,      \* seen[u]: last_active_at is within inactive_days
    sourceUp,
    article,   \* article[a]: [state, source, words] of a row of articles
    unread,    \* unread[a][f]: rows of articles_feeds with is_read = FALSE
    read,      \* read[a][f]: rows of articles_feeds with is_read = TRUE
    \* the processes
    pc,        \* of workers and clients
    judging,   \* judging[w]: the article w judges
    passed,    \* passed[w]: the feeds still to be associated
    form,      \* form[c]: the keyword list of the feed c creates
    \* history
    cands,     \* cands[a]: the candidates a was judged with
    outcome,   \* outcome[a]: "none", "judging", "done" or "failed"
    late       \* the articles committed after their source was removed

tables == <<feed, seen, sourceUp, article, unread, read>>
locals == <<pc, judging, passed, form>>
vars   == <<tables, locals, cands, outcome, late>>

Procs == Workers \cup Clients

NoFeed    == [state |-> "free", user |-> None, words |-> <<>>]
NoArticle == [state |-> "free", source |-> None, words |-> {}]
NoRows    == [a \in Articles |-> [f \in FeedIds |-> 0]]

Init ==
    /\ feed = [f \in FeedIds |-> NoFeed]
    /\ seen = [u \in Users |-> TRUE]
    /\ sourceUp = [s \in Sources |-> TRUE]
    /\ article = [a \in Articles |-> NoArticle]
    /\ unread = NoRows
    /\ read = NoRows
    /\ pc = [p \in Procs |-> "idle"]
    /\ judging = [w \in Workers |-> None]
    /\ passed = [w \in Workers |-> {}]
    /\ form = [c \in Clients |-> None]
    /\ cands = [a \in Articles |-> {}]
    /\ outcome = [a \in Articles |-> "none"]
    /\ late = {}

Goto(p, label) == pc' = [pc EXCEPT ![p] = label]

----------------------------------------------------------------------------
(* Judgement, layer 1: the candidates.                                     *)

Words(list) == {list[k] : k \in DOMAIN list}

\* FindCandidateFeedsByKeywords: the active feeds of users seen lately that share
\* a keyword with the article, each with the number of distinct ones.
\* Mutation: an outer join, which also returns the feeds that share none.
Candidates_OuterJoin(words) ==
    {[feed |-> f, words |-> feed[f].words, overlap |-> Cardinality(Words(feed[f].words) \cap words)] :
        f \in {g \in FeedIds : feed[g].state = "active" /\ seen[feed[g].user]}}

Candidates(words) ==
    {[feed |-> f, words |-> feed[f].words, overlap |-> Cardinality(Words(feed[f].words) \cap words)] :
        f \in {g \in FeedIds : /\ feed[g].state = "active"
                               /\ seen[feed[g].user]
                               /\ Words(feed[g].words) \cap words # {}}}

(* Layer 2: the triage of a candidate c.                                   *)

\* The overlap covers enough of the feed's keywords: no AI, it passes.
\* Mutation: a share that only just reaches the ratio does not count.
StrongMatch_Strict(c) == c.overlap * RatioDen > RatioNum * Len(c.words)

StrongMatch(c) == c.overlap * RatioDen >= RatioNum * Len(c.words)

\* Too few keywords in common: no AI, it is dropped.  Mutation: off by one.
TrivialMatch_OffByOne(c) == ~StrongMatch(c) /\ c.overlap + 1 < MinMatches

TrivialMatch(c) == ~StrongMatch(c) /\ c.overlap < MinMatches

\* What is left is for the AI to score.
Borderline(c) == ~StrongMatch(c) /\ ~TrivialMatch(c)

\* w is done with its article.
Finish(w, how) ==
    /\ judging' = [judging EXCEPT ![w] = None]
    /\ passed' = [passed EXCEPT ![w] = {}]
    /\ outcome' = [outcome EXCEPT ![judging[w]] = how]
    /\ Goto(w, "idle")

\* ArticleController.Create finds the source active and INSERTs the article: its row is
\* there for this transaction alone.
FindSource(w, a, s, words) ==
    /\ pc[w] = "idle"
    /\ article[a].state = "free" /\ sourceUp[s]
    /\ article' = [article EXCEPT ![a] = [state |-> "pending", source |-> s, words |-> words]]
    /\ judging' = [judging EXCEPT ![w] = a]
    /\ Goto(w, "commit")
    /\ UNCHANGED <<feed, seen, sourceUp, unread, read, passed, form, cands, outcome, late>>

\* The COMMIT, after which the worker goes on to judge the article.  Nothing asks for
\* the source again.
Store(w) ==
    LET a == judging[w] IN
    /\ pc[w] = "commit"
    /\ article' = [article EXCEPT ![a].state = "active"]
    /\ outcome' = [outcome EXCEPT ![a] = "judging"]
    /\ late' = IF sourceUp[article[a].source] THEN late ELSE late \cup {a}
    /\ Goto(w, "lookup")
    /\ UNCHANGED <<feed, seen, sourceUp, unread, read, judging, passed, form, cands>>

\* Or a statement fails, the URL is taken meanwhile, the COMMIT fails: nothing is stored
\* and nothing judged.
StoreFails(w) ==
    /\ pc[w] = "commit"
    /\ article' = [article EXCEPT ![judging[w]] = NoArticle]
    /\ judging' = [judging EXCEPT ![w] = None]
    /\ Goto(w, "idle")
    /\ UNCHANGED <<feed, seen, sourceUp, unread, read, passed, form, cands, outcome, late>>

\* Without candidates there is nothing to judge.
FindCandidates(w) ==
    LET found == Candidates(article[judging[w]].words) IN
    /\ pc[w] = "lookup"
    /\ \/ /\ "db" \in Faults
          /\ Finish(w, "failed")
          /\ UNCHANGED cands
       \/ /\ found = {}
          /\ Finish(w, "done")
          /\ UNCHANGED cands
       \/ /\ found # {}
          /\ cands' = [cands EXCEPT ![judging[w]] = found]
          /\ Goto(w, "evaluate")
          /\ UNCHANGED <<judging, passed, outcome>>
    /\ UNCHANGED <<tables, form, late>>

\* Evaluator.Evaluate: the AI may pass any of the borderline candidates; its
\* first error drops the whole result, the strong matches included.
Evaluate(w) ==
    LET found == cands[judging[w]] IN
    /\ pc[w] = "evaluate"
    /\ \/ /\ "ai" \in Faults
          /\ \E c \in found : Borderline(c)
          /\ Finish(w, "failed")
       \/ /\ \E liked \in SUBSET {c \in found : Borderline(c)} :
               passed' = [passed EXCEPT ![w] = {c.feed : c \in liked \cup {d \in found : StrongMatch(d)}}]
          /\ Goto(w, "associate")
          /\ UNCHANGED <<judging, outcome>>
    /\ UNCHANGED <<tables, form, cands, late>>

\* One articles_feeds row per feed that passed.  The feed may have been removed
\* or edited meanwhile, and the article removed: the INSERT does not look.
\* Mutation: a feed is not taken off the list when its row is there.
Associate_Retry(w, f) ==
    /\ pc[w] = "associate" /\ f \in passed[w]
    /\ unread[judging[w]][f] < 2
    /\ unread' = [unread EXCEPT ![judging[w]][f] = @ + 1]
    /\ UNCHANGED <<feed, seen, sourceUp, article, read, locals, cands, outcome, late>>

Associate(w, f) ==
    /\ pc[w] = "associate" /\ f \in passed[w]
    /\ unread' = [unread EXCEPT ![judging[w]][f] = @ + 1]
    /\ passed' = [passed EXCEPT ![w] = @ \ {f}]
    /\ UNCHANGED <<feed, seen, sourceUp, article, read, pc, judging, form, cands, outcome, late>>

\* A failed association is logged, and the others go on.
AssociateFails(w, f) ==
    /\ "db" \in Faults
    /\ pc[w] = "associate" /\ f \in passed[w]
    /\ passed' = [passed EXCEPT ![w] = @ \ {f}]
    /\ outcome' = [outcome EXCEPT ![judging[w]] = "failed"]
    /\ UNCHANGED <<tables, pc, judging, form, cands, late>>

EndJudgement(w) ==
    /\ pc[w] = "associate" /\ passed[w] = {}
    /\ Finish(w, IF outcome[judging[w]] = "failed" THEN "failed" ELSE "done")
    /\ UNCHANGED <<tables, form, cands, late>>

----------------------------------------------------------------------------
(* The requests of users.                                                  *)

Owns(c, f) == feed[f].state = "active" /\ feed[f].user = ClientUser[c]

\* CountActiveFeedsByUser.
CountActiveFeedsByUser(u) == Cardinality({f \in FeedIds : feed[f].state = "active" /\ feed[f].user = u})

\* FeedController.Create counts ...
CountFeeds(c, list) ==
    /\ pc[c] = "idle"
    /\ CountActiveFeedsByUser(ClientUser[c]) < FeedMaxPerUser
    /\ form' = [form EXCEPT ![c] = list]
    /\ Goto(c, "insertFeed")
    /\ UNCHANGED <<tables, judging, passed, cands, outcome, late>>

\* Ids are random: which of the unused ones a feed gets does not matter.
\* Mutation: the row of a removed feed is taken into use again.
FreeIds_Revived == {f \in FeedIds : feed[f].state # "active"}

FreeIds == {f \in FeedIds : feed[f].state = "free"}

\* ... and inserts, in the same transaction; the INSERT may fail.
InsertFeed(c) ==
    /\ pc[c] = "insertFeed"
    /\ \/ /\ FreeIds # {}
          /\ feed' = [feed EXCEPT ![CHOOSE f \in FreeIds : TRUE] =
                        [state |-> "active", user |-> ClientUser[c], words |-> form[c]]]
       \/ /\ "db" \in Faults \/ FreeIds = {}
          /\ UNCHANGED feed
    /\ form' = [form EXCEPT ![c] = None]
    /\ Goto(c, "idle")
    /\ UNCHANGED <<seen, sourceUp, article, unread, read, judging, passed, cands, outcome, late>>

UpdateFeed(c, f, list) ==
    /\ pc[c] = "idle" /\ Owns(c, f)
    /\ feed' = [feed EXCEPT ![f].words = list]
    /\ UNCHANGED <<seen, sourceUp, article, unread, read, locals, cands, outcome, late>>

DeleteFeed(c, f) ==
    /\ pc[c] = "idle" /\ Owns(c, f)
    /\ feed' = [feed EXCEPT ![f].state = "removed"]
    /\ UNCHANGED <<seen, sourceUp, article, unread, read, locals, cands, outcome, late>>

\* MarkArticleAsReadForUser: the unread rows of the user's active feeds.
MarkAsRead(c, a) ==
    LET mine == {f \in FeedIds : Owns(c, f) /\ unread[a][f] > 0} IN
    /\ pc[c] = "idle" /\ article[a].state = "active" /\ mine # {}
    /\ read' = [read EXCEPT ![a] = [f \in FeedIds |-> IF f \in mine THEN @[f] + unread[a][f] ELSE @[f]]]
    /\ unread' = [unread EXCEPT ![a] = [f \in FeedIds |-> IF f \in mine THEN 0 ELSE @[f]]]
    /\ UNCHANGED <<feed, seen, sourceUp, article, locals, cands, outcome, late>>

----------------------------------------------------------------------------
(* What happens around them.                                               *)

\* A user stays away longer than inactive_days, or comes back.
Lapse(u) ==
    /\ seen' = [seen EXCEPT ![u] = ~@]
    /\ UNCHANGED <<feed, sourceUp, article, unread, read, locals, cands, outcome, late>>

\* DeleteArticle, seen from here.
RemoveArticle(a) ==
    /\ article[a].state = "active"
    /\ article' = [article EXCEPT ![a].state = "removed"]
    /\ UNCHANGED <<feed, seen, sourceUp, unread, read, locals, cands, outcome, late>>

\* SourceController.SoftDelete, seen from here: the rows that are there by now.
\* Mutation: no cascade.
RemoveSource_NoCascade(s) ==
    /\ sourceUp[s]
    /\ sourceUp' = [sourceUp EXCEPT ![s] = FALSE]
    /\ UNCHANGED <<feed, seen, article, unread, read, locals, cands, outcome, late>>

RemoveSource(s) ==
    /\ sourceUp[s]
    /\ sourceUp' = [sourceUp EXCEPT ![s] = FALSE]
    /\ article' = [a \in Articles |->
           IF article[a].state = "active" /\ article[a].source = s
           THEN [article[a] EXCEPT !.state = "removed"] ELSE article[a]]
    /\ UNCHANGED <<feed, seen, unread, read, locals, cands, outcome, late>>

\* The process dies: what was not committed is undone, and what was being judged is not
\* taken up again.
Crash ==
    /\ "crash" \in Faults
    /\ pc' = [p \in Procs |-> "idle"]
    /\ judging' = [w \in Workers |-> None]
    /\ passed' = [w \in Workers |-> {}]
    /\ form' = [c \in Clients |-> None]
    /\ outcome' = [a \in Articles |-> IF \E w \in Workers : judging[w] = a /\ article[a].state # "pending"
                                       THEN "failed" ELSE outcome[a]]
    /\ article' = [a \in Articles |-> IF article[a].state = "pending" THEN NoArticle ELSE article[a]]
    /\ UNCHANGED <<feed, seen, sourceUp, unread, read, cands, late>>

----------------------------------------------------------------------------
JudgeStep(w) ==
    \/ Store(w) \/ StoreFails(w)
    \/ FindCandidates(w) \/ Evaluate(w) \/ EndJudgement(w)
    \/ \E f \in FeedIds : Associate(w, f) \/ AssociateFails(w, f)

ClientStep(c) ==
    \/ \E list \in KeywordLists : CountFeeds(c, list)
    \/ InsertFeed(c)
    \/ \E f \in FeedIds, list \in KeywordLists : UpdateFeed(c, f, list)
    \/ \E f \in FeedIds : DeleteFeed(c, f)
    \/ \E a \in Articles : MarkAsRead(c, a)

Next ==
    \/ \E w \in Workers, a \in Articles, s \in Sources, words \in ArticleWords : FindSource(w, a, s, words)
    \/ \E w \in Workers : JudgeStep(w)
    \/ \E c \in Clients : ClientStep(c)
    \/ \E u \in Users : Lapse(u)
    \/ \E a \in Articles : RemoveArticle(a)
    \/ \E s \in Sources : RemoveSource(s)
    \/ Crash

Spec == Init /\ [][Next]_vars

----------------------------------------------------------------------------
(* What the readers are told.                                              *)

\* IsReadState of the article for the user: whether it is in the user's feeds,
\* and read in all of them.
IsReadState(a, u) ==
    LET mine == {f \in FeedIds : /\ feed[f].state = "active" /\ feed[f].user = u
                                 /\ unread[a][f] + read[a][f] > 0}
    IN CASE article[a].state # "active" \/ mine = {} -> "absent"
         [] \E f \in mine : unread[a][f] > 0         -> "unread"
         [] OTHER                                    -> "read"

\* CheckForNewArticles: the articles counted as unread in f (no join on sources).
Polled(f) == {a \in Articles : unread[a][f] > 0 /\ article[a].state = "active"}

\* FeedArticles with is_read=false: the articles listed in f.
ListedUnread(f) ==
    {a \in Articles : unread[a][f] > 0 /\ article[a].state = "active" /\ sourceUp[article[a].source]}

----------------------------------------------------------------------------
(* Properties.                                                             *)

Candidate == [feed : FeedIds, words : KeywordLists, overlap : Nat \ {0}]

\* Every variable holds a value of its type; a candidate shares a keyword with its article.
TypeOK ==
    /\ feed \in [FeedIds -> [state : {"free", "active", "removed"}, user : Users \cup {None}, words : KeywordLists \cup {<<>>}]]
    /\ seen \in [Users -> BOOLEAN]
    /\ sourceUp \in [Sources -> BOOLEAN]
    /\ article \in [Articles -> [state : {"free", "pending", "active", "removed"}, source : Sources \cup {None}, words : ArticleWords \cup {{}}]]
    /\ unread \in [Articles -> [FeedIds -> Nat]]
    /\ read \in [Articles -> [FeedIds -> Nat]]
    /\ pc \in [Procs -> {"idle", "commit", "lookup", "evaluate", "associate", "insertFeed"}]
    /\ judging \in [Workers -> Articles \cup {None}]
    /\ passed \in [Workers -> SUBSET FeedIds]
    /\ form \in [Clients -> KeywordLists \cup {None}]
    /\ cands \in [Articles -> SUBSET Candidate]
    /\ outcome \in [Articles -> {"none", "judging", "done", "failed"}]
    /\ late \subseteq Articles

\* No user has more active feeds than the limit, which FeedController.Create
\* enforces by counting before it inserts.
FeedLimit == \A u \in Users : CountActiveFeedsByUser(u) <= FeedMaxPerUser

\* An article lands in a feed at most once, although no unique index on
\* articles_feeds says so: unread counts and page totals rely on it.
OneRowPerFeed == \A a \in Articles, f \in FeedIds : unread[a][f] + read[a][f] <= 1

\* Unless it is being judged, an article the user has read in every feed is never
\* unread for that user again, whatever feeds come and go: a removed feed takes
\* its unread rows with it.
ReadIsFinal ==
    [][\A a \in Articles, u \in Users :
         IsReadState(a, u) = "read" /\ (\A w \in Workers : judging[w] # a)
         => IsReadState(a, u)' # "unread"]_vars

\* An article never lands in a feed on fewer common keywords than minMatches:
\* the ratio, which is checked first, cannot overrule the discard rule.
NoTrivialMatch ==
    \A a \in Articles, f \in FeedIds :
        unread[a][f] + read[a][f] > 0
        => \E c \in cands[a] : c.feed = f /\ c.overlap >= MinMatches

\* A judgement that met no failure has put the article in every candidate feed
\* that its keywords cover up to the ratio, also in one edited or removed since.
StrongMatchDelivered ==
    \A a \in Articles :
        outcome[a] = "done" =>
            \A c \in cands[a] :
                c.overlap * RatioDen >= RatioNum * Len(c.words) => unread[a][c.feed] + read[a][c.feed] > 0

\* The poll for new articles and the feed's own list agree on what is unread, though only
\* the list asks whether the article's source is still there.  They part over articles that
\* were on their way into the table while their source was removed, and over no others.
PollMatchesListUnlessRaced ==
    \A f \in FeedIds :
        feed[f].state = "active" => Polled(f) \ late = ListedUnread(f) \ late
=============================================================================
