----------------------------- MODULE FeedsProofs -----------------------------
(***************************************************************************)
(* Theorems about Feeds for any number of users, requests, workers, feeds  *)
(* and articles, any keywords and thresholds, with any faults.             *)
(*                                                                         *)
(* A row of articles_feeds carries no memory of the judgement that made    *)
(* it, and no index keeps it single.  What does is the order of a          *)
(* judgement: one worker has the article (JudgingOK), looks it up before   *)
(* any row of it exists, and takes a feed off its list with the row it     *)
(* inserts (PassedOK).  The rest follows the rows back to the candidates   *)
(* they come from (RowsOK), and the candidates to feeds that were there    *)
(* (CandidatesOK).                                                         *)
(***************************************************************************)
EXTENDS Feeds, FiniteSetTheorems, Functions, TLAPS

\* A row of feeds, and one of articles.
FeedRow    == [state : {"free", "active", "removed"}, user : Users \cup {None}, words : KeywordLists \cup {<<>>}]
ArticleRow == [state : {"free", "pending", "active", "removed"}, source : Sources \cup {None}, words : ArticleWords \cup {{}}]

\* The rows of a feed for an article.
RowsOf(a, f) == unread[a][f] + read[a][f]

\* Where a worker that has an article is.
JudgePcs == {"commit", "lookup", "evaluate", "associate"}

\* What a feed and an article that were ever in use hold, and a form under way.
RecordsOK ==
    /\ \A f \in FeedIds : feed[f].state # "free" => feed[f].user \in Users /\ feed[f].words \in KeywordLists
    /\ \A a \in Articles : article[a].state # "free" => article[a].source \in Sources /\ article[a].words \in ArticleWords
    /\ \A c \in Clients : pc[c] = "insertFeed" => form[c] \in KeywordLists

\* A worker that stores or judges has one article, in the table once it is stored, and
\* has it alone.
JudgingOK ==
    \A w \in Workers :
        /\ pc[w] \in JudgePcs <=> judging[w] # None
        /\ judging[w] # None => article[judging[w]].state # "free"
        /\ judging[w] # None => (pc[w] = "commit" <=> article[judging[w]].state = "pending")
        /\ \A v \in Workers : judging[w] # None /\ judging[v] = judging[w] => v = w

TypeInv == TypeOK /\ RecordsOK /\ JudgingOK

\* A candidate was a feed in use.
CandidatesOK == \A a \in Articles : \A c \in cands[a] : feed[c.feed].state # "free"

\* A row goes back to a candidate that was not dropped for its few keywords.
RowsOK ==
    \A a \in Articles, f \in FeedIds :
        RowsOf(a, f) > 0 => \E c \in cands[a] : c.feed = f /\ ~TrivialMatch(c)

\* An article that is not stored yet.
Unstored(a) == article[a].state \in {"free", "pending"}

\* An article that is not stored yet has neither candidates nor rows.
UnjudgedOK == \A a \in Articles : Unstored(a) => cands[a] = {} /\ outcome[a] = "none"

\* The article w judges has no row before its candidates are evaluated, and then none in
\* a feed that is still on the list; unless something failed, its strong candidates are
\* on the list or have their row.
VerdictOK(w) ==
    LET a == judging[w] IN
    /\ pc[w] \in {"lookup", "evaluate", "associate"} => outcome[a] \in {"judging", "failed"}
    /\ pc[w] = "lookup" => cands[a] = {}
    /\ pc[w] = "evaluate" => \A f \in FeedIds : RowsOf(a, f) = 0
    /\ pc[w] = "associate" =>
         /\ \A f \in passed[w] : RowsOf(a, f) = 0 /\ \E c \in cands[a] : c.feed = f /\ ~TrivialMatch(c)
         /\ outcome[a] # "failed" =>
              \A c \in cands[a] : StrongMatch(c) => c.feed \in passed[w] \/ RowsOf(a, c.feed) > 0

PassedOK == \A w \in Workers : VerdictOK(w)

\* What an article passes through on its way into the feeds.
JudgeInv == RowsOK /\ OneRowPerFeed /\ StrongMatchDelivered /\ UnjudgedOK /\ PassedOK

\* The source of an active article is there, or was removed before the article was committed:
\* removing it takes the articles along that are there.
SourceUpOK == \A a \in Articles : article[a].state = "active" => sourceUp[article[a].source] \/ a \in late

IInv == TypeInv /\ CandidatesOK /\ JudgeInv /\ SourceUpOK

\* What a step that is not a judgement's leaves alone: the rows, read or not, and all that is judged.
Quiet ==
    /\ \A a \in Articles, f \in FeedIds : RowsOf(a, f)' = RowsOf(a, f)
    /\ \A a \in Articles : Unstored(a)' <=> Unstored(a)
    /\ \A w \in Workers : pc'[w] \in JudgePcs => pc'[w] = pc[w]
    /\ UNCHANGED <<judging, passed, cands, outcome>>

----------------------------------------------------------------------------
(* What the helpers say.                                                   *)

\* The words of a list are finitely many, so an overlap is a number, and not zero.
LEMMA OverlapIsNat ==
  ASSUME NEW list \in Seq(STRING), NEW words, Words(list) \cap words # {}
  PROVE  Cardinality(Words(list) \cap words) \in Nat \ {0}
<1>1. list \in Surjection(1..Len(list), Words(list))
  BY DEF Surjection, Words
<1>2. IsFiniteSet(1..Len(list))
  BY FS_Interval
<1>3. IsFiniteSet(Words(list))
  BY <1>1, <1>2, FS_Surjection
<1>4. QED
  BY <1>3, FS_Subset, FS_CardinalityType, FS_EmptySet

\* The candidates of an article are active feeds with their words at that moment.
LEMMA CandidatesAreFeeds ==
  ASSUME TypeInv, NEW words
  PROVE  /\ Candidates(words) \subseteq Candidate
         /\ \A c \in Candidates(words) : feed[c.feed].state = "active"
<1> DEFINE C == {g \in FeedIds : feed[g].state = "active" /\ seen[feed[g].user] /\ Words(feed[g].words) \cap words # {}}
<1>1. ASSUME NEW c \in Candidates(words)
      PROVE  c \in Candidate /\ feed[c.feed].state = "active"
  <2>1. PICK f \in C : c = [feed |-> f, words |-> feed[f].words,
                            overlap |-> Cardinality(Words(feed[f].words) \cap words)]
    BY <1>1 DEF Candidates
  <2>2. feed[f].words \in KeywordLists
    BY DEF TypeInv, RecordsOK
  <2>3. Cardinality(Words(feed[f].words) \cap words) \in Nat \ {0}
    BY <2>2, FeedsAssumption, OverlapIsNat
  <2>4. QED
    BY <2>1, <2>2, <2>3 DEF Candidate
<1>2. QED
  BY <1>1

\* A row of feeds stays one when its state or its words change, and one of articles
\* when its state does.
LEMMA RowsChange ==
  /\ \A r \in FeedRow, list \in KeywordLists : [r EXCEPT !.words = list] \in FeedRow
  /\ \A r \in FeedRow : [r EXCEPT !.state = "removed"] \in FeedRow
  /\ \A t \in ArticleRow : [t EXCEPT !.state = "removed"] \in ArticleRow /\ [t EXCEPT !.state = "active"] \in ArticleRow
  BY DEF FeedRow, ArticleRow

----------------------------------------------------------------------------
(* Types, records and who judges what.                                     *)

\* The locals of a worker that is done.
LEMMA FinishType ==
  ASSUME TypeInv, NEW w \in Workers, NEW how \in {"done", "failed"},
         judging[w] # None, Finish(w, how)
  PROVE  /\ pc' \in [Procs -> {"idle", "commit", "lookup", "evaluate", "associate", "insertFeed"}]
         /\ judging' \in [Workers -> Articles \cup {None}]
         /\ passed' \in [Workers -> SUBSET FeedIds]
         /\ outcome' \in [Articles -> {"none", "judging", "done", "failed"}]
  BY DEF TypeInv, TypeOK, Finish, Goto, Procs

\* The system starts in a state of the right type.
LEMMA InitType == Init => TypeInv
  BY FeedsAssumption
  DEF Init, TypeInv, TypeOK, RecordsOK, JudgingOK, NoFeed, NoArticle, NoRows, Procs, JudgePcs, Candidate

\* Every step keeps every variable in its type.
LEMMA NextTypeOK ==
  ASSUME TypeInv, [Next]_vars
  PROVE  TypeOK'
<1> USE FeedsAssumption DEF TypeInv, TypeOK, Procs
<1>1. ASSUME NEW w \in Workers, NEW a \in Articles, NEW s \in Sources, NEW words \in ArticleWords,
             FindSource(w, a, s, words)
      PROVE  TypeOK'
  BY <1>1 DEF FindSource, Goto
<1>1a. ASSUME NEW w \in Workers, Store(w) \/ StoreFails(w)
       PROVE  TypeOK'
  <2>1. judging[w] \in Articles
    BY <1>1a DEF Store, StoreFails, JudgingOK, JudgePcs
  <2>2. [article[judging[w]] EXCEPT !.state = "active"] \in ArticleRow /\ NoArticle \in ArticleRow
    <3>1. article[judging[w]] \in ArticleRow
      BY <2>1 DEF ArticleRow
    <3>2. QED
      BY <3>1, RowsChange DEF ArticleRow, NoArticle
  <2>3. \A a \in Articles : article[a] \in ArticleRow
    BY DEF ArticleRow
  <2>4. article' \in [Articles -> ArticleRow]
    <3>1. CASE Store(w)
      <4>1. article' = [article EXCEPT ![judging[w]] = [article[judging[w]] EXCEPT !.state = "active"]]
        BY <3>1 DEF Store
      <4>2. QED
        BY <2>1, <2>2, <2>3, <4>1
    <3>2. CASE StoreFails(w)
      BY <2>1, <2>2, <2>3, <3>2 DEF StoreFails
    <3>3. QED
      BY <1>1a, <3>1, <3>2
  <2>5. late' \subseteq Articles /\ UNCHANGED <<feed, seen, sourceUp, unread, read, passed, form, cands>>
    BY <1>1a, <2>1 DEF Store, StoreFails
  <2>6. /\ pc' \in [Procs -> {"idle", "commit", "lookup", "evaluate", "associate", "insertFeed"}]
        /\ judging' \in [Workers -> Articles \cup {None}]
        /\ outcome' \in [Articles -> {"none", "judging", "done", "failed"}]
    <3>1. CASE Store(w)
      BY <2>1, <3>1 DEF Store, Goto
    <3>2. CASE StoreFails(w)
      BY <3>2 DEF StoreFails, Goto
    <3>3. QED
      BY <1>1a, <3>1, <3>2
  <2>7. QED
    BY <2>4, <2>5, <2>6 DEF ArticleRow
<1>2. ASSUME NEW w \in Workers, FindCandidates(w)
      PROVE  TypeOK'
  <2>1. judging[w] # None
    BY <1>2 DEF FindCandidates, JudgingOK, JudgePcs
  <2>2. CASE (Finish(w, "failed") \/ Finish(w, "done")) /\ UNCHANGED <<tables, form, cands, late>>
    BY <2>1, <2>2, FinishType DEF tables
  <2>3. CASE /\ cands' = [cands EXCEPT ![judging[w]] = Candidates(article[judging[w]].words)]
             /\ Goto(w, "evaluate")
             /\ UNCHANGED <<judging, passed, outcome, tables, form, late>>
    <3>1. cands' \in [Articles -> SUBSET Candidate]
      BY <2>1, <2>3, CandidatesAreFeeds
    <3>2. QED
      BY <2>3, <3>1 DEF Goto, tables
  <2>4. QED
    BY <1>2, <2>2, <2>3 DEF FindCandidates
<1>3. ASSUME NEW w \in Workers, Evaluate(w)
      PROVE  TypeOK'
  <2>1. judging[w] # None
    BY <1>3 DEF Evaluate, JudgingOK, JudgePcs
  <2>2. CASE Finish(w, "failed") /\ UNCHANGED <<tables, form, cands, late>>
    BY <2>1, <2>2, FinishType DEF tables
  <2>3. ASSUME NEW liked \in SUBSET {c \in cands[judging[w]] : Borderline(c)},
               passed' = [passed EXCEPT ![w] = {c.feed : c \in liked \cup {d \in cands[judging[w]] : StrongMatch(d)}}],
               Goto(w, "associate"), UNCHANGED <<judging, outcome, tables, form, cands, late>>
        PROVE  TypeOK'
    <3>1. {c.feed : c \in liked \cup {d \in cands[judging[w]] : StrongMatch(d)}} \subseteq FeedIds
      BY <2>1 DEF Candidate
    <3>2. QED
      BY <2>3, <3>1 DEF Goto, tables
  <2>4. QED
    BY <1>3, <2>2, <2>3 DEF Evaluate
<1>4. ASSUME NEW w \in Workers, NEW f \in FeedIds, Associate(w, f)
      PROVE  TypeOK'
  <2>1. judging[w] \in Articles
    BY <1>4 DEF Associate, JudgingOK, JudgePcs
  <2>2. QED
    BY <1>4, <2>1 DEF Associate
<1>5. ASSUME NEW w \in Workers, NEW f \in FeedIds, AssociateFails(w, f)
      PROVE  TypeOK'
  BY <1>5 DEF AssociateFails, tables
<1>6. ASSUME NEW w \in Workers, EndJudgement(w)
      PROVE  TypeOK'
  <2>1. judging[w] # None
    BY <1>6 DEF EndJudgement, JudgingOK, JudgePcs
  <2>2. QED
    BY <1>6, <2>1, FinishType DEF EndJudgement, tables
<1>7. ASSUME NEW c \in Clients, NEW list \in KeywordLists, CountFeeds(c, list)
      PROVE  TypeOK'
  BY <1>7 DEF CountFeeds, Goto, tables
<1>8. ASSUME NEW c \in Clients, InsertFeed(c)
      PROVE  TypeOK'
  <2>1. CASE UNCHANGED feed
    BY <1>8, <2>1 DEF InsertFeed, Goto
  <2>2. ASSUME NEW f \in FeedIds,
               feed' = [feed EXCEPT ![f] = [state |-> "active", user |-> ClientUser[c], words |-> form[c]]]
        PROVE  TypeOK'
    <3>1. form[c] \in KeywordLists /\ ClientUser[c] \in Users
      BY <1>8 DEF InsertFeed, RecordsOK
    <3>2. feed' \in [FeedIds -> FeedRow]
      BY <2>2, <3>1 DEF FeedRow
    <3>3. QED
      BY <1>8, <3>2 DEF InsertFeed, Goto, FeedRow
  <2>3. QED
    BY <1>8, <2>1, <2>2 DEF InsertFeed, FreeIds
<1>9. ASSUME NEW c \in Clients, NEW f \in FeedIds, NEW list \in KeywordLists, UpdateFeed(c, f, list)
      PROVE  TypeOK'
  <2>1. [feed[f] EXCEPT !.words = list] \in FeedRow
    <3>1. feed[f] \in FeedRow
      BY DEF FeedRow
    <3>2. QED
      BY <3>1, RowsChange
  <2>2. feed' \in [FeedIds -> FeedRow]
    BY <1>9, <2>1 DEF UpdateFeed, FeedRow
  <2>3. QED
    BY <1>9, <2>2 DEF UpdateFeed, locals, FeedRow
<1>10. ASSUME NEW c \in Clients, NEW f \in FeedIds, DeleteFeed(c, f)
       PROVE  TypeOK'
  <2>1. [feed[f] EXCEPT !.state = "removed"] \in FeedRow
    <3>1. feed[f] \in FeedRow
      BY DEF FeedRow
    <3>2. QED
      BY <3>1, RowsChange
  <2>2. feed' \in [FeedIds -> FeedRow]
    BY <1>10, <2>1 DEF DeleteFeed, FeedRow
  <2>3. QED
    BY <1>10, <2>2 DEF DeleteFeed, locals, FeedRow
<1>11. ASSUME NEW c \in Clients, NEW a \in Articles, MarkAsRead(c, a)
       PROVE  TypeOK'
  BY <1>11 DEF MarkAsRead, locals
<1>12. ASSUME NEW u \in Users, Lapse(u)
       PROVE  TypeOK'
  BY <1>12 DEF Lapse, locals
<1>13. ASSUME NEW a \in Articles, RemoveArticle(a)
       PROVE  TypeOK'
  <2>1. [article[a] EXCEPT !.state = "removed"] \in ArticleRow
    <3>1. article[a] \in ArticleRow
      BY DEF ArticleRow
    <3>2. QED
      BY <3>1, RowsChange
  <2>2. article' \in [Articles -> ArticleRow]
    BY <1>13, <2>1 DEF RemoveArticle, ArticleRow
  <2>3. QED
    BY <1>13, <2>2 DEF RemoveArticle, locals, ArticleRow
<1>14. ASSUME NEW s \in Sources, RemoveSource(s)
       PROVE  TypeOK'
  <2>1. \A a \in Articles : article'[a] \in ArticleRow
    <3>1. \A a \in Articles : article[a] \in ArticleRow
      BY DEF ArticleRow
    <3>2. QED
      BY <1>14, <3>1, RowsChange DEF RemoveSource
  <2>2. article' \in [Articles -> ArticleRow]
    BY <1>14, <2>1 DEF RemoveSource
  <2>3. QED
    BY <1>14, <2>2 DEF RemoveSource, locals, ArticleRow
<1>15. CASE Crash
  <2>1. \A a \in Articles : article'[a] \in ArticleRow
    BY <1>15 DEF Crash, ArticleRow, NoArticle
  <2>2. article' \in [Articles -> ArticleRow]
    BY <1>15, <2>1 DEF Crash
  <2>3. QED
    BY <1>15, <2>2 DEF Crash, ArticleRow
<1>16. CASE UNCHANGED vars
  BY <1>16 DEF vars, tables, locals
<1>17. QED
  BY <1>1, <1>1a, <1>2, <1>3, <1>4, <1>5, <1>6, <1>7, <1>8, <1>9, <1>10, <1>11, <1>12, <1>13, <1>14, <1>15, <1>16
  DEF Next, JudgeStep, ClientStep

\* Every step keeps what rows in use and forms hold.
LEMMA NextRecords ==
  ASSUME TypeInv, [Next]_vars
  PROVE  RecordsOK'
<1> USE FeedsAssumption DEF TypeInv, TypeOK, RecordsOK, Procs
<1>1. ASSUME NEW w \in Workers, NEW a \in Articles, NEW s \in Sources, NEW words \in ArticleWords,
             FindSource(w, a, s, words)
      PROVE  RecordsOK'
  BY <1>1 DEF FindSource, Goto
<1>1a. ASSUME NEW w \in Workers, Store(w) \/ StoreFails(w)
       PROVE  RecordsOK'
  <2>1. PICK b \in Articles : b = judging[w] /\ article[b].state # "free"
    BY <1>1a DEF Store, StoreFails, JudgingOK, JudgePcs
  <2>2. feed' = feed /\ form' = form /\ \A c \in Clients : pc'[c] = "insertFeed" => pc[c] = "insertFeed"
    BY <1>1a DEF Store, StoreFails, Goto
  <2>3. /\ \A a \in Articles : a # b => article'[a] = article[a]
        /\ \/ article'[b].state = "free"
           \/ article'[b].source = article[b].source /\ article'[b].words = article[b].words
    BY <1>1a, <2>1 DEF Store, StoreFails, NoArticle
  <2>4. QED
    BY <2>1, <2>2, <2>3
<1>2. ASSUME NEW w \in Workers, FindCandidates(w) \/ Evaluate(w) \/ EndJudgement(w)
      PROVE  RecordsOK'
  BY <1>2 DEF FindCandidates, Evaluate, EndJudgement, Finish, Goto, tables
<1>3. ASSUME NEW w \in Workers, NEW f \in FeedIds, Associate(w, f) \/ AssociateFails(w, f)
      PROVE  RecordsOK'
  BY <1>3 DEF Associate, AssociateFails, tables
<1>4. ASSUME NEW c \in Clients, NEW list \in KeywordLists, CountFeeds(c, list)
      PROVE  RecordsOK'
  BY <1>4 DEF CountFeeds, Goto, tables
<1>5. ASSUME NEW c \in Clients, InsertFeed(c)
      PROVE  RecordsOK'
  <2>1. CASE UNCHANGED feed
    BY <1>5, <2>1 DEF InsertFeed, Goto
  <2>2. ASSUME NEW f \in FeedIds,
               feed' = [feed EXCEPT ![f] = [state |-> "active", user |-> ClientUser[c], words |-> form[c]]]
        PROVE  RecordsOK'
    <3>1. form[c] \in KeywordLists /\ ClientUser[c] \in Users
      BY <1>5 DEF InsertFeed
    <3>2. QED
      BY <1>5, <2>2, <3>1 DEF InsertFeed, Goto
  <2>3. QED
    BY <1>5, <2>1, <2>2 DEF InsertFeed, FreeIds
<1>6. ASSUME NEW c \in Clients, NEW f \in FeedIds, NEW list \in KeywordLists, UpdateFeed(c, f, list)
      PROVE  RecordsOK'
  BY <1>6 DEF UpdateFeed, locals
<1>7. ASSUME NEW c \in Clients, NEW f \in FeedIds, DeleteFeed(c, f)
      PROVE  RecordsOK'
  BY <1>7 DEF DeleteFeed, locals, Owns
<1>8. ASSUME NEW c \in Clients, NEW a \in Articles, MarkAsRead(c, a)
      PROVE  RecordsOK'
  BY <1>8 DEF MarkAsRead, locals
<1>9. ASSUME NEW u \in Users, Lapse(u)
      PROVE  RecordsOK'
  BY <1>9 DEF Lapse, locals
<1>10. ASSUME NEW a \in Articles, RemoveArticle(a)
       PROVE  RecordsOK'
  BY <1>10 DEF RemoveArticle, locals
<1>11. ASSUME NEW s \in Sources, RemoveSource(s)
       PROVE  RecordsOK'
  BY <1>11 DEF RemoveSource, locals
<1>12. CASE Crash
  BY <1>12 DEF Crash, NoArticle
<1>13. CASE UNCHANGED vars
  BY <1>13 DEF vars, tables, locals
<1>14. QED
  BY <1>1, <1>1a, <1>2, <1>3, <1>4, <1>5, <1>6, <1>7, <1>8, <1>9, <1>10, <1>11, <1>12, <1>13
  DEF Next, JudgeStep, ClientStep

\* Every step leaves an article with the one worker that judges it.
LEMMA NextJudging ==
  ASSUME TypeInv, [Next]_vars
  PROVE  JudgingOK'
<1> USE FeedsAssumption DEF TypeInv, TypeOK, JudgingOK, JudgePcs, Procs
<1>1. ASSUME NEW w \in Workers, NEW a \in Articles, NEW s \in Sources, NEW words \in ArticleWords,
             FindSource(w, a, s, words)
      PROVE  JudgingOK'
  BY <1>1 DEF FindSource, Goto
<1>1a. ASSUME NEW w \in Workers, Store(w) \/ StoreFails(w)
       PROVE  JudgingOK'
  <2>1. pc[w] = "commit" /\ judging[w] \in Articles /\ judging[w] # None
    BY <1>1a DEF Store, StoreFails
  <2>2. ASSUME NEW v \in Workers, v # w
        PROVE  judging[v] # judging[w]
    BY <2>1, <2>2
  <2>3. QED
    BY <1>1a, <2>1, <2>2 DEF Store, StoreFails, Goto
<1>2. ASSUME NEW w \in Workers, FindCandidates(w) \/ Evaluate(w) \/ EndJudgement(w)
      PROVE  JudgingOK'
  BY <1>2 DEF FindCandidates, Evaluate, EndJudgement, Finish, Goto, tables
<1>3. ASSUME NEW w \in Workers, NEW f \in FeedIds, Associate(w, f) \/ AssociateFails(w, f)
      PROVE  JudgingOK'
  BY <1>3 DEF Associate, AssociateFails, tables
<1>4. ASSUME NEW c \in Clients, NEW list \in KeywordLists, CountFeeds(c, list)
      PROVE  JudgingOK'
  BY <1>4 DEF CountFeeds, Goto, tables
<1>5. ASSUME NEW c \in Clients, InsertFeed(c)
      PROVE  JudgingOK'
  BY <1>5 DEF InsertFeed, Goto
<1>6. ASSUME UNCHANGED <<article, pc, judging>>
      PROVE  JudgingOK'
  BY <1>6
<1>7. ASSUME NEW a \in Articles, RemoveArticle(a)
      PROVE  JudgingOK'
  BY <1>7 DEF RemoveArticle, locals
<1>8. ASSUME NEW s \in Sources, RemoveSource(s)
      PROVE  JudgingOK'
  BY <1>8 DEF RemoveSource, locals
<1>9. CASE Crash
  BY <1>9 DEF Crash, tables
<1>10. QED
  BY <1>1, <1>1a, <1>2, <1>3, <1>4, <1>5, <1>6, <1>7, <1>8, <1>9
  DEF Next, JudgeStep, ClientStep, UpdateFeed, DeleteFeed, MarkAsRead, Lapse, vars, tables, locals

\* So the type invariant is inductive.
LEMMA NextType ==
  ASSUME TypeInv, [Next]_vars
  PROVE  TypeInv'
  BY NextTypeOK, NextRecords, NextJudging DEF TypeInv

\* Every variable holds a value of its type, in every reachable state.
THEOREM TypeCorrect == Spec => []TypeOK
<1>1. TypeInv /\ [Next]_vars => TypeInv'
  BY NextType
<1>2. TypeInv => TypeOK
  BY DEF TypeInv
<1>3. QED
  BY <1>1, <1>2, InitType, PTL DEF Spec

----------------------------------------------------------------------------
(* Judgement.                                                              *)

\* Marking an article as read keeps the number of its rows in every feed.
LEMMA ReadingIsQuiet ==
  ASSUME TypeInv, NEW c \in Clients, NEW a \in Articles, MarkAsRead(c, a)
  PROVE  Quiet
<1> DEFINE mine == {f \in FeedIds : Owns(c, f) /\ unread[a][f] > 0}
<1>1. \A b \in Articles, f \in FeedIds : unread[b][f] \in Nat /\ read[b][f] \in Nat
  BY DEF TypeInv, TypeOK
<1>2. \A f \in FeedIds :
         /\ read'[a][f] = IF f \in mine THEN read[a][f] + unread[a][f] ELSE read[a][f]
         /\ unread'[a][f] = IF f \in mine THEN 0 ELSE unread[a][f]
  BY DEF MarkAsRead, TypeInv, TypeOK
<1>3. \A b \in Articles : b # a => unread'[b] = unread[b] /\ read'[b] = read[b]
  BY DEF MarkAsRead, TypeInv, TypeOK
<1>4. \A b \in Articles, f \in FeedIds : RowsOf(b, f)' = RowsOf(b, f)
  BY <1>1, <1>2, <1>3 DEF RowsOf
<1>5. QED
  BY <1>4 DEF MarkAsRead, Quiet, locals, Unstored

\* A step is one of a judgement, or the crash, or it is quiet.
LEMMA NextMoves ==
  ASSUME TypeInv, [Next]_vars
  PROVE  \/ Quiet
         \/ \E w \in Workers, a \in Articles, s \in Sources, words \in ArticleWords : FindSource(w, a, s, words)
         \/ \E w \in Workers : JudgeStep(w)
         \/ Crash
<1> USE DEF Quiet, RowsOf, Unstored
<1>1. ASSUME NEW c \in Clients, NEW list \in KeywordLists, CountFeeds(c, list)
      PROVE  Quiet
  BY <1>1 DEF CountFeeds, Goto, tables, JudgePcs, TypeInv, TypeOK, Procs
<1>2. ASSUME NEW c \in Clients, InsertFeed(c)
      PROVE  Quiet
  BY <1>2 DEF InsertFeed, Goto, JudgePcs, TypeInv, TypeOK, Procs
<1>3. ASSUME NEW a \in Articles, RemoveArticle(a)
      PROVE  Quiet
  BY <1>3 DEF RemoveArticle, locals, TypeInv, TypeOK
<1>4. ASSUME NEW s \in Sources, RemoveSource(s)
      PROVE  Quiet
  BY <1>4 DEF RemoveSource, locals, TypeInv, TypeOK
<1>5. ASSUME UNCHANGED <<article, unread, read, locals, cands, outcome>>
      PROVE  Quiet
  BY <1>5 DEF locals
<1>6. QED
  BY <1>1, <1>2, <1>3, <1>4, <1>5, ReadingIsQuiet
  DEF Next, ClientStep, UpdateFeed, DeleteFeed, Lapse, vars, tables

\* A worker keeps its verdict in a step that leaves it and its article alone.
LEMMA OthersKeep ==
  ASSUME TypeInv, NEW w \in Workers, VerdictOK(w),
         pc'[w] \in JudgePcs => pc'[w] = pc[w],
         judging'[w] = judging[w], passed'[w] = passed[w],
         judging[w] \in Articles =>
            /\ outcome'[judging[w]] = outcome[judging[w]]
            /\ cands'[judging[w]] = cands[judging[w]]
            /\ \A f \in FeedIds : unread'[judging[w]][f] + read'[judging[w]][f] = unread[judging[w]][f] + read[judging[w]][f]
  PROVE  VerdictOK(w)'
<1> USE DEF VerdictOK, RowsOf, JudgePcs
<1>1. judging[w] \in Articles \cup {None} /\ passed[w] \subseteq FeedIds
  BY DEF TypeInv, TypeOK
<1>2. pc[w] \in JudgePcs => judging[w] \in Articles
  BY <1>1 DEF TypeInv, JudgingOK
<1>3. \A a \in Articles : \A c \in cands[a] : c.feed \in FeedIds
  BY DEF TypeInv, TypeOK, Candidate
<1>4. CASE pc'[w] = "lookup"
  BY <1>1, <1>2, <1>4
<1>5. CASE pc'[w] = "evaluate"
  BY <1>1, <1>2, <1>5
<1>6. CASE pc'[w] = "associate"
  <2>1. pc[w] = "associate" /\ judging[w] \in Articles
    BY <1>2, <1>6
  <2>2. \A f \in passed'[w] : /\ unread'[judging'[w]][f] + read'[judging'[w]][f] = 0
                               /\ \E c \in cands'[judging'[w]] : c.feed = f /\ ~TrivialMatch(c)
    BY <1>1, <2>1
  <2>3. outcome'[judging'[w]] # "failed" =>
           \A c \in cands'[judging'[w]] :
              StrongMatch(c) => c.feed \in passed'[w] \/ unread'[judging'[w]][c.feed] + read'[judging'[w]][c.feed] > 0
    BY <1>3, <2>1
  <2>4. QED
    BY <1>1, <1>6, <2>1, <2>2, <2>3
<1>7. CASE pc'[w] \notin JudgePcs
  BY <1>1, <1>7
<1>8. QED
  BY <1>4, <1>5, <1>6, <1>7

\* A quiet step keeps what judgements rely on.
LEMMA QuietKeeps ==
  ASSUME TypeInv, JudgeInv, Quiet
  PROVE  JudgeInv'
<1> USE DEF JudgeInv, Quiet, RowsOf
<1>1. \A a \in Articles : \A c \in cands[a] : c.feed \in FeedIds
  BY DEF TypeInv, TypeOK, Candidate
<1>2. RowsOK' /\ OneRowPerFeed' /\ UnjudgedOK'
  BY DEF RowsOK, OneRowPerFeed, UnjudgedOK
<1>3. StrongMatchDelivered'
  BY <1>1 DEF StrongMatchDelivered
<1>4. ASSUME NEW w \in Workers
      PROVE  VerdictOK(w)'
  BY OthersKeep DEF PassedOK
<1>5. QED
  BY <1>2, <1>3, <1>4 DEF PassedOK

\* A worker that is done leaves no strong candidate of a judgement without failure behind.
LEMMA FinishKeeps ==
  ASSUME TypeInv, JudgeInv, NEW w \in Workers, NEW how, judging[w] # None, pc[w] # "commit",
         Finish(w, how), UNCHANGED <<tables, cands>>,
         \/ how = "failed"
         \/ /\ how = "done"
            /\ \A c \in cands[judging[w]] : StrongMatch(c) => RowsOf(judging[w], c.feed) > 0
  PROVE  JudgeInv'
<1> USE DEF JudgeInv, tables, RowsOf
<1>1. judging[w] \in Articles /\ ~Unstored(judging[w])
  BY DEF JudgingOK, TypeInv, TypeOK, Unstored
<1>2. /\ \A a \in Articles : outcome'[a] = IF a = judging[w] THEN how ELSE outcome[a]
      /\ \A v \in Workers : v # w => pc'[v] = pc[v] /\ judging'[v] = judging[v] /\ passed'[v] = passed[v]
      /\ pc'[w] = "idle" /\ judging'[w] = None
  BY <1>1 DEF Finish, Goto, TypeInv, TypeOK, Procs
<1>3. RowsOK' /\ OneRowPerFeed'
  BY DEF RowsOK, OneRowPerFeed
<1>4. UnjudgedOK'
  BY <1>1, <1>2 DEF UnjudgedOK, Unstored
<1>5. StrongMatchDelivered'
  BY <1>1, <1>2 DEF StrongMatchDelivered, StrongMatch
<1>6. VerdictOK(w)'
  BY <1>2 DEF VerdictOK
<1>7. ASSUME NEW v \in Workers, v # w
      PROVE  VerdictOK(v)'
  <2>1. judging[v] # judging[w]
    BY <1>1, <1>7 DEF TypeInv, JudgingOK
  <2>2. QED
    BY <1>2, <1>7, <2>1, OthersKeep DEF PassedOK
<1>8. QED
  BY <1>3, <1>4, <1>5, <1>6, <1>7 DEF PassedOK

\* An article on its way into the table has neither candidates nor rows, and nobody else has it.
LEMMA FindSourceKeeps ==
  ASSUME TypeInv, JudgeInv, NEW w \in Workers, NEW a \in Articles, NEW s \in Sources, NEW words \in ArticleWords,
         FindSource(w, a, s, words)
  PROVE  JudgeInv'
<1> USE DEF JudgeInv, RowsOf
<1>1. article[a].state = "free"
  BY DEF FindSource
<1>2. \A v \in Workers : judging[v] # a
  BY <1>1, FeedsAssumption DEF TypeInv, JudgingOK
<1>3. /\ pc'[w] = "commit" /\ judging'[w] = a /\ article'[a].state = "pending"
      /\ \A v \in Workers : v # w => pc'[v] = pc[v] /\ judging'[v] = judging[v]
      /\ \A b \in Articles : b # a => article'[b] = article[b]
      /\ UNCHANGED <<unread, read, passed, cands, outcome>>
  BY DEF FindSource, Goto, Procs, TypeInv, TypeOK
<1>4. RowsOK' /\ OneRowPerFeed' /\ StrongMatchDelivered'
  BY <1>3 DEF RowsOK, OneRowPerFeed, StrongMatchDelivered
<1>5. UnjudgedOK'
  BY <1>1, <1>3 DEF UnjudgedOK, Unstored
<1>6. VerdictOK(w)'
  BY <1>3 DEF VerdictOK
<1>7. ASSUME NEW v \in Workers, v # w
      PROVE  VerdictOK(v)'
  BY <1>3, <1>7, OthersKeep DEF PassedOK
<1>8. QED
  BY <1>4, <1>5, <1>6, <1>7 DEF PassedOK

\* A new article comes without candidates and rows.
LEMMA StoreKeeps ==
  ASSUME TypeInv, JudgeInv, NEW w \in Workers, Store(w)
  PROVE  JudgeInv'
<1> DEFINE a == judging[w]
<1> USE DEF JudgeInv, RowsOf
<1>1. pc[w] = "commit" /\ a \in Articles /\ article[a].state = "pending" /\ cands[a] = {}
  BY DEF Store, UnjudgedOK, Unstored, TypeInv, TypeOK, JudgingOK, JudgePcs
<1>2. /\ pc'[w] = "lookup" /\ outcome'[a] = "judging" /\ article'[a].state = "active"
      /\ \A v \in Workers : v # w => pc'[v] = pc[v]
      /\ \A b \in Articles : b # a => article'[b] = article[b] /\ outcome'[b] = outcome[b]
      /\ UNCHANGED <<unread, read, judging, passed, cands>>
  BY <1>1 DEF Store, Goto, Procs, TypeInv, TypeOK
<1>3. RowsOK' /\ OneRowPerFeed'
  BY <1>2 DEF RowsOK, OneRowPerFeed
<1>4. UnjudgedOK'
  BY <1>2 DEF UnjudgedOK, Unstored
<1>5. StrongMatchDelivered'
  BY <1>2 DEF StrongMatchDelivered
<1>6. VerdictOK(w)'
  BY <1>1, <1>2 DEF VerdictOK
<1>7. ASSUME NEW v \in Workers, v # w
      PROVE  VerdictOK(v)'
  <2>1. judging[v] # a
    BY <1>1, <1>7, FeedsAssumption DEF TypeInv, JudgingOK
  <2>2. QED
    BY <1>2, <1>7, <2>1, OthersKeep DEF PassedOK
<1>8. QED
  BY <1>3, <1>4, <1>5, <1>6, <1>7 DEF PassedOK

\* One that is not stored after all leaves nothing behind.
LEMMA StoreFailsKeeps ==
  ASSUME TypeInv, JudgeInv, NEW w \in Workers, StoreFails(w)
  PROVE  JudgeInv'
<1> DEFINE a == judging[w]
<1> USE DEF JudgeInv, RowsOf
<1>1. pc[w] = "commit" /\ a \in Articles /\ article[a].state = "pending"
  BY DEF StoreFails, TypeInv, TypeOK, JudgingOK, JudgePcs
<1>2. /\ pc'[w] = "idle"
      /\ \A v \in Workers : v # w => pc'[v] = pc[v] /\ judging'[v] = judging[v]
      /\ \A b \in Articles : b # a => article'[b] = article[b]
      /\ UNCHANGED <<unread, read, passed, cands, outcome>>
  BY <1>1 DEF StoreFails, Goto, Procs, TypeInv, TypeOK
<1>3. RowsOK' /\ OneRowPerFeed' /\ StrongMatchDelivered'
  BY <1>2 DEF RowsOK, OneRowPerFeed, StrongMatchDelivered
<1>4. UnjudgedOK'
  BY <1>1, <1>2 DEF UnjudgedOK, Unstored
<1>5. VerdictOK(w)'
  BY <1>2 DEF VerdictOK
<1>6. ASSUME NEW v \in Workers, v # w
      PROVE  VerdictOK(v)'
  BY <1>2, <1>6, OthersKeep DEF PassedOK
<1>7. QED
  BY <1>3, <1>4, <1>5, <1>6 DEF PassedOK

\* The candidates are found while the article has no rows.
LEMMA FindKeeps ==
  ASSUME TypeInv, JudgeInv, NEW w \in Workers, FindCandidates(w)
  PROVE  JudgeInv'
<1> DEFINE a == judging[w]
<1> DEFINE found == Candidates(article[a].words)
<1>1. pc[w] = "lookup" /\ a \in Articles /\ a # None
  BY DEF FindCandidates, TypeInv, TypeOK, JudgingOK, JudgePcs
<1>2. cands[a] = {}
  BY <1>1 DEF JudgeInv, PassedOK, VerdictOK
<1>3. \A f \in FeedIds : RowsOf(a, f) = 0
  <2>1. \A f \in FeedIds : RowsOf(a, f) \in Nat
    BY <1>1 DEF RowsOf, TypeInv, TypeOK
  <2>2. \A f \in FeedIds : ~(RowsOf(a, f) > 0)
    BY <1>1, <1>2 DEF JudgeInv, RowsOK
  <2>3. QED
    BY <2>1, <2>2
<1>4. CASE (Finish(w, "failed") \/ Finish(w, "done")) /\ UNCHANGED <<tables, cands>>
  BY <1>1, <1>2, <1>4, FinishKeeps
<1>5. CASE /\ cands' = [cands EXCEPT ![a] = found]
           /\ Goto(w, "evaluate")
           /\ UNCHANGED <<judging, passed, outcome, tables, form>>
  <2> USE <1>1, <1>2, <1>3 DEF JudgeInv, RowsOf
  <2>1. UNCHANGED <<article, unread, read, judging, passed, outcome>>
    BY <1>5 DEF tables
  <2>2. pc'[w] = "evaluate" /\ \A v \in Workers : v # w => pc'[v] = pc[v] /\ judging[v] # a
    BY <1>5 DEF Goto, Procs, TypeInv, TypeOK, JudgingOK
  <2>3. \A b \in Articles : b # a => cands'[b] = cands[b]
    BY <1>5 DEF TypeInv, TypeOK
  <2>4. RowsOK' /\ OneRowPerFeed'
    BY <2>1, <2>3 DEF RowsOK, OneRowPerFeed
  <2>5. UnjudgedOK'
    BY <2>1, <2>3 DEF UnjudgedOK, Unstored, TypeInv, JudgingOK
  <2>6. StrongMatchDelivered'
    BY <2>1, <2>3 DEF StrongMatchDelivered, PassedOK, VerdictOK
  <2>7. VerdictOK(w)'
    BY <2>1, <2>2 DEF VerdictOK, PassedOK
  <2>8. ASSUME NEW v \in Workers, v # w
        PROVE  VerdictOK(v)'
    BY <2>1, <2>2, <2>3, <2>8, OthersKeep DEF PassedOK
  <2>9. QED
    BY <2>4, <2>5, <2>6, <2>7, <2>8 DEF PassedOK
<1>6. QED
  BY <1>4, <1>5 DEF FindCandidates

\* What the evaluation lets pass are candidates that are not trivial, the strong ones among them.
LEMMA EvaluateKeeps ==
  ASSUME TypeInv, JudgeInv, NEW w \in Workers, Evaluate(w)
  PROVE  JudgeInv'
<1> DEFINE a == judging[w]
<1>1. pc[w] = "evaluate" /\ a \in Articles /\ a # None
  BY DEF Evaluate, TypeInv, TypeOK, JudgingOK, JudgePcs
<1>2. CASE Finish(w, "failed") /\ UNCHANGED <<tables, cands>>
  BY <1>1, <1>2, FinishKeeps
<1>3. ASSUME NEW liked \in SUBSET {c \in cands[a] : Borderline(c)},
             passed' = [passed EXCEPT ![w] = {c.feed : c \in liked \cup {d \in cands[a] : StrongMatch(d)}}],
             Goto(w, "associate"), UNCHANGED <<judging, outcome, tables, form, cands>>
      PROVE  JudgeInv'
  <2> USE <1>1 DEF JudgeInv, RowsOf
  <2>1. UNCHANGED <<article, unread, read, judging, outcome, cands>>
    BY <1>3 DEF tables
  <2>2. /\ pc'[w] = "associate"
        /\ passed'[w] = {c.feed : c \in liked \cup {d \in cands[a] : StrongMatch(d)}}
        /\ \A v \in Workers : v # w => pc'[v] = pc[v] /\ passed'[v] = passed[v]
    BY <1>3 DEF Goto, Procs, TypeInv, TypeOK
  <2>3. RowsOK' /\ OneRowPerFeed' /\ UnjudgedOK' /\ StrongMatchDelivered'
    BY <2>1 DEF RowsOK, OneRowPerFeed, UnjudgedOK, Unstored, StrongMatchDelivered
  <2>4. VerdictOK(w)'
    <3>1. a' = a /\ outcome[a] \in {"judging", "failed"} /\ \A f \in FeedIds : unread[a][f] + read[a][f] = 0
      BY <2>1 DEF PassedOK, VerdictOK
    <3>2. \A f \in passed'[w] : f \in FeedIds /\ \E c \in cands[a] : c.feed = f /\ ~TrivialMatch(c)
      BY <2>2 DEF Borderline, TrivialMatch, TypeInv, TypeOK, Candidate
    <3>3. \A c \in cands[a] : StrongMatch(c) => c.feed \in passed'[w]
      BY <2>2
    <3>4. QED
      BY <2>1, <2>2, <3>1, <3>2, <3>3 DEF VerdictOK
  <2>5. ASSUME NEW v \in Workers, v # w
        PROVE  VerdictOK(v)'
    BY <2>1, <2>2, <2>5, OthersKeep DEF PassedOK
  <2>6. QED
    BY <2>3, <2>4, <2>5 DEF PassedOK
<1>4. QED
  BY <1>2, <1>3 DEF Evaluate

\* A feed is taken off the list with the row it gets.
LEMMA AssociateKeeps ==
  ASSUME TypeInv, JudgeInv, NEW w \in Workers, NEW f \in FeedIds, Associate(w, f)
  PROVE  JudgeInv'
<1> DEFINE a == judging[w]
<1> USE DEF JudgeInv, RowsOf
<1>1. pc[w] = "associate" /\ f \in passed[w] /\ a \in Articles /\ a # None
  BY DEF Associate, TypeInv, TypeOK, JudgingOK, JudgePcs
<1>2. \A b \in Articles, g \in FeedIds :
         /\ unread[b][g] \in Nat /\ read[b][g] \in Nat
         /\ unread'[b][g] = IF b = a /\ g = f THEN unread[b][g] + 1 ELSE unread[b][g]
  BY <1>1 DEF Associate, TypeInv, TypeOK
<1>3. /\ \A v \in Workers : passed'[v] = IF v = w THEN passed[v] \ {f} ELSE passed[v]
      /\ UNCHANGED <<article, read, pc, judging, cands, outcome>>
  BY DEF Associate, TypeInv, TypeOK
<1>4. /\ unread[a][f] + read[a][f] = 0
      /\ \E c \in cands[a] : c.feed = f /\ ~TrivialMatch(c)
  BY <1>1 DEF PassedOK, VerdictOK
<1>5. RowsOK'
  BY <1>2, <1>3, <1>4 DEF RowsOK
<1>6. OneRowPerFeed'
  BY <1>2, <1>3, <1>4 DEF OneRowPerFeed
<1>7. UnjudgedOK'
  BY <1>3 DEF UnjudgedOK, Unstored
<1>8. StrongMatchDelivered'
  <2>1. SUFFICES ASSUME NEW b \in Articles, outcome[b] = "done",
                        NEW c \in cands[b], c.overlap * RatioDen >= RatioNum * Len(c.words)
                 PROVE  unread'[b][c.feed] + read[b][c.feed] > 0
    BY <1>3 DEF StrongMatchDelivered
  <2>2. c.feed \in FeedIds
    BY DEF TypeInv, TypeOK, Candidate
  <2>3. unread[b][c.feed] + read[b][c.feed] > 0
    BY <2>1 DEF StrongMatchDelivered
  <2>4. QED
    BY <1>2, <2>2, <2>3
<1>9. VerdictOK(w)'
  <2>1. a' = a /\ pc'[w] = "associate" /\ outcome'[a] = outcome[a] /\ outcome[a] \in {"judging", "failed"}
        /\ cands'[a] = cands[a]
    BY <1>1, <1>3 DEF PassedOK, VerdictOK
  <2>2. \A g \in passed'[w] : /\ unread'[a][g] + read'[a][g] = 0
                              /\ \E c \in cands[a] : c.feed = g /\ ~TrivialMatch(c)
    <3>1. \A g \in passed[w] : /\ g \in FeedIds
                               /\ unread[a][g] + read[a][g] = 0
                               /\ \E c \in cands[a] : c.feed = g /\ ~TrivialMatch(c)
      BY <1>1 DEF PassedOK, VerdictOK, TypeInv, TypeOK
    <3>2. passed'[w] = passed[w] \ {f}
      BY <1>3
    <3>3. \A g \in FeedIds : g # f => unread'[a][g] = unread[a][g]
      BY <1>1, <1>2
    <3>4. read' = read
      BY <1>3
    <3>5. QED
      BY <3>1, <3>2, <3>3, <3>4
  <2>3. outcome[a] # "failed" =>
           \A c \in cands[a] : StrongMatch(c) => c.feed \in passed'[w] \/ unread'[a][c.feed] + read'[a][c.feed] > 0
    <3>1. outcome[a] # "failed" =>
             \A c \in cands[a] : StrongMatch(c) => c.feed \in passed[w] \/ unread[a][c.feed] + read[a][c.feed] > 0
      BY <1>1 DEF PassedOK, VerdictOK
    <3>2. \A c \in cands[a] : c.feed \in FeedIds
      BY <1>1 DEF TypeInv, TypeOK, Candidate
    <3>3. passed'[w] = passed[w] \ {f} /\ read' = read
      BY <1>3
    <3>4. \A g \in FeedIds : g # f => unread'[a][g] = unread[a][g]
      BY <1>1, <1>2
    <3>5. unread'[a][f] + read[a][f] > 0
      BY <1>1, <1>2
    <3>6. QED
      BY <3>1, <3>2, <3>3, <3>4, <3>5
  <2>4. QED
    BY <2>1, <2>2, <2>3 DEF VerdictOK
<1>10. ASSUME NEW v \in Workers, v # w
       PROVE  VerdictOK(v)'
  <2>1. judging[v] # a
    BY <1>1, <1>10 DEF TypeInv, JudgingOK
  <2>2. QED
    BY <1>2, <1>3, <1>10, <2>1, OthersKeep DEF PassedOK
<1>11. QED
  BY <1>5, <1>6, <1>7, <1>8, <1>9, <1>10 DEF PassedOK

\* A failed association takes its feed off the list too, and the judgement is a failed one.
LEMMA AssociateFailsKeeps ==
  ASSUME TypeInv, JudgeInv, NEW w \in Workers, NEW f \in FeedIds, AssociateFails(w, f)
  PROVE  JudgeInv'
<1> DEFINE a == judging[w]
<1> USE DEF JudgeInv, RowsOf
<1>1. pc[w] = "associate" /\ a \in Articles /\ a # None /\ article[a].state # "free"
  BY DEF AssociateFails, TypeInv, TypeOK, JudgingOK, JudgePcs
<1>2. /\ \A v \in Workers : passed'[v] = IF v = w THEN passed[v] \ {f} ELSE passed[v]
      /\ \A b \in Articles : outcome'[b] = IF b = a THEN "failed" ELSE outcome[b]
      /\ UNCHANGED <<article, unread, read, pc, judging, cands>>
  BY <1>1 DEF AssociateFails, TypeInv, TypeOK, tables
<1>3. RowsOK' /\ OneRowPerFeed' /\ UnjudgedOK' /\ StrongMatchDelivered'
  BY <1>1, <1>2 DEF RowsOK, OneRowPerFeed, UnjudgedOK, Unstored, TypeInv, JudgingOK, StrongMatchDelivered
<1>4. VerdictOK(w)'
  BY <1>1, <1>2 DEF PassedOK, VerdictOK
<1>5. ASSUME NEW v \in Workers, v # w
      PROVE  VerdictOK(v)'
  <2>1. judging[v] # a
    BY <1>1, <1>5 DEF TypeInv, JudgingOK
  <2>2. QED
    BY <1>2, <1>5, <2>1, OthersKeep DEF PassedOK
<1>6. QED
  BY <1>3, <1>4, <1>5 DEF PassedOK

\* When no feed is left on the list, every strong candidate has its row.
LEMMA EndKeeps ==
  ASSUME TypeInv, JudgeInv, NEW w \in Workers, EndJudgement(w)
  PROVE  JudgeInv'
<1>1. judging[w] # None /\ pc[w] = "associate" /\ passed[w] = {}
  BY DEF EndJudgement, TypeInv, JudgingOK, JudgePcs
<1>2. outcome[judging[w]] # "failed" =>
         \A c \in cands[judging[w]] : StrongMatch(c) => RowsOf(judging[w], c.feed) > 0
  BY <1>1 DEF JudgeInv, PassedOK, VerdictOK
<1>3. QED
  BY <1>1, <1>2, FinishKeeps DEF EndJudgement

\* The judgements that a crash cuts off are failed ones.
LEMMA CrashKeeps ==
  ASSUME TypeInv, JudgeInv, Crash
  PROVE  JudgeInv'
<1> USE DEF JudgeInv, RowsOf
<1>1. /\ \A w \in Workers : pc'[w] = "idle" /\ judging'[w] = None
      /\ \A a \in Articles : outcome'[a] = IF \E w \in Workers : judging[w] = a /\ article[a].state # "pending"
                                            THEN "failed" ELSE outcome[a]
      /\ \A a \in Articles : article'[a] = IF article[a].state = "pending" THEN NoArticle ELSE article[a]
      /\ UNCHANGED <<unread, read, cands>>
  BY DEF Crash, tables, Procs
<1>2. RowsOK' /\ OneRowPerFeed' /\ StrongMatchDelivered'
  BY <1>1 DEF RowsOK, OneRowPerFeed, StrongMatchDelivered
<1>3. UnjudgedOK'
  BY <1>1, FeedsAssumption DEF UnjudgedOK, Unstored, NoArticle, TypeInv, JudgingOK
<1>4. PassedOK'
  BY <1>1 DEF PassedOK, VerdictOK
<1>5. QED
  BY <1>2, <1>3, <1>4

\* So what judgements rely on is inductive.
LEMMA NextJudge ==
  ASSUME TypeInv, JudgeInv, [Next]_vars
  PROVE  JudgeInv'
  BY NextMoves, QuietKeeps, FindSourceKeeps, StoreKeeps, StoreFailsKeeps, FindKeeps, EvaluateKeeps, AssociateKeeps, AssociateFailsKeeps,
     EndKeeps, CrashKeeps DEF JudgeStep

LEMMA InitJudge == Init => JudgeInv
  BY DEF Init, JudgeInv, RowsOK, OneRowPerFeed, StrongMatchDelivered, UnjudgedOK, PassedOK, VerdictOK, RowsOf, NoRows, Procs

\* An article lands in a feed at most once, for any number of workers, feeds and crashes:
\* no unique index on articles_feeds says so, the order of a judgement does.
THEOREM OnceInAFeed == Spec => []OneRowPerFeed
<1>1. TypeInv /\ JudgeInv /\ [Next]_vars => (TypeInv /\ JudgeInv)'
  BY NextType, NextJudge
<1>2. JudgeInv => OneRowPerFeed
  BY DEF JudgeInv
<1>3. QED
  BY <1>1, <1>2, InitType, InitJudge, PTL DEF Spec

\* A judgement that met no failure has put its article in every feed it matches strongly.
THEOREM StrongAreDelivered == Spec => []StrongMatchDelivered
<1>1. TypeInv /\ JudgeInv /\ [Next]_vars => (TypeInv /\ JudgeInv)'
  BY NextType, NextJudge
<1>2. JudgeInv => StrongMatchDelivered
  BY DEF JudgeInv
<1>3. QED
  BY <1>1, <1>2, InitType, InitJudge, PTL DEF Spec

----------------------------------------------------------------------------
(* The two thresholds of the triage.                                       *)

\* The ratio, in the smallest feed there may be, asks for more than MinMatches - 1 keywords
\* (the comment of Evaluator allows it to ask for just as many).
TriageCoherent == RatioNum * FeedKeywordsMin > RatioDen * (MinMatches - 1)

\* Then whatever reaches the ratio has enough matches.
LEMMA StrongHasEnough ==
  ASSUME TriageCoherent, NEW c \in Candidate, StrongMatch(c)
  PROVE  c.overlap >= MinMatches
<1>1. c.overlap \in Nat /\ c.words \in Seq(STRING) /\ Len(c.words) >= FeedKeywordsMin
  BY FeedsAssumption DEF Candidate
<1>2. RatioNum * Len(c.words) >= RatioNum * FeedKeywordsMin
  <2>1. Len(c.words) \in Nat
    BY <1>1
  <2>2. \A k, m, n \in Nat : m >= n => k * m >= k * n
    OBVIOUS
  <2>3. QED
    BY <1>1, <2>1, <2>2, FeedsAssumption
<1>3. c.overlap * RatioDen > RatioDen * (MinMatches - 1)
  <2>1. Len(c.words) \in Nat
    BY <1>1
  <2>2. /\ c.overlap * RatioDen \in Int /\ RatioNum * Len(c.words) \in Int
        /\ RatioNum * FeedKeywordsMin \in Int /\ RatioDen * (MinMatches - 1) \in Int
    BY <1>1, <2>1, FeedsAssumption
  <2>3. c.overlap * RatioDen >= RatioNum * Len(c.words)
    BY DEF StrongMatch
  <2>4. RatioNum * FeedKeywordsMin > RatioDen * (MinMatches - 1)
    BY DEF TriageCoherent
  <2>5. \A h, i, j, k \in Int : h >= i /\ i >= j /\ j > k => h > k
    OBVIOUS
  <2>6. QED
    BY <1>2, <2>2, <2>3, <2>4, <2>5
<1>4. \A x, y, d \in Nat : x * d > d * y => x > y
  OBVIOUS
<1>5. c.overlap > MinMatches - 1
  BY <1>1, <1>3, <1>4, FeedsAssumption
<1>6. QED
  BY <1>1, <1>5, FeedsAssumption

\* With just as many, it has not: a feed of the smallest size is joined on one match too few.
LEMMA JustAsManyIsNotEnough ==
  ASSUME RatioNum * FeedKeywordsMin = RatioDen * (MinMatches - 1),
         NEW c \in Candidate, Len(c.words) = FeedKeywordsMin, c.overlap = MinMatches - 1
  PROVE  StrongMatch(c) /\ ~TrivialMatch(c) /\ c.overlap < MinMatches
<1>1. c.overlap * RatioDen = RatioNum * Len(c.words)
  BY FeedsAssumption
<1>2. c.overlap * RatioDen \in Int
  BY FeedsAssumption
<1>3. QED
  BY <1>1, <1>2, FeedsAssumption DEF StrongMatch, TrivialMatch

\* No article lands in a feed on fewer common keywords than the minimum, as long as the
\* two thresholds are coherent in the strict sense.
THEOREM DiscardedStayOut ==
  ASSUME TriageCoherent
  PROVE  Spec => []NoTrivialMatch
<1>1. TypeInv /\ JudgeInv /\ [Next]_vars => (TypeInv /\ JudgeInv)'
  BY NextType, NextJudge
<1>2. TypeInv /\ JudgeInv => NoTrivialMatch
  <2> SUFFICES ASSUME TypeInv, JudgeInv,
                      NEW a \in Articles, NEW f \in FeedIds, RowsOf(a, f) > 0
               PROVE  \E c \in cands[a] : c.feed = f /\ c.overlap >= MinMatches
    BY DEF NoTrivialMatch, RowsOf
  <2>1. PICK c \in cands[a] : c.feed = f /\ ~TrivialMatch(c)
    BY DEF JudgeInv, RowsOK
  <2>2. c \in Candidate
    BY DEF TypeInv, TypeOK
  <2>3. c.overlap \in Nat
    BY <2>2 DEF Candidate
  <2>4. c.overlap >= MinMatches
    BY <2>1, <2>2, <2>3, StrongHasEnough, FeedsAssumption DEF TrivialMatch
  <2>5. QED
    BY <2>1, <2>4
<1>3. QED
  BY <1>1, <1>2, InitType, InitJudge, PTL DEF Spec

----------------------------------------------------------------------------
(* What the readers are told.                                              *)

\* The source of an active article is there, or left before the article was committed.
LEMMA NextSourceUp ==
  ASSUME TypeInv, SourceUpOK, [Next]_vars
  PROVE  SourceUpOK'
<1> USE DEF TypeInv, TypeOK, RecordsOK, SourceUpOK
<1>1. ASSUME NEW w \in Workers, NEW a \in Articles, NEW s \in Sources, NEW words \in ArticleWords,
             FindSource(w, a, s, words)
      PROVE  SourceUpOK'
  BY <1>1 DEF FindSource
<1>2. ASSUME NEW w \in Workers, Store(w)
      PROVE  SourceUpOK'
  <2>1. judging[w] \in Articles
    BY <1>2, FeedsAssumption DEF Store, JudgingOK, JudgePcs
  <2>2. QED
    BY <1>2, <2>1 DEF Store
<1>3. ASSUME NEW w \in Workers, StoreFails(w)
      PROVE  SourceUpOK'
  BY <1>3 DEF StoreFails, NoArticle
<1>4. ASSUME NEW a \in Articles, RemoveArticle(a)
      PROVE  SourceUpOK'
  BY <1>4 DEF RemoveArticle
<1>5. ASSUME NEW s \in Sources, RemoveSource(s)
      PROVE  SourceUpOK'
  BY <1>5 DEF RemoveSource
<1>6. CASE Crash
  BY <1>6 DEF Crash, NoArticle
<1>7. CASE UNCHANGED <<article, sourceUp, late>>
  BY <1>7
<1>8. QED
  BY <1>1, <1>2, <1>3, <1>4, <1>5, <1>6, <1>7
  DEF Next, JudgeStep, ClientStep, FindCandidates, Evaluate, EndJudgement, Finish, Associate, AssociateFails,
      CountFeeds, InsertFeed, UpdateFeed, DeleteFeed, MarkAsRead, Lapse, vars, tables

\* The poll for new articles and the feed's own list agree, though only the list asks for the
\* source, over every article that was committed before its source was removed.
THEOREM PollAgrees == Spec => []PollMatchesListUnlessRaced
<1>1. Init => SourceUpOK
  BY DEF Init, SourceUpOK, NoArticle
<1>2. TypeInv /\ SourceUpOK /\ [Next]_vars => (TypeInv /\ SourceUpOK)'
  BY NextType, NextSourceUp
<1>3. SourceUpOK => PollMatchesListUnlessRaced
  BY DEF SourceUpOK, PollMatchesListUnlessRaced, Polled, ListedUnread
<1>4. QED
  BY <1>1, <1>2, <1>3, InitType, PTL DEF Spec

\* A feed, once in use, stays out of the pool of free ones.
LEMMA FeedsStay ==
  ASSUME TypeInv, [Next]_vars
  PROVE  \A g \in FeedIds : feed[g].state # "free" => feed'[g].state # "free"
<1> USE DEF TypeInv, TypeOK
<1>1. ASSUME NEW c \in Clients, InsertFeed(c)
      PROVE  \A g \in FeedIds : feed[g].state # "free" => feed'[g].state # "free"
  <2>1. CASE UNCHANGED feed
    BY <2>1
  <2>2. ASSUME NEW f \in FeedIds,
               feed' = [feed EXCEPT ![f] = [state |-> "active", user |-> ClientUser[c], words |-> form[c]]]
        PROVE  \A g \in FeedIds : feed[g].state # "free" => feed'[g].state # "free"
    BY <2>2
  <2>3. QED
    BY <1>1, <2>1, <2>2 DEF InsertFeed, FreeIds
<1>2. ASSUME NEW c \in Clients, NEW f \in FeedIds, NEW list \in KeywordLists, UpdateFeed(c, f, list)
      PROVE  \A g \in FeedIds : feed[g].state # "free" => feed'[g].state # "free"
  BY <1>2 DEF UpdateFeed
<1>3. ASSUME NEW c \in Clients, NEW f \in FeedIds, DeleteFeed(c, f)
      PROVE  \A g \in FeedIds : feed[g].state # "free" => feed'[g].state # "free"
  BY <1>3 DEF DeleteFeed
<1>4. CASE UNCHANGED feed
  BY <1>4
<1>5. QED
  BY <1>1, <1>2, <1>3, <1>4
  DEF Next, JudgeStep, ClientStep, FindSource, Store, StoreFails, FindCandidates, Evaluate, EndJudgement, Finish, Associate, AssociateFails,
      CountFeeds, MarkAsRead, Lapse, RemoveArticle, RemoveSource, Crash, vars, tables

\* Every candidate of every judgement was a feed in use, and so is every feed with a row.
LEMMA NextCandidates ==
  ASSUME TypeInv, CandidatesOK, [Next]_vars
  PROVE  CandidatesOK'
<1>1. \A f \in FeedIds : feed[f].state # "free" => feed'[f].state # "free"
  BY FeedsStay
<1>2. \A a \in Articles : \A c \in cands[a] : c.feed \in FeedIds
  BY DEF TypeInv, TypeOK, Candidate
<1>3. CASE UNCHANGED cands
  BY <1>1, <1>2, <1>3 DEF CandidatesOK
<1>4. ASSUME NEW w \in Workers, FindCandidates(w), ~ UNCHANGED cands
      PROVE  CandidatesOK'
  <2> DEFINE found == Candidates(article[judging[w]].words)
  <2>1. cands' = [cands EXCEPT ![judging[w]] = found] /\ UNCHANGED feed
    BY <1>4 DEF FindCandidates, tables
  <2>2. \A a \in Articles : \A c \in cands'[a] : c \in cands[a] \/ c \in found
    BY <2>1 DEF TypeInv, TypeOK
  <2>3. \A c \in found : feed[c.feed].state # "free"
    BY CandidatesAreFeeds
  <2>4. QED
    BY <2>1, <2>2, <2>3 DEF CandidatesOK
<1>5. QED
  BY <1>3, <1>4
  DEF Next, JudgeStep, ClientStep, FindSource, Store, StoreFails, Evaluate, EndJudgement, Associate, AssociateFails,
      CountFeeds, InsertFeed, UpdateFeed, DeleteFeed, MarkAsRead, Lapse, RemoveArticle, RemoveSource, Crash, vars

\* What counts for a reader in a step: the article's own rows lose no reading and, unless it
\* is being judged, no feed gains an unread one, nor does one that is new have any.
LEMMA NothingNewToRead ==
  ASSUME TypeInv, CandidatesOK, RowsOK, [Next]_vars,
         NEW a \in Articles, article[a].state = "active", \A w \in Workers : judging[w] # a
  PROVE  \A f \in FeedIds :
            unread'[a][f] > 0 =>
               /\ unread[a][f] > 0
               /\ feed'[f].state = "active" => feed[f].state = "active" /\ feed'[f].user = feed[f].user
<1> USE DEF TypeInv, TypeOK
<1>1. \A f \in FeedIds : unread[a][f] > 0 => feed[f].state # "free"
  <2> SUFFICES ASSUME NEW f \in FeedIds, unread[a][f] > 0
               PROVE  feed[f].state # "free"
    OBVIOUS
  <2>1. RowsOf(a, f) > 0
    BY DEF RowsOf
  <2>2. PICK c \in cands[a] : c.feed = f
    BY <2>1 DEF RowsOK
  <2>3. QED
    BY <2>2 DEF CandidatesOK
<1>2. ASSUME NEW w \in Workers, NEW f \in FeedIds, Associate(w, f)
      PROVE  unread'[a] = unread[a] /\ UNCHANGED feed
  BY <1>2 DEF Associate
<1>3. ASSUME NEW c \in Clients, InsertFeed(c)
      PROVE  /\ UNCHANGED unread
             /\ \A f \in FeedIds : feed[f].state # "free" => feed'[f] = feed[f]
  BY <1>3 DEF InsertFeed, FreeIds
<1>4. ASSUME NEW c \in Clients, NEW f \in FeedIds, NEW list \in KeywordLists, UpdateFeed(c, f, list)
      PROVE  /\ UNCHANGED unread
             /\ \A g \in FeedIds : feed'[g].state = feed[g].state /\ feed'[g].user = feed[g].user
  BY <1>4 DEF UpdateFeed
<1>5. ASSUME NEW c \in Clients, NEW f \in FeedIds, DeleteFeed(c, f)
      PROVE  /\ UNCHANGED unread
             /\ \A g \in FeedIds : feed'[g].state = "active" => feed'[g] = feed[g]
  BY <1>5 DEF DeleteFeed
<1>6. ASSUME NEW c \in Clients, NEW b \in Articles, MarkAsRead(c, b)
      PROVE  /\ UNCHANGED feed
             /\ \A f \in FeedIds : unread'[a][f] > 0 => unread[a][f] > 0
  BY <1>6 DEF MarkAsRead
<1>7. CASE UNCHANGED <<feed, unread>>
  BY <1>7
<1>8. QED
  BY <1>1, <1>2, <1>3, <1>4, <1>5, <1>6, <1>7
  DEF Next, JudgeStep, ClientStep, FindSource, Store, StoreFails, FindCandidates, Evaluate, EndJudgement, Finish, AssociateFails,
      CountFeeds, Lapse, RemoveArticle, RemoveSource, Crash, vars, tables

\* An article that a user has read everywhere is never unread for the user again, unless
\* it is being judged.
THEOREM ReadStaysRead == Spec => ReadIsFinal
<1>1. Init => IInv
  BY InitType, InitJudge DEF Init, IInv, CandidatesOK, SourceUpOK, NoArticle
<1>2. IInv /\ [Next]_vars => IInv'
  BY NextType, NextJudge, NextCandidates, NextSourceUp DEF IInv
<1>3. IInv /\ [Next]_vars =>
        [\A a \in Articles, u \in Users :
           IsReadState(a, u) = "read" /\ (\A w \in Workers : judging[w] # a)
           => IsReadState(a, u)' # "unread"]_vars
  <2> SUFFICES ASSUME IInv, [Next]_vars, NEW a \in Articles, NEW u \in Users,
                      IsReadState(a, u) = "read", \A w \in Workers : judging[w] # a
               PROVE  IsReadState(a, u)' # "unread"
    OBVIOUS
  <2> DEFINE mine == {f \in FeedIds : feed[f].state = "active" /\ feed[f].user = u /\ unread[a][f] + read[a][f] > 0}
  <2>1. article[a].state = "active" /\ \A f \in mine : ~(unread[a][f] > 0)
    BY DEF IsReadState
  <2>2. \A f \in FeedIds : feed[f].state = "active" /\ feed[f].user = u => ~(unread[a][f] > 0)
    BY <2>1 DEF IInv, TypeInv, TypeOK
  <2>3. \A f \in FeedIds : feed'[f].state = "active" /\ feed'[f].user = u => ~(unread'[a][f] > 0)
    BY <2>1, <2>2, NothingNewToRead DEF IInv, JudgeInv
  <2>4. QED
    BY <2>3 DEF IsReadState
<1>4. QED
  BY <1>1, <1>2, <1>3, PTL DEF Spec, ReadIsFinal
===============================================================================
