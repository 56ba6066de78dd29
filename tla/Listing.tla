------------------------------- MODULE Listing -------------------------------
(***************************************************************************)
(* The collection endpoints: GET /articles, /sources, /feeds and           *)
(* /feeds/{id}/articles, and the keyword suggestions drawn from the same   *)
(* articles.  A client asks for a page and goes on while has_next_page     *)
(* says so; the page and the total are two statements of one READ          *)
(* COMMITTED transaction, and rows come and go around each of them.  A row *)
(* carries the time its transaction began and is seen from its commit on.  *)
(*                                                                         *)
(* One table is listed per behaviour, its rows told apart by what the      *)
(* filters test.  Simplifications: a substring test is membership; the     *)
(* width of int and of int32 is scaled down; a row of a feed's articles    *)
(* stands for the association, the article and its source at once (Feeds   *)
(* and Pipeline have the three); the feed itself stays its owner's; a      *)
(* request refused with 400 changes nothing and is left out.               *)
(***************************************************************************)
EXTENDS Lists, FiniteSetsExt

CONSTANTS
    Tables,          \* what may be listed
    Rows,            \* the ids of the table, in the order of their creation
    Stored,          \* those that are there from the start
    Info,            \* Info[r]: what r says, [url, name : SUBSET STRING, mine : BOOLEAN, words : Seq(Nat)]
    Edits,           \* Edits[r]: what an update may make of it
    RawParams,       \* pages and page sizes as the query has them; <<>> is none
    RawFilters,      \* records of the filters as the query has them
    RawPicks,        \* the keywords of a query for suggestions; 0 is a blank one
    IntMax,          \* the largest int
    Int32Max,        \* the largest int32
    DefaultPageSize, MaxPageSize,
    SuggestionLimit, \* parseSuggestionLimit's result
    Window,          \* the days "popular" looks back; negative is for ever
    MaxClock         \* bound

Contents == {Info[r] : r \in Rows} \cup UNION {Edits[r] : r \in Rows}

\* A value the query may have or not.
Optional(S) == {s \in Seq(S) : Len(s) <= 1}

ASSUME ListingAssumption ==
    /\ Tables \subseteq {"articles", "sources", "feeds", "feedArticles", "suggestions"}
    /\ Rows \subseteq Nat \ {0} /\ IsFiniteSet(Rows) /\ Stored \subseteq Rows
    /\ Int32Max \in Nat /\ IntMax \in Nat /\ Cardinality(Rows) <= Int32Max /\ Int32Max <= IntMax
    /\ \A i \in Contents : i.mine \in BOOLEAN /\ i.words \in Seq(Nat)
    /\ \A raw \in RawParams : raw.page \in Optional(Int) /\ raw.size \in Optional(Int)
    /\ \A f \in RawFilters :
          f.isRead \in {"", "true", "false"} /\ f.from \in Optional(Int) /\ f.to \in Optional(Int)
    /\ DefaultPageSize \in 1..MaxPageSize /\ MaxPageSize \in 1..Int32Max
    /\ RawPicks \subseteq SUBSET Nat /\ SuggestionLimit \in Nat \ {0}
    /\ Window \in Int /\ MaxClock \in Nat \ {0}

VARIABLES
    table,   \* what is listed
    \* its rows
    state,   \* "none", "begun" by a transaction under way, "active" or "removed"
    info,    \* what it says
    at,      \* created_at
    read,    \* is_read
    clock,   \* CURRENT_TIMESTAMP
    \* the request
    stage,   \* the statement that comes next
    query,   \* the raw query
    params,  \* pagination.Params
    docs, total,
    \* history of the walk through the pages
    begun,   \* the first page has been read
    shown,   \* shown[r]: how often r was shown
    stay,    \* rows that matched all along
    left, entered, \* a matching row went, or came, since the walk began
    moved    \* the matching rows changed between the page and its total

rowVars == <<state, info, at, read, clock>>
reader  == <<stage, query, params, docs, total>>
walk    == <<begun, shown, stay, left, entered, moved>>
vars    == <<table, rowVars, reader, walk>>

----------------------------------------------------------------------------
(* services/pagination.                                                    *)

Clamp(n, low, high) == Max({low, Min({n, high})})

\* strconv.Atoi, or the default when it fails.
Atoi(raw, default) == IF raw # <<>> /\ raw[1] \in (-IntMax - 1)..IntMax THEN raw[1] ELSE default

\* Mutation: page_size has no ceiling.
ParseParams_NoCeiling(raw) ==
    [page |-> Max({1, Atoi(raw.page, 1)}), size |-> Max({1, Atoi(raw.size, DefaultPageSize)})]

ParseParams(raw) ==
    [page |-> Max({1, Atoi(raw.page, 1)}), size |-> Clamp(Atoi(raw.size, DefaultPageSize), 1, MaxPageSize)]

\* The rows to skip, saturated.  Mutation: the product loses its high bits.
Offset_Wraps(p) ==
    ((p.page - 1) * p.size) % (Int32Max + 1)

Offset(p) == IF p.page - 1 > Int32Max \div p.size THEN Int32Max ELSE (p.page - 1) * p.size

\* Mutation: rounded down.
TotalPages_Floor(count, p) == count \div p.size

TotalPages(count, p) == (count + p.size - 1) \div p.size

HasNextPage(count, p) == p.page < TotalPages(count, p)

----------------------------------------------------------------------------
(* The queries.                                                            *)

\* nullableString, nullableBool, nullableTime: a filter that was not asked for is
\* NULL.
Nullable(raw) == IF raw = "" THEN {} ELSE {raw}

Flag(b) == IF b THEN "true" ELSE "false"

ArticlePasses(r, q) == Nullable(q.url) \subseteq info[r].url

SourcePasses(r, q) == Nullable(q.url) \subseteq info[r].url /\ Nullable(q.name) \subseteq info[r].name

FeedPasses(r, q) == info[r].mine /\ Nullable(q.name) \subseteq info[r].name

\* Both bounds of the window are inclusive.
FeedArticlePasses(r, q) ==
    /\ info[r].mine
    /\ Nullable(q.isRead) \subseteq {Flag(read[r])}
    /\ \A t \in Range(q.from) : at[r] >= t
    /\ \A t \in Range(q.to) : at[r] <= t

Passes(r, q) ==
    CASE table = "articles"     -> ArticlePasses(r, q)
      [] table = "sources"      -> SourcePasses(r, q)
      [] table = "feeds"        -> FeedPasses(r, q)
      [] table = "feedArticles" -> FeedArticlePasses(r, q)

Matching(q) == {r \in Rows : state[r] = "active" /\ Passes(r, q)}

\* ORDER BY created_at DESC, id DESC.
Newer(a, b) == at[a] > at[b] \/ (at[a] = at[b] /\ a > b)

NewestFirst == {p \in Rows \X Rows : Newer(p[1], p[2])}

\* LIMIT and OFFSET.
PageOf(q, p) ==
    LET all == InOrder(Matching(q), NewestFirst)
    IN  [k \in 1..Clamp(Len(all) - Offset(p), 0, p.size) |-> all[Offset(p) + k]]

(* SuggestKeywords.                                                        *)

Carried(from) == UNION {Range(info[r].words) : r \in from}

\* COUNT(*) of the rows the LATERAL makes of the articles of from.
Occurrences(word, from) ==
    Cardinality(UNION {{r} \X {k \in DOMAIN info[r].words : info[r].words[k] = word} : r \in from})

\* By occurrences in from, and by name.
Before(v, w, from) ==
    \/ Occurrences(v, from) > Occurrences(w, from)
    \/ Occurrences(v, from) = Occurrences(w, from) /\ v < w

ByOccurrences(words, from) == InOrder(words, {p \in words \X words : Before(p[1], p[2], from)})

\* The words of the articles of from that are no picks.
\* Mutation: the picks are suggested as well.
Ranked_WithPicks(from, picks) == ByOccurrences(Carried(from), from)

Ranked(from, picks) == ByOccurrences(Carried(from) \ picks, from)

Answered(from, picks) ==
    LET all == Ranked(from, picks)
    IN  [k \in 1..Min({SuggestionLimit, Len(all)}) |-> [word |-> all[k], count |-> Occurrences(all[k], from)]]

Active == {r \in Rows : state[r] = "active"}

\* The articles that carry any pick.
Related(picks) == {r \in Active : Range(info[r].words) \cap picks # {}}

\* suggestionSince: where the window of a request asked at now begins.
Since(now) == IF Window < 0 THEN 0 ELSE now - Window

\* The articles of the window.
Popular(since) == {r \in Active : at[r] >= since}

----------------------------------------------------------------------------
NoQuery ==
    [page |-> <<>>, url |-> "", name |-> "", isRead |-> "", from |-> <<>>, to |-> <<>>, picks |-> {}, since |-> 0]

Init ==
    /\ table \in Tables
    /\ state = [r \in Rows |-> IF r \in Stored THEN "active" ELSE "none"]
    /\ info = [r \in Rows |-> Info[r]]
    /\ at = [r \in Rows |-> 0]
    /\ read = [r \in Rows |-> FALSE]
    /\ clock = 1
    /\ stage = "idle" /\ query = NoQuery /\ params = [page |-> 1, size |-> 1] /\ docs = <<>> /\ total = 0
    /\ begun = FALSE /\ shown = [r \in Rows |-> 0] /\ stay = {}
    /\ left = FALSE /\ entered = FALSE /\ moved = FALSE

\* A request arrives and its query is parsed; the filters are asked.
Request(raw, asked) ==
    /\ stage = "idle"
    /\ query' = [asked EXCEPT !.page = raw.page]
    /\ params' = ParseParams(raw)
    /\ stage' = "page"
    /\ UNCHANGED <<table, rowVars, docs, total, walk>>

ListArticles(raw, f) == table = "articles" /\ Request(raw, [NoQuery EXCEPT !.url = f.url])

ListSources(raw, f) == table = "sources" /\ Request(raw, [NoQuery EXCEPT !.url = f.url, !.name = f.name])

ListFeeds(raw, f) == table = "feeds" /\ Request(raw, [NoQuery EXCEPT !.name = f.name])

\* The feed is the caller's: otherwise it answers 404.
FeedArticles(raw, f) ==
    /\ table = "feedArticles"
    /\ Request(raw, [NoQuery EXCEPT !.isRead = f.isRead, !.from = f.from, !.to = f.to])

\* The first statement: the rows of the page.
PageStatement ==
    /\ stage = "page"
    /\ docs' = PageOf(query, params)
    /\ shown' = [r \in Rows |-> shown[r] + Cardinality({k \in DOMAIN docs' : docs'[k] = r})]
    /\ stay' = IF begun THEN stay ELSE Matching(query)
    /\ begun' = TRUE /\ moved' = FALSE
    /\ stage' = "count"
    /\ UNCHANGED <<table, rowVars, query, params, total, left, entered>>

\* The second: how many match; the response is built of both.
\* Mutation: the filters are left out of it.
CountStatement_Unfiltered ==
    /\ stage = "count"
    /\ total' = Cardinality(Active)
    /\ stage' = "answered"
    /\ UNCHANGED <<table, rowVars, query, params, docs, walk>>

CountStatement ==
    /\ stage = "count"
    /\ total' = Cardinality(Matching(query))
    /\ stage' = "answered"
    /\ UNCHANGED <<table, rowVars, query, params, docs, walk>>

\* The client goes on.
NextPage ==
    /\ stage = "answered" /\ table # "suggestions"
    /\ HasNextPage(total, params)
    /\ params' = [params EXCEPT !.page = @ + 1]
    /\ stage' = "page"
    /\ UNCHANGED <<table, rowVars, query, docs, total, walk>>

\* A request for suggestions: with picks, the related keywords come first.
AskSuggestions(picks) ==
    /\ stage = "idle" /\ table = "suggestions"
    /\ query' = [NoQuery EXCEPT !.picks = picks \ {0}, !.since = Since(clock)]
    /\ stage' = IF query'.picks # {} THEN "related" ELSE "popular"
    /\ UNCHANGED <<table, rowVars, params, docs, total, walk>>

\* Nothing related: the popular ones, in a second statement.
RelatedStatement ==
    /\ stage = "related"
    /\ docs' = Answered(Related(query.picks), query.picks)
    /\ stage' = IF docs' # <<>> THEN "answered" ELSE "popular"
    /\ UNCHANGED <<table, rowVars, query, params, total, walk>>

PopularStatement ==
    /\ stage = "popular"
    /\ docs' = Answered(Popular(query.since), query.picks)
    /\ stage' = "answered"
    /\ UNCHANGED <<table, rowVars, query, params, total, walk>>

\* A statement fails: 500, and all that was read is lost.  The client begins anew.
StatementFails ==
    /\ stage \in {"page", "count", "related", "popular"}
    /\ stage' = "idle" /\ query' = NoQuery /\ params' = [page |-> 1, size |-> 1] /\ docs' = <<>> /\ total' = 0
    /\ begun' = FALSE /\ shown' = [r \in Rows |-> 0] /\ stay' = {}
    /\ left' = FALSE /\ entered' = FALSE /\ moved' = FALSE
    /\ UNCHANGED <<table, rowVars>>

----------------------------------------------------------------------------
(* The others.                                                             *)

\* What a write of theirs does to the walk under way.
Disturb ==
    IF begun
    THEN LET before == Matching(query)
             after  == Matching(query)'
         IN  /\ stay' = stay \cap after
             /\ left' = (left \/ before \ after # {})
             /\ entered' = (entered \/ after \ before # {})
             /\ moved' = (moved \/ before # after)
             /\ UNCHANGED <<begun, shown>>
    ELSE UNCHANGED walk

\* A transaction that creates a row begins: created_at is its CURRENT_TIMESTAMP.
Begin(r) ==
    /\ state[r] = "none"
    /\ state' = [state EXCEPT ![r] = "begun"]
    /\ at' = [at EXCEPT ![r] = clock]
    /\ UNCHANGED <<table, info, read, clock, reader, walk>>

Commit(r) ==
    /\ state[r] = "begun"
    /\ state' = [state EXCEPT ![r] = "active"]
    /\ UNCHANGED <<table, info, at, read, clock, reader>>
    /\ Disturb

SoftDelete(r) ==
    /\ state[r] = "active"
    /\ state' = [state EXCEPT ![r] = "removed"]
    /\ UNCHANGED <<table, info, at, read, clock, reader>>
    /\ Disturb

MarkRead(r) ==
    /\ table = "feedArticles" /\ state[r] = "active" /\ ~read[r]
    /\ read' = [read EXCEPT ![r] = TRUE]
    /\ UNCHANGED <<table, state, info, at, clock, reader>>
    /\ Disturb

\* UpdateArticle, UpdateSource, UpdateFeedByIDAndUser: the row may come to match, or
\* cease to.  (What is tested of a feed's articles no update changes.)
Update(r) ==
    /\ table # "feedArticles" /\ state[r] = "active"
    /\ \E i \in Edits[r] \ {info[r]} : info' = [info EXCEPT ![r] = i]
    /\ UNCHANGED <<table, state, at, read, clock, reader>>
    /\ Disturb

Tick ==
    /\ clock < MaxClock
    /\ clock' = clock + 1
    /\ UNCHANGED <<table, state, info, at, read, reader, walk>>

Next ==
    \/ \E raw \in RawParams, f \in RawFilters :
          ListArticles(raw, f) \/ ListSources(raw, f) \/ ListFeeds(raw, f) \/ FeedArticles(raw, f)
    \/ PageStatement \/ CountStatement \/ NextPage
    \/ \E picks \in RawPicks : AskSuggestions(picks)
    \/ RelatedStatement \/ PopularStatement \/ StatementFails
    \/ \E r \in Rows : Begin(r) \/ Commit(r) \/ SoftDelete(r) \/ MarkRead(r) \/ Update(r)
    \/ Tick

Spec == Init /\ [][Next]_vars

----------------------------------------------------------------------------
(* Properties.                                                             *)

\* What a request may have asked for.
Queries ==
    [page : Optional(Int), from : Optional(Int), to : Optional(Int), picks : SUBSET Nat, since : Int,
     url : {""} \cup {f.url : f \in RawFilters}, name : {""} \cup {f.name : f \in RawFilters},
     isRead : {"", "true", "false"}]

\* Every variable holds a value of its type; no page is longer than it may be.
TypeOK ==
    /\ table \in Tables
    /\ state \in [Rows -> {"none", "begun", "active", "removed"}]
    /\ info \in [Rows -> Contents]
    /\ at \in [Rows -> 0..MaxClock] /\ read \in [Rows -> BOOLEAN] /\ clock \in 1..MaxClock
    /\ stage \in {"idle", "page", "count", "related", "popular", "answered"}
    /\ query \in Queries /\ params \in [page : Nat \ {0}, size : 1..MaxPageSize]
    /\ total \in 0..Cardinality(Rows)
    /\ table # "suggestions" => Len(docs) <= params.size /\ Range(docs) \subseteq Rows
    /\ shown \in [Rows -> Nat] /\ stay \subseteq Rows /\ \A b \in {begun, left, entered, moved} : b \in BOOLEAN

\* The walk began at the first page, which is also what a page the query gives
\* wrongly stands for.
FromTheStart == query.page = <<>> \/ query.page[1] \in (-IntMax - 1)..1 \/ query.page[1] \notin (-IntMax - 1)..IntMax

WalkEnded == stage = "answered" /\ table # "suggestions" /\ ~HasNextPage(total, params)

\* A client that follows has_next_page from the first page on has seen every row
\* that matched all along, whatever was created meanwhile, by transactions that
\* committed in another order than they began in; only a row that went may hide
\* another one from it.  It is shown no row twice, unless one came meanwhile.
WalkIsExact ==
    /\ WalkEnded /\ FromTheStart /\ ~left => \A r \in stay : shown[r] > 0
    /\ ~entered => \A r \in Rows : shown[r] <= 1

\* A total that nobody disturbed agrees with its page, and has_next_page is true
\* exactly when there are rows after it.
TotalFitsPage ==
    stage = "answered" /\ table # "suggestions" /\ ~moved =>
        /\ Len(docs) = Clamp(total - (params.page - 1) * params.size, 0, params.size)
        /\ HasNextPage(total, params) <=> total > params.page * params.size

\* What the filters of a query ask for, said once more.
AskedFor(q, r) ==
    /\ state[r] = "active"
    /\ table \in {"feeds", "feedArticles"} => info[r].mine
    /\ table \in {"articles", "sources"} /\ q.url # "" => q.url \in info[r].url
    /\ table \in {"sources", "feeds"} /\ q.name # "" => q.name \in info[r].name
    /\ table = "feedArticles" =>
        /\ q.isRead = "true" => read[r]
        /\ q.isRead = "false" => ~read[r]
        /\ q.from # <<>> => at[r] >= q.from[1]
        /\ q.to # <<>> => at[r] <= q.to[1]

\* A page holds the rows the query asks for and no others, at the places its number
\* says, however far past the end or past an int32 that is.
RightPage ==
    [][stage = "page" /\ stage' = "count" =>
        LET place(r) == Cardinality({o \in Rows : AskedFor(query, o) /\ (o = r \/ Newer(o, r))})
            first    == (params.page - 1) * params.size
        IN  /\ Range(docs') = {r \in Rows : AskedFor(query, r) /\ place(r) \in (first + 1)..(first + params.size)}
            /\ \A i, j \in DOMAIN docs' : i < j => Newer(docs'[i], docs'[j])]_vars

\* Suggestions are none of the picks; a suggestion's count is the number of articles
\* behind it when no article repeats a keyword; and a client with picks gets popular
\* ones only when none is related.
SuggestionsAreHonest ==
    [][stage' = "answered" /\ stage \in {"related", "popular"} =>
        LET from == IF stage = "related" THEN Related(query.picks) ELSE Popular(query.since)
        IN  /\ stage = "related" => docs' # <<>>
            /\ \A k \in DOMAIN docs' :
                /\ docs'[k].word \notin query.picks
                /\ (\A r \in from : IsInjective(info[r].words)) =>
                       docs'[k].count = Cardinality({r \in from : docs'[k].word \in Range(info[r].words)})
                /\ \A w \in Carried(from) \ query.picks :
                       \/ \E j \in DOMAIN docs' : docs'[j].word = w
                       \/ Occurrences(w, from) <= docs'[k].count]_vars
=============================================================================
