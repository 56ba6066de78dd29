# A verification project for news-feed-backend

TLA+ modules of the backend's core logic, TLC configurations that check them on
small instances, and TLAPS proofs, for every value of the constants, of every invariant
and action property that the passing runs check and of the one refinement. Paths are
those of the repository (`src/` is its root). The reference is always the code. Where a
comment or a test of the repository says otherwise, it is one of two: a finding with a
run that shows it (`PROJECT.json`), or one of the disagreements that section 4 lists and
no run shows.

## 1. Inventory

The backend is one Go process (Fiber, PostgreSQL, an AI provider) that discovers
articles in RSS feeds, treats and stores them, judges which users' feeds they
belong to, and serves them. All shared state is in PostgreSQL. Transactions are
opened with default options (`controllers/transaction.go`), hence READ COMMITTED:
that, not Go's memory model, is where interleavings bite.

| part | state | operations | interacts with | what makes it correct |
|---|---|---|---|---|
| scheduler and sweep (`services/cron`, `TreatmentProcessor.Process`) | the engine's token, two worker pools, `system.last_article_discovery_at` | tick, skip, read the switch, fetch, cap, process, mark | feeds, pipeline, maintenance switch | sweeps never overlap, pools stay bounded, the schedule never dies, nothing is forgotten |
| discovery pipeline (`services/discovery/processor.go`) | `articles`, `article_outbound_links` | exists?, resolve links, keywords, insert, retarget, commit, judge | administrators' endpoints, through the same rows | one active article per URL, judged once, links that lead where their author pointed |
| article and source administration (`endpoints/v1/articles`, `sources`) | the same rows, `sources` | create, update, delete, delete a source with its articles | pipeline | the removal of a source takes its articles, that of an article the links to it |
| judgement (`services/judgement`, `processor.go` `judge`) | `articles_feeds` | find candidates, triage, ask the AI, associate | feeds that change meanwhile | strong matches arrive, trivial ones do not, nothing twice |
| feeds and read state (`controllers/feeds.go`, `articles_feeds.go`) | `feeds`, `articles_feeds.is_read` | create under a limit, update, delete, mark as read, poll, list | judgement, removals | the limit, reading is final, badge and list agree |
| sessions (`controllers/auth.go`, `refresh_tokens.go`) | `users`, `refresh_tokens`, access tokens | log in, refresh, log out, invalidate | middlewares | a revoked session is dead at once and for good; one session per user |
| administrators and maintenance (`middlewares`, `system`) | `users.admin`, `system.app_status` | guard, exemption, toggle | every request, the scheduler | rights are current, maintenance holds and can be ended |
| outbound links (`services/outboundlinks`) | bodies with ids in place of hrefs, `article_outbound_links` | assign, resolve, retarget | pipeline, reads, `CLIENT_URL` | Resolve gives back what Assign took, wherever the client and the articles have moved since |
| text treatments (`urltreatment`, `embedtreatment`, `sanitize`) | the body on its way to the row | url treatment, embed treatment, sanitising; each may fail and be skipped | pipeline, the dry run of `treatment.go`, translation | what is served is safe and links where it should, whichever step failed |
| AI clients (`services/ai`) | the attempts of one call | keywords, judge, translate, with retries | pipeline, judgement, translation | an answer within range, or an error, in time, and no reply asked for again |
| feed fetching (`discovery.go`) | the attempts of one call | fetch, retry, filter | sweep, `article_discovery.go` | an outcome in time |
| source discovery (`services/rss`, `safehttp`) | candidates under a mutex, a budget | read the page, probe, validate | source endpoints | nothing lost but by a failure, in time, no private address dialed |
| listings and suggestions (`services/pagination`, filters) | none | page, total, filters, related and popular keywords | all tables | a walk over pages misses and repeats nothing it should not |
| translation (`translate.go`) | none | resolve, translate, sanitise | AI clients, outbound links | no link or player is lost |
| users, preferences, OAuth state, HTTP shell, seed tool, migrations | — | — | — | see section 8 |

Hard behaviours: statements of concurrent transactions interleaving at READ
COMMITTED (pipeline, feeds, sessions); work that spans several transactions with a
slow call in between (judgement); statements that fail and processes that die
between two commits; an overlapping or dying schedule; row-lock deadlocks; other
sides that answer late, wrongly or never; pages of a list that changes between them.
`PROJECT.json` lists each hazard at its line with the properties that watch it.

## 2. Modules and plan

| module | models | status |
|---|---|---|
| `Catalogue` | what the article store promises, abstractly | done |
| `Pipeline` | the treatment of items and the administrators' writes, statement by statement; refines `Catalogue` | done |
| `PipelineProofs` | theorems about `Pipeline`: its rows, that it implements `Catalogue`, its links and sources | done |
| `Feeds` | feeds, judgement, read state | done |
| `Sweep` | scheduler, pools, watermark, maintenance | done |
| `Access` | sessions, middleware chain, maintenance switch | done |
| `ArticleBody` | the body of one article: treatments, ids for links, `CLIENT_URL`, what is served and translated | done |
| `Calls` | one outgoing call: retries, time-outs, parsing of replies, the search for feeds within its budget | done |
| `Listing` | pages, totals, filters and suggestions while rows come and go | done |
| `Lists` | the loops over a list the code has everywhere (keep what passes, keep what is new, put what each gives one after the other), and the list `ORDER BY` makes of a set | done |
| `ListsProofs` | what those loops return, for lists of any length, and the place of a row in an order | done |
| `FeedsProofs`, `AccessProofs`, `SweepProofs`, `CallsProofs`, `ListingProofs`, `BodyProofs` (about `ArticleBody`) | theorems about these six | done |
| `Preferences` | preferences and the token issued after they change | later |

The order is that of the damage done when a part is wrong: the article store, what
users receive, the schedule that feeds both, who gets in, then what a reader is shown and
what is asked of others.
`Pipeline` hands an article to judgement and `Feeds` takes it from there; `Sweep`
sees an item as stored or dropped. The three share no variable, so each is checked
alone, and the step they share (store an article) is kept at full grain only in
`Pipeline`. In the same way `Pipeline` has the rows of several articles and their
races but only one link per article, and `ArticleBody` one article with every kind of
node and link; `Sweep`, `Feeds` and `Pipeline` take from a call an outcome, and
`Calls` says which outcomes there are and when they come; `Feeds` has the unread list
as a set, `Listing` its pages.

Every invariant and action property of a passing run is proved; what is left to TLC is
in section 8. Modules keep to what the provers can reach: parameters are constants with named
assumptions, and no module of this project has a RECURSIVE operator.

## 3. Correspondence

`PROJECT.json` `map` gives the source lines of each definition. Conventions:

* The grain is the SQL statement. A transaction's last write and its COMMIT are one
  step. `pc[p]` names the statement a process runs next.
* `Pipeline`: rows are functions of the article id; a row is `"pending"` between its
  INSERT and its COMMIT. `IndexHolders` is the partial unique index: an INSERT waits
  for a pending holder of its URL. `pend[p]` are the outbound rows `p`'s transaction
  has updated, and at the same time its row locks; `ApplyPend` is its commit. `body`
  says what an anchor holds (an id, or a raw href), `link` what its row points at.
  `Take`/`Skip` are `alreadyExists`, `ResolveInternalURLs` the url treatment's
  look-ups, `FindSource`..`Commit` are `persist`, `Judge` the hand-over. Nothing keeps
  sweeps and administrators apart, neither in the code nor here. `crossed` and `missed`
  are history (`Remember`): the articles removed, or stored, while another process
  carried a link to them in its locals or in its open transaction, the articles a failed
  look-up overlooked among the second.
* `Feeds`: `unread` and `read` count the rows of `articles_feeds` per article and
  feed. `FindCandidates`, `Evaluate`, `Associate` and `EndJudgement` are `judge`;
  a score is only whether it reaches the threshold. `FindSource` and `Store` are the
  check of the source and the COMMIT, between which the source may be removed; `late`
  (history) are the articles to which that happened. `CountFeeds` and `InsertFeed` are
  the two statements of `FeedController.Create`.
* `Sweep`: `token` is the channel of `SkipIfStillRunning`; `Tick` takes it, `Return`
  gives it back, on every path of `Run`. `fetching` and `working` are the goroutines
  of the pools; `pooled` tells whether a panic is on a goroutine of its own. `Halt` and
  `Restart` are the end of the process and the deployment's `restart: unless-stopped`.
* `Access`: a request is at `"guard"`, `"guardSession"`, `"guardAdmin"` (the
  maintenance guard and its exemption), `"session"` (`validateSession`), `"isAdmin"`
  (`requireAdmin`) or `"serve"`. Route `"user"` is any user's route behind the guard,
  `"curate"` any administrators' route behind it (guard, session and `requireAdmin`, as
  for sources and articles), `"manage"` any administrators' route outside it. `snap` is what a waiting UPDATE
  saw when it started; `tokLock` and `userLock` are row locks. `gone`, `entitled` and
  `raced` are history, kept by `Remember`.
* `ArticleBody`: a URL is a sequence of pieces of text, so that "starts with" is a
  prefix (`HasPrefix`, with what is left in `Rest`); `Texts` are the pieces there are. A
  body is the sequence of its nodes that a treatment looks at. `TreatUrls`,
  `TreatEmbeds`, `Clean` and `Persist` are the steps of `processOne` on the body, the
  best-effort ones with a flag for their failure; the dry run of `treatment.go` applies
  the same functions and stores nothing. `Served` and `Translated` are what the read
  endpoints compute. `clean`, `home`, `astray` and `failed` are history.
* `Lists` is `for _, x := range list { if ... { out = append(out, x) } }`, with a test
  (`Kept`), a map of what was seen (`Once`) or several values for an `x` (`Joined`): the
  filters of `discovery.go`, the deduplication of links, feeds and keywords, the walks over
  the nodes of a body. `InOrder` is ORDER BY with a total order. `Calls`, `ArticleBody`,
  `Sweep` and `Listing` use them.
* `Calls`: one call at a time, since calls share nothing. `"waiting"` and `"pause"` are
  an attempt and the pause of `retry.Do`; `"page"`, `"probe"`, `"validate"` the steps of
  `rss.Discover`, with `pending` its requests under way. `Due` is the Go timer that is
  running; `Tick` stops there until what the timer does has been done. A model's reply
  is its shape and its words, after the code fence and the JSON decoder; `Trim` and
  `Lower` are what the code does to a word. `Feed` ends a fetch or, with the transaction
  that looks the items up, a dry run (`DryRun`), which fails when the transaction does.
* `Listing`: `PageStatement` and `CountStatement` are the two statements of a listing,
  each with a snapshot of its own; `NextPage` is a client that follows
  `has_next_page`. `StatementFails` is the 500 of any of them, after which the client
  starts again. `Begin` gives a row its `created_at` and `Commit` shows it; `Update` edits
  it, so that it may enter or leave a filter. The window of popular keywords is computed
  when the request comes (`Since`), before the statements. `shown`,
  `stay`, `left`, `entered` and `moved` are history, kept by `Disturb`.

## 4. Runs

| run | shows |
|---|---|
| `pipeline_concurrent` | two workers and an administrator at any moment, an item that occurs twice, failures, crashes: `UniqueActiveUrl`, `JudgedAtMostOnce`, `LinkFidelity`, and that `Pipeline` implements `Catalogue` |
| `pipeline_links` | two workers and an administrator who edits and removes at any moment, look-ups and rewrites that fail: `NoDeadLinkUnlessCrossed`, `NoMissedLinkUnlessPassed`, `SourceTakesItsArticles` |
| `pipeline_dead_link`, `pipeline_source_race` | two promises of the comments, `NoDeadInternalLink` and `ActiveHasActiveSource`, fail when an administrator writes during a sweep (findings) |
| `feeds` | judgement against two users who own feeds and the administrator, with failures of database, AI and process: what arrives, once, read for good, and that badge and list part only over articles that overtook the removal of their source (`PollMatchesListUnlessRaced`) |
| `feeds_limit` | the feed limit under two concurrent requests (finding) |
| `sweep` | the schedule, its pools and its liveness under every fault; that no part of a sweep leaves work to the parts after it (`TypeOK`) |
| `sweep_panic` | a panic in a pool ends the process (finding) |
| `access` | the safety of sessions, rights and maintenance, and that every request is answered in spite of lock-order deadlocks |
| `article_body` | every link a reader is served leads where it should (`LinksLeadHome`), with bodies, articles and the client changing; `EmbedsAreSafe`; `TranslationKeepsBody` |
| `calls` | `CallsEndInTime` and `CallEnds` against an other side that never answers; `NoSecondPurchase`; `RepliesAreSane`; `SearchIsSound` for probes that run at once |
| `listing` | a walk over the pages of each listing (`WalkIsExact`), page against total, every page and every parameter against a reference definition (`RightPage`), suggestions |

Disagreements of the code with its comments that no run states:

* `processOne` is described as "safe to run concurrently with itself"
  (`processor.go:140-141`). As far as the comment goes on to say, about duplicates, it is
  (`UniqueActiveUrl`, `JudgedAtMostOnce`); but two articles that link to each other and are
  stored at once by two workers stay linked externally. `NoMissedLinkUnlessPassed` is the
  promise with that case taken out; with FALSE for `b \in missed` it fails in
  `pipeline_links` with the faults removed.
* The comment at `judgement.go:46-55` gives `autoAssociateRatio *
  schemas.FeedKeywordsMin >= minMatches - 1` as the condition under which an overlap of
  one keyword is discarded. It has to be strict: with a ratio of 1/5, five keywords and
  a minimum of two it holds with equality, and `NoTrivialMatch` fails in `MCFeeds` with
  `RatioNum = 1`, `RatioDen = 5`. `JustAsManyIsNotEnough` (section 6) proves the point.
* `ai/keywords.go:11` and `ai/ai.go:16` and `:37` speak of 5 to 20 keywords, and
  `endpoints/v1/articles/create.go:82` answers "at most 20 items". The limit of an article
  is 30 (`schemas/articles.go:7-10`, which says why; `keywords_test.go:43-44` allows 30),
  and that is what both places enforce. `RepliesAreSane` is about the limits enforced.
* The query behind popular keywords takes keywords to be unique within an article
  (`articles.sql.go:277`), which creating an article through the API does not enforce:
  a repeated keyword counts twice. `SuggestionsAreHonest` has that as a premise.

* `tests/end-to-end/api/auth/auth_flow_test.go:143` calls it the single-session policy that
  a second login invalidates the first session. Two logins of one user that overlap leave
  two live sessions, each `RevokeAll` being blind to the other's uncommitted token
  (`auth.go:73-100`); `OneSessionUnlessRaced` says that nothing else does.

One more thing the models show, which contradicts no comment:

* A reader who marks articles as read while paging through the unread ones skips
  articles: every mark shrinks the list under the next offset. `WalkIsExact`
  therefore speaks of walks no row leaves; without its premise `~left` it fails.

## 5. Bounds, and why they are enough

* `Pipeline`: two URLs whose articles link to each other (the shortest cycle of
  links), two workers and one administrator, two article ids (both URLs held at once, a
  duplicate attempted, or a URL that comes back after its article's removal; three in
  `pipeline_dead_link`). In
  `pipeline_concurrent` a third item repeats the first URL; in `pipeline_links` the URLs
  have a source each, so that one may go and the other stay. `UpdateArticle` is left out
  of the first, since `LinkFidelity` does not hold with it (an update takes an article
  away from the links to it), and is part of the second. With no id left an INSERT fails,
  like any other error.
* `Feeds`: two users with a client each, two feed ids, so that one user may have both,
  each may have one, and a feed can be deleted and made again; one worker, which is
  enough for an article to overtake the removal of its source (1.1 million states). In
  `feeds_limit` two clients of one user and three feed ids for a limit of two. Keyword
  lists of five and of six with a repeated word, so that an overlap of two is strong
  for one and borderline for the other; ratio 2/5, minimum 2.
* `Sweep`: two feeds with two items and one, a pool of two, two job goroutines (one
  more than may run), time up to two ticks: ticks go on afterwards at the same time.
  `MaxArticles` is the production value -1. With a cap `Rediscovered` fails: the
  items behind the cap wait for ever when those before it are skipped each time.
* `Access`: one user, two sessions (one a login can end), two requests at once. Two
  transactions are enough for PostgreSQL's deadlocks here, because a login and a refresh each lock at most two kinds of row.
  An access token never outlives its session (60 minutes and 30 days in the
  deployed settings; a refresh extends both), so a session only ages out after its
  access token.
* `ArticleBody`: every body of one node, and of two where one is a link and the other
  a link or an Instagram post: each treatment looks at one node at a time, and two are
  enough for an href that occurs twice. Beside the one that is followed three articles
  come and go: one with an absolute URL, one with a relative one and one whose URL is a
  page of our client, which `discovery.go:61` stores as the feed gives them. A body may have as many links as there are `OutboundIds`; four are enough
  for every body of the run. `CLIENT_URL` is unset, `client.com` or `client.com.br`: the second is a
  text prefix of the third, which is the case `isURLBoundary` exists for.
* `Calls`: an attempt times out after 2 ticks and the search after 3, so that the
  budget cuts a request short and a search of several steps does not fit in it; the
  retries are the code's (2 and 3), with its doubling pauses. Keyword lists of 2 to 3
  words stand for the code's limits: replies with blanks and repeats fall on both
  sides of both, and words in capitals and with blanks around them become repeats. Three common paths for the code's thirteen: they are probed alike and
  meet only in the list they append to.
* `Listing`: four rows, two of them stored from the start with equal `created_at`, the
  others in any order of begin and commit, one that an edit takes out of the filters and
  one that it brings in; pages of 1 to 3 rows. Go's `int` and `int32`
  are scaled to 31 and 15, so that page numbers beyond either, and products beyond the
  second, are among the parameters. `clock` goes to 2, which separates rows created
  before and after, and inside and outside the window of popular keywords.

Symmetry is declared only where no temporal property is checked. In `pipeline_links` the
two URLs, with their items and sources, are alike as well and trade places together. Action properties
and the refinement of `pipeline_concurrent` are step properties, for which TLC
accepts it. Deadlock is not checked where the system really stops: `Calls` ends with
its call, `Listing` with the last page.

## 6. What is proved

All theorems hold for every value of the constants (any number of processes, rows,
users, items, replies; any faults) that satisfies the module's named assumption, which
says no more than the code's types do, but for `ArticleBody`, `Calls` and `Listing` (see there).
Where a theorem has a premise of its own, it is given with its reason.

### Rows and the catalogue

`PipelineProofs`, from `PipelineAssumption` alone (the sets are disjoint where the
code's types are):

* `TypeCorrect`: `Spec => []TypeOK`.
* `UrlsStayUnique`: `Spec => []UniqueActiveUrl`.
* `JudgementIsUnique`: `Spec => []JudgedAtMostOnce`.

Neither safety property is inductive. Uniqueness of active rows is not kept by
`Commit` unless the index also covers uncommitted rows (`IndexUnique`), and
`Commit` and `Judge` only do what they should if the row a process carries is in the
state its program counter implies (`OwnState`), carried by nobody else
(`OwnDistinct`) and not judged yet (`OwnUnjudged`, `Unjudged`). `RowInv` is their
conjunction, `IInv == TypeInv /\ RowInv`; `TypeInv` adds to `TypeOK` what the program
counter says of the locals. `NextType` and `NextInv` show `IInv` inductive, action by
action, the rest by frame lemmas: most actions leave the rows alone (`RowFrame`).
The proof needs neither finiteness nor a bound: the argument is the index.

Its second part proves `StoreIsCatalogue`: `Spec => ImplementsCatalogue`, under the
mapping live[u] = the row the look-up by URL returns, used = the published ids. The
look-up is a `CHOOSE`; `FoundOne` shows from `IndexUnique` that it has one possible
answer, before and after each step. `HasUrl` (a row of the index has a URL) is the
one invariant added, without which a commit could publish under no URL at all.
`WithdrawStep`, `PublishStep` and `MoveStep` say when a change of the rows is a step
of the catalogue; `NextImplements` sorts the actions among them: a commit and an
administrator's INSERT publish, an update moves, and all the rest withdraws what it
removes, which for most actions, rollbacks and crashes is nothing.

### Links and sources

The third part of `PipelineProofs`, on top of `IInv` and `HasUrl`, and with sweeps,
removals, retro-linking and failures racing freely in all of it:

* `LinksStayFaithful`: `LinkFidelity`, where administrators do not use `UpdateArticle`
  (`"update" \notin AdminOps`, as in `pipeline_concurrent`). An update may move an article
  to another URL, and the links that led to it do not follow. `FidelityInv` adds to the
  rows (`LinksLead`) what each transaction is about to write (`CarriesLead`): a worker that
  has resolved an href has resolved it to an article that is published under it and stays
  so.
* `LinksStayLive`: `NoDeadLinkUnlessCrossed`, without a premise. The promise of
  `delete.go:29-32` is false (`pipeline_dead_link`); what is true is that one thing only
  defeats it, a link that another process carried while a removal had its clean-up behind
  it and its commit ahead. `RowsSound` says that a row which leads to an article is
  updated by whoever is removing it, `TreatedSound` and `PendOwn` what the locals and open
  transactions of the others hold. It speaks of the rows of served bodies: an anchor left
  raw by a failed Assign has no row, and no clean-up reaches it.
* `LinksAreRetro`: `NoMissedLinkUnlessPassed`, without a premise and for any number of
  workers: what defeats retroactive linking is a link carried by another process while its
  article, the rows already repointed, was about to be committed, or a look-up that failed.
* `SourcesTakeTheirArticles`: `SourceTakesItsArticles`, of every step, whatever runs beside
  it. That no active article is ever on a removed source, as `sources.go:119-121` has it,
  is false (`pipeline_source_race`), and so is no theorem.

`TypeCorrect` proves besides the types that an anchor with an id has its row (`IdsHaveRows`).

### Feeds

`FeedsProofs`: `TypeCorrect`, `OnceInAFeed` (`OneRowPerFeed`), `StrongAreDelivered`
(`StrongMatchDelivered`), `DiscardedStayOut` (`NoTrivialMatch`), `PollAgrees`
(`PollMatchesListUnlessRaced`) and the action property `ReadStaysRead` (`ReadIsFinal`).
No index keeps a row of `articles_feeds` single. What does is the order of a
judgement: `JudgingOK` (one worker has the article, and has it alone), `PassedOK` (a feed on
the list of those to associate has no row yet) and `RowsOK` (a row goes back to a candidate
that was not dropped). `PollAgrees` needs that the source of an active article is there or was removed before
the article was committed (`SourceUpOK`): the race of `pipeline_source_race`, which does
part badge and list.
`DiscardedStayOut` has the premise `TriageCoherent`, the condition of the comment at
`judgement.go:46-55` made strict; `JustAsManyIsNotEnough` shows that the comment's own form
is not enough.

### Sessions, rights and maintenance

`AccessProofs`: `TypeCorrect`, `RevokedIsFinal` (`RevokedForGood`), `RevokedIsRefused`
(`NoServeAfterRevoke`), `AdminsOnly` (`AdminIsCurrent`), `MaintenanceKeepsOut`
(`MaintenanceHolds`) and `OneSession` (`OneSessionUnlessRaced`). `AdminsOnly` covers the administrators' routes on
both sides of the maintenance guard. `GoneOK` says that a
request whose session was revoked before it came has not passed `validateSession`;
`EntitledOK` that a request let into its route was entitled at some moment since it came;
`SessionsOK` that a login which overlapped no other of its user knows all of the user's
sessions, first by its snapshot and then by its locks, so that it revokes them all.
Sessions and requests are finite in number, which the count in one property relies on.

### The schedule

`SweepProofs`: `TypeCorrect`, `OneSweep` (`OneBoundedSweep`) and `WatermarkIsMonotonic`: the
discovery watermark never moves back. `TypeOK` holds only because every fetch and every item
is waited for before the part after it begins (`Returns`). `TokenOK` ties the token to the one job that is not
idle, also over a panic and a restart; `PoolsOK` says that work is in flight only where the
job waits for it, and never more than the bound (by cardinality, for any bound);
`ClockOK` that the watermark is not ahead of the sweep that runs.

### Calls

`CallsProofs`: `TypeCorrect`, `EndsInTime` (`CallsEndInTime`), `OnePurchase`
(`NoSecondPurchase`), `AnswersAreSane` (`RepliesAreSane`) and `SearchFindsFeeds`
(`SearchIsSound`), for any time-out, budget, reply, feed, page and set of addresses. Of
trimming and lower-casing the assumption asks that doing either twice changes nothing and
that their order does not matter.
`TimeOK` says what precedes the n-th attempt: n - 1 time-outs and the doubling pauses after
them. `SearchInv` says of each candidate and each common path that it is still to be
asked, in the list, no feed, or lost to a failure. `RepliesAreSane` rests on
`KeptProperties` and `OnceProperties` of `ListsProofs`: what the filtering and the
deduplication loops return for a list of any length. Those are proved by induction over
sets of numbers (`Induction`, from the well-foundedness of Nat), since the library's
induction theorems cannot be instantiated here; `Iteration` shows that a recursive
function has the equation it is defined by.

### Listings

`ListingProofs`: `TypeCorrect`, `WalksAreExact` (`WalkIsExact`), `TotalsFit`
(`TotalFitsPage`), and the action properties `PagesAreRight` (`RightPage`) and
`SuggestionsHonest` (`SuggestionsAreHonest`), for any table, rows, filters, page sizes,
widths of the integers and writers around the client. The assumption asks the rows to be
finite and no more of them than an `int32` counts, which is what makes the saturated offset
safe: no row has a place that high.

A page is what `InOrder` makes of a set. `PlaceBounds`, `SortedExists` and
`InOrderProperties` (`ListsProofs`) replace that list by numbers: the place of a row is how
many come up to it, and the list has each row at its place. `PlaceGrows` says that a
smaller set has smaller places, on which the two halves of `WalkIsExact` rest. While rows
only leave, places only fall, so what was shown stays behind the walk (`ShownOnceOK`);
while rows only come, places only rise, so what matched from the start and was not shown is
still ahead of it (`NothingSkippedOK`). A newly committed row may come anywhere in the
order, so neither half is true without its own premise. `PageFitsOK` keeps the length of
the page until its total is read. `IInv` is these three and `TypeInv`.

### Bodies

`BodyProofs`: `TypeCorrect`, `LinksAlwaysLeadHome` (`LinksLeadHome`), `EmbedsAlwaysSafe`
(`EmbedsAreSafe`) and `TranslationsKeepBody` (`TranslationKeepsBody`), for bodies of any
length, with any number of other articles that come and go in any order and any number of
moves of the client.

`ArticleBodyAssumption` asks for what the code sees to, that article URLs are each their own
(the unique index; `Pipeline` has its proof) and the generated ids distinct, and of the
deployment that `CLIENT_URL` is absolute when it is set. An article's URL may be anything a feed brings, a relative one
or a page of our client included, since `discovery.go:61` stores `item.Link` unchecked (the
administrators' path has `isValidURL`). What that costs is in the properties. `Promised`
leaves out links to an article whose own URL is under the client the body was treated for, links to
an article that came or went during the treatment (`astray`), and URLs that hold the token's
own text. `TranslationKeepsBody` leaves out a translation while the URL of a removed article
is one that the sanitiser drops (a relative one): a link that fell back to it is served, and lost
in the translation.

`LinksLeadHome` speaks of what `Resolve` computes from a body of ids and of rows that others
rewrite. `StageOK` carries the treatment: the client does not change during it, the body is
a list of nodes until it is sanitised and of `CleanNodes` (safe links, allowed players) from
then on, and its players name the host of the treatment (`Embedded`). From the store on
`LinksOK` says that the body is `AssignedBody` of the sanitised one, and that each of its
links has a row with its id that holds what `HeldIn` allows: for a link to an article, its
URL or its internal page, the latter exactly while it is active, unless it went astray; for
every other link `ToStored` of it. A retarget of one article must not touch a row of
another, which is where the URLs being distinct is needed, and that of a promised link not being
a page of the client's. `Resolve` after `Assign` then gives each link at its place (the ids are distinct), and
`ToStored`/`Expand` carry what follows the client's prefix to where the client is now. `TranslationKeepsBody` rests on the sanitiser leaving such a
body as it is: each served node is a `CleanNode`, and `JoinedSingletons` puts them
together again.

## 7. Fairness

* `Sweep`: weak fairness of the tick (the engine's clock), of each step of `Run`, and
  of the restart (compose's restart policy). `Goodwill`, strong, for the run's
  success: a feed or an item that is tried again and again is not refused for ever.
  `SweepsGoOn` needs only that the switch can be read again and again.
* `Access`: strong fairness of each request's own steps, because a row lock is granted
  in the order it was asked for. Nothing is owed a failure: `Fail` is not part of it, so
  requests end by their own steps or by a deadlock's victim. That an administrator who
  keeps asking ends a maintenance window would need fairness of their client, which
  nothing in the code grants: it is not stated.
* `Calls`: `WF_vars(Timers)`, the process's own steps and the timers that are due.
  No answer is owed: `CallEnds` holds against a host that never says a word.
* `ArticleBody`, `Feeds`, `Listing` and `Pipeline` state no liveness and assume no fairness.

The engine gives the token back when a job panics on its own goroutine: that is
robfig/cron v3.0.1's `SkipIfStillRunning` (a deferred send), taken as given.

## 8. What is only model-checked, and what is not modelled

Only model-checked, and why:

* Liveness (`SweepsGoOn`, `Rediscovered`, `RequestsEnd`, `CallEnds`): fairness and
  ENABLED are out of the provers' reach.
* The findings: `pipeline_dead_link` and `pipeline_source_race` show false what comments
  promise, and the theorems of section 6 say what is left of it; `feeds_limit` and
  `sweep_panic` show two more that no theorem claims.

Recursion is proved about only where it is a recursive function of the project's own
(`Lists`): the library's folds and its induction theorems take operators as parameters.

Not modelled: preferences and the claims of an access token (a refresh that overlaps
an update of the preferences may leave the client with a token of the old ones, until
the next refresh); creating and editing a source, one statement each that a unique
index guards; the OAuth state, which is one signed value checked in one call; language
detection and time formatting, pure functions that keep no order with anything; the
HTTP shell, CORS, logger and health check; the development login; the seed tool except
for `SetAdmin`; migrations, and generated queries no modelled code calls. PostgreSQL,
the cron engine, the HTML and feed parsers and the AI provider are external: modelled
by what the code relies on.

Known simplifications: `Pipeline` applies one Retarget at once, so two of them never
deadlock on outbound rows (they may fail for any reason instead); `Access` leaves
out preferences and profile data, and an access token never expires inside a
request. `ArticleBody` reduces the sanitiser's normal form of a URL to the space it
trims, and a body to its links, players, posts and scripts. `Calls` has one call with a
context that nobody cancels, and no cost of reading a body.

What `ArticleBody` and `Calls` promise nothing about, because the code does not:

* A URL that contains the text `{CLIENT_URL}` itself is altered when it is served:
  `Resolve` cannot tell it from the token it expands (`Promised` leaves it out).
* An internal link with a fragment (`/articles/<id>#top`) is stored under the token but
  no Retarget matches it, so it does not fall back when its article goes.
* With `CLIENT_URL` unset the internal links are served root-relative, and the
  sanitiser of a translation, which keeps absolute URLs only, drops them
  (`TranslationKeepsBody` asks for a client).
* A Twitch player names the host it was treated for and stays with it when the client
  moves, unlike links, which `outboundlinks.go:29-31` makes follow.
* A page number beyond an `int64` is read as page 1; one beyond the last page is an
  empty page.
* An AI envelope that does not parse, or has no choice in it, is asked for again; a
  reply that does not parse is not.
* The dry run of discovery lists an item twice if its feed does.
