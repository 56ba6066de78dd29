-------------------------------- MODULE Calls --------------------------------
(***************************************************************************)
(* What the backend asks of others over HTTP, one call at a time: an AI    *)
(* provider (services/ai: keywords, score, translation), the RSS feed of a *)
(* source (discovery.go fetchFeed, and the dry run of article_discovery.go *)
(* on top of it), and the search for a site's feeds (services/rss).        *)
(*                                                                         *)
(* The first two retry inside retry.Do; the last one probes many paths at  *)
(* once within one budget.  Time is counted in ticks, and a Go timer that  *)
(* is due fires before the next tick.  The other side answers when and     *)
(* what it likes, or never.                                                *)
(*                                                                         *)
(* Simplifications: a text is the word it amounts to; JSON, the code fence *)
(* and the reasoning block are only what the decoder makes of them.  The   *)
(* callers' context has no deadline of its own (c.Context(), Background).  *)
(***************************************************************************)
EXTENDS Lists

CONSTANTS
    KeywordsMin, KeywordsMax, \* schemas.ArticleKeywordsMin and Max
    AttemptTimeout,           \* requestTimeout, or the client's Timeout
    Budget,                   \* rssDiscoveryBudget
    Texts,                    \* the words and texts a model may write
    Trim, Lower,              \* [Texts -> Texts], strings.TrimSpace and ToLower
    Replies,                  \* the replies a model may give
    FeedItems,                \* the item lists a feed may hold
    Since,                    \* last_article_discovery_at of the dry run
    Stored,                   \* URLs of active articles, at the time of the dry run
    CommonPaths,              \* well-known feed paths
    Pages,                    \* the feed links a site's page may hold
    Addresses, Public         \* what a host name resolves to; the public ones

ASSUME CallsAssumption ==
    /\ KeywordsMin \in Nat /\ KeywordsMax \in Nat
    /\ AttemptTimeout \in Nat \ {0} /\ Budget \in Nat
    /\ Public \subseteq Addresses
    /\ Texts \subseteq STRING /\ Trim \in [Texts -> Texts] /\ Lower \in [Texts -> Texts]
    /\ \A w \in Texts : Trim[Trim[w]] = Trim[w] /\ Lower[Lower[w]] = Lower[w] /\ Trim[Lower[w]] = Lower[Trim[w]]
    /\ Replies \subseteq [shape : STRING, words : Seq([word : Texts]), score : Int]
    /\ FeedItems \subseteq Seq([url : STRING, published : Nat]) /\ Since \in Nat
    /\ Pages \subseteq Seq([href : STRING, typeFirst : BOOLEAN]) /\ CommonPaths \subseteq STRING

VARIABLES
    kind,    \* what is asked
    phase,   \* where the call is
    now,     \* ticks since the call began
    since,   \* when the pending requests, or the pause between two, began
    tries,   \* attempts made inside retry.Do
    result,  \* what the caller gets
    answers, \* history: complete answers received and accepted by the transport
    \* the search for feeds
    pending, \* requests without an answer
    found,   \* candidates, in the order they were appended
    valid,   \* candidates that turned out to be feeds
    dialed,  \* history: addresses a connection was opened to
    feeds,   \* what the world is: the URLs that are feeds
    probed,  \* history: the common paths were tried
    lost     \* history: some request for a feed brought nothing

retrying == <<tries, answers>>
search   == <<pending, found, valid, dialed, probed, lost>>
vars     == <<kind, phase, now, since, result, feeds, retrying, search>>

AIKinds == {"keywords", "judge", "translate"}
Kinds   == AIKinds \cup {"fetch", "discover"}

Failed  == [ok |-> FALSE, value |-> <<>>]
Ok(v)   == [ok |-> TRUE, value |-> v]

----------------------------------------------------------------------------
(* What the callers make of a model's reply.                               *)

\* The words of a reply, trimmed and lower-cased, without blanks and repeats.
Canonical(words) ==
    LET list == [k \in DOMAIN words |-> Lower[Trim[words[k].word]]]
    IN  Once(Kept(list, Range(list) \ {""}))

\* The list itself, or the keywords of an object; an object without them has none.
DecodeKeywordList(r) ==
    CASE r.shape = "array"  -> Ok(r.words)
      [] r.shape = "object" -> Ok(r.words)
      [] OTHER              -> Failed

\* Mutation: the length is checked before blanks and repeats are dropped.
ParseKeywords_CountsFirst(r) ==
    LET list == DecodeKeywordList(r) IN
    IF list.ok /\ Len(list.value) \in KeywordsMin..KeywordsMax THEN Ok(Canonical(list.value)) ELSE Failed

ParseKeywords(r) ==
    LET list == DecodeKeywordList(r) IN
    IF list.ok /\ Len(Canonical(list.value)) \in KeywordsMin..KeywordsMax THEN Ok(Canonical(list.value)) ELSE Failed

\* The score of an object, or a bare integer, from 0 to 100.
ParseScore(r) == IF r.shape \in {"object", "number"} /\ r.score \in 0..100 THEN Ok(r.score) ELSE Failed

\* A title and a content, trimmed, neither of them blank.
ParseTranslation(r) ==
    IF r.shape = "object" /\ Len(r.words) = 2 /\ \A k \in 1..2 : Trim[r.words[k].word] # ""
    THEN Ok(<<Trim[r.words[1].word], Trim[r.words[2].word]>>) ELSE Failed

Parsed(r) ==
    CASE kind = "keywords"  -> ParseKeywords(r)
      [] kind = "judge"     -> ParseScore(r)
      [] kind = "translate" -> ParseTranslation(r)

\* The items DiscoverFromSource keeps of a feed (those without a date always),
\* and those of them filterNewByURLOriginal does: the ones not stored yet.
Recent(items) == Kept(items, {i \in Range(items) : i.published = 0 \/ i.published > Since})
Fresh(items)  == Kept(Recent(items), {i \in Range(items) : i.url \notin Stored})

\* It looks each of them up in a transaction, which may fail.
DryRun(items, ok) == IF ok THEN Ok(Fresh(items)) ELSE Failed

----------------------------------------------------------------------------
Init ==
    /\ kind \in Kinds
    /\ phase = "idle"
    /\ now = 0 /\ since = 0
    /\ result = Failed
    /\ tries = 0 /\ answers = 0
    /\ pending = {} /\ found = <<>> /\ valid = <<>> /\ dialed = {} /\ probed = FALSE /\ lost = FALSE
    /\ feeds \in (IF kind = "discover" THEN SUBSET (CommonPaths \cup UNION {{p[k].href : k \in DOMAIN p} : p \in Pages}) ELSE {{}})

End(r) == phase' = "done" /\ result' = r

\* retry.NewExponential, in ticks.
Backoff(n) == 2 ^ (n - 1)

\* When the pending requests are given up, or the pause is over.
\* Mutation: the search has no budget, only each request its time-out.
Due_PerRequest == IF phase = "pause" THEN since + Backoff(tries) ELSE since + AttemptTimeout

Due ==
    CASE phase = "pause"   -> since + Backoff(tries)
      [] phase = "waiting" -> since + AttemptTimeout
      [] OTHER             -> IF since + AttemptTimeout < Budget THEN since + AttemptTimeout ELSE Budget

----------------------------------------------------------------------------
(* retry.Do around one request (openaicompat chat, gemini generate,        *)
(* fetchFeed).                                                             *)

MaxRetries == IF kind = "fetch" THEN 3 ELSE 2

Attempt == phase' = "waiting" /\ since' = now /\ tries' = tries + 1

\* The request is built and sent; no provider configured, an unknown prompt or a
\* malformed URL ends the call without an attempt.
Call ==
    /\ phase = "idle" /\ kind # "discover"
    /\ \/ Attempt /\ UNCHANGED result
       \/ End(Failed) /\ UNCHANGED <<since, tries>>
    /\ UNCHANGED <<kind, now, answers, feeds, search>>

\* A refused connection, a status other than 200, a body that cannot be read, an
\* answer without a choice, or the time-out: all retryable.
AttemptFails ==
    /\ phase = "waiting"
    /\ IF tries <= MaxRetries
       THEN phase' = "pause" /\ since' = now /\ UNCHANGED result
       ELSE End(Failed) /\ UNCHANGED since
    /\ UNCHANGED <<kind, now, tries, answers, feeds, search>>

Retry ==
    /\ phase = "pause" /\ now = since + Backoff(tries)
    /\ Attempt
    /\ UNCHANGED <<kind, now, result, answers, feeds, search>>

\* The model answers.  What it says is parsed after retry.Do has returned: a reply
\* that does not parse is an error, and not a reason to ask again.
\* Mutation: it is parsed inside, and asked for again.
Reply_ParsedInside(r) ==
    /\ phase = "waiting" /\ kind \in AIKinds /\ now < Due
    /\ answers' = answers + 1
    /\ IF ~Parsed(r).ok /\ tries <= MaxRetries
       THEN phase' = "pause" /\ since' = now /\ UNCHANGED result
       ELSE End(Parsed(r)) /\ UNCHANGED since
    /\ UNCHANGED <<kind, now, tries, feeds, search>>

Reply(r) ==
    /\ phase = "waiting" /\ kind \in AIKinds /\ now < Due
    /\ answers' = answers + 1
    /\ End(Parsed(r))
    /\ UNCHANGED <<kind, now, since, tries, feeds, search>>

\* The feed arrives and parses; the dry run filters its items, or fails to.
Feed(items, ok) ==
    /\ phase = "waiting" /\ kind = "fetch" /\ now < Due
    /\ answers' = answers + 1
    /\ End(DryRun(items, ok))
    /\ UNCHANGED <<kind, now, since, tries, feeds, search>>

----------------------------------------------------------------------------
(* rss.Discover.                                                           *)

Site == "site"

\* restrictedDialContext: every address a name resolves to must be public, and
\* the one that was vetted is dialed.
MayDial(resolved) == resolved # {} /\ resolved \subseteq Public

\* RSSDiscovery: a URL that is none is refused; otherwise the budget starts.
Discover ==
    /\ phase = "idle" /\ kind = "discover"
    /\ \/ phase' = "page" /\ pending' = {Site} /\ since' = now /\ UNCHANGED result
       \/ End(Failed) /\ UNCHANGED <<pending, since>>
    /\ UNCHANGED <<kind, now, feeds, retrying, found, valid, dialed, probed, lost>>

\* A request for u gets a connection; whether it gets an answer is its own matter.
Connect(u) ==
    \E resolved \in SUBSET Addresses :
        /\ MayDial(resolved)
        /\ dialed' = dialed \cup resolved

\* The links of a page, first those with the type before the href, none of them twice.
Hrefs(links) ==
    LET inOrder == Kept(links, {l \in Range(links) : l.typeFirst}) \o Kept(links, {l \in Range(links) : ~l.typeFirst})
    IN  Once([k \in DOMAIN inOrder |-> inOrder[k].href])

\* After the page, its links if it has any; otherwise every common path is probed at once.
AfterPage(links) ==
    LET once == Hrefs(links)
    IN  /\ found' = once
        /\ IF once # <<>>
           THEN phase' = "validate" /\ pending' = {Head(once)}
           ELSE phase' = "probe" /\ pending' = CommonPaths
        /\ probed' = (once = <<>>)
        /\ since' = now

Page(links) ==
    /\ phase = "page"
    /\ now < Due
    /\ Connect(Site)
    /\ AfterPage(links)
    /\ UNCHANGED <<kind, now, result, feeds, retrying, valid, lost>>

\* A refused destination, an error, or a time-out: no page, so no link.
PageFails ==
    /\ phase = "page"
    /\ AfterPage(<<>>)
    /\ UNCHANGED <<kind, now, result, feeds, retrying, valid, dialed, lost>>

\* A path answers 200 with a body: it is appended under the mutex.  One that is
\* no feed may do so too.
Probe(u) ==
    /\ phase = "probe" /\ u \in pending
    /\ now < Due
    /\ Connect(u)
    /\ pending' = pending \ {u}
    /\ found' = Append(found, u)
    /\ UNCHANGED <<kind, phase, now, since, result, feeds, retrying, valid, probed, lost>>

\* Mutation: the goroutine returns without wg.Done.
ProbeFails_NotDone(u) ==
    /\ phase = "probe" /\ u \in pending
    /\ lost' = (lost \/ u \in feeds)
    /\ UNCHANGED <<kind, phase, now, since, result, feeds, retrying, pending, found, valid, dialed, probed>>

ProbeFails(u) ==
    /\ phase = "probe" /\ u \in pending
    /\ pending' = pending \ {u}
    /\ lost' = (lost \/ u \in feeds)
    /\ UNCHANGED <<kind, phase, now, since, result, feeds, retrying, found, valid, dialed, probed>>

\* wg.Wait.  Mutation: the first answer is enough.
ProbesEnd_First ==
    /\ phase = "probe" /\ (pending = {} \/ found # <<>>)
    /\ IF found = <<>> THEN End(Ok(<<>>)) /\ UNCHANGED <<pending, since>>
                       ELSE phase' = "validate" /\ pending' = {Head(found)} /\ since' = now /\ UNCHANGED result
    /\ UNCHANGED <<kind, now, feeds, retrying, found, valid, dialed, probed, lost>>

ProbesEnd ==
    /\ phase = "probe" /\ pending = {}
    /\ IF found = <<>> THEN End(Ok(<<>>)) /\ UNCHANGED <<pending, since>>
                       ELSE phase' = "validate" /\ pending' = {Head(found)} /\ since' = now /\ UNCHANGED result
    /\ UNCHANGED <<kind, now, feeds, retrying, found, valid, dialed, probed, lost>>

\* validateFeeds, one candidate after the other.
\* Mutation: the body of the last one is left open.
NextCandidate_LeftOpen(u, kept) ==
    LET at == CHOOSE k \in DOMAIN found : found[k] = u
    IN  /\ valid' = kept
        /\ IF at = Len(found) THEN End(Ok(kept)) /\ UNCHANGED <<pending, since>>
                              ELSE pending' = {found[at + 1]} /\ since' = now /\ UNCHANGED <<phase, result>>

NextCandidate(u, kept) ==
    LET at == CHOOSE k \in DOMAIN found : found[k] = u
    IN  /\ valid' = kept
        /\ IF at = Len(found) THEN End(Ok(kept)) /\ pending' = {} /\ UNCHANGED since
                              ELSE pending' = {found[at + 1]} /\ since' = now /\ UNCHANGED <<phase, result>>

Validate(u) ==
    /\ phase = "validate" /\ u \in pending
    /\ now < Due
    /\ Connect(u)
    /\ NextCandidate(u, IF u \in feeds THEN Append(valid, u) ELSE valid)
    /\ UNCHANGED <<kind, now, feeds, retrying, found, probed, lost>>

ValidateFails(u) ==
    /\ phase = "validate" /\ u \in pending
    /\ NextCandidate(u, valid)
    /\ lost' = (lost \/ u \in feeds)
    /\ UNCHANGED <<kind, now, feeds, retrying, found, dialed, probed>>

----------------------------------------------------------------------------
Tick ==
    /\ phase \notin {"idle", "done"} /\ now < Due
    /\ now' = now + 1
    /\ UNCHANGED <<kind, phase, since, result, feeds, retrying, search>>

\* What the process does by itself: its timers and its own steps.
Timers ==
    \/ Call \/ Discover \/ Retry \/ ProbesEnd \/ Tick
    \/ now >= Due /\ (AttemptFails \/ PageFails \/ \E u \in pending : ProbeFails(u) \/ ValidateFails(u))

Next ==
    \/ Call \/ AttemptFails \/ Retry \/ Tick
    \/ \E r \in Replies : Reply(r)
    \/ \E items \in FeedItems, ok \in BOOLEAN : Feed(items, ok)
    \/ Discover \/ PageFails \/ ProbesEnd
    \/ \E links \in Pages : Page(links)
    \/ \E u \in pending : Probe(u) \/ ProbeFails(u) \/ Validate(u) \/ ValidateFails(u)

Spec == Init /\ [][Next]_vars

\* The process's own steps and timers are fair; the others owe no answer.
FairSpec == Spec /\ WF_vars(Timers)

----------------------------------------------------------------------------
(* Properties.                                                             *)

\* Every variable holds a value of its type.
TypeOK ==
    /\ kind \in Kinds
    /\ phase \in {"idle", "waiting", "pause", "page", "probe", "validate", "done"}
    /\ now \in Nat /\ since \in 0..now /\ tries \in Nat /\ answers \in Nat
    /\ result.ok \in BOOLEAN
    /\ phase = "probe" \/ (pending # {}) = (phase \in {"page", "validate"})
    /\ lost \in BOOLEAN /\ probed \in BOOLEAN

\* A call never outlasts its attempts, their time-outs and the pauses between
\* them, nor a search its budget, whoever does not answer (rss_discovery.go:
\* an unresponsive host cannot park the handler).
CallsEndInTime ==
    now <= IF kind = "discover" THEN Budget
           ELSE (MaxRetries + 1) * AttemptTimeout + Backoff(MaxRetries + 1) - 1

\* A model's reply that the transport accepted ends the call: one that breaks the
\* rules of its kind is never asked for again, whatever the attempts before it came
\* to (openaicompat.go and gemini.go parse after retry.Do).  An attempt that timed
\* out, or an envelope without choices, may have been billed and is made again.
NoSecondPurchase == answers <= 1

\* Whatever a model replies, the caller gets an error or a value within its rules: as
\* many keywords as the schemas ask for (5 to 30), distinct, lower-case and trimmed, a
\* score of 0 to 100, a text with a title; and of a feed, for the dry run, an error or
\* its items that are recent or undated and not stored.
RepliesAreSane ==
    phase = "done" /\ result.ok =>
        CASE kind = "keywords" ->
                /\ Len(result.value) \in KeywordsMin..KeywordsMax
                /\ IsInjective(result.value) /\ "" \notin Range(result.value)
                /\ \A w \in Range(result.value) : Lower[w] = w /\ Trim[w] = w
          [] kind = "judge"     -> result.value \in 0..100
          [] kind = "translate" -> Len(result.value) = 2 /\ "" \notin Range(result.value)
          [] kind = "fetch"     ->
                \A k \in DOMAIN result.value :
                    result.value[k].url \notin Stored /\ result.value[k].published \notin 1..Since
          [] OTHER              -> TRUE

\* The search connects to public addresses only and answers feeds only, each once;
\* in whatever order the probes finish, and unless a feed did not answer in time,
\* all there are among the links of the page or, when it has none, among the
\* common paths.
SearchIsSound ==
    /\ dialed \subseteq Public
    /\ phase = "done" /\ kind = "discover" /\ result.ok =>
        /\ Range(result.value) \subseteq feeds /\ IsInjective(result.value)
        /\ ~lost => feeds \cap (IF probed THEN CommonPaths ELSE Range(found)) \subseteq Range(result.value)

\* Every call is answered, whoever it asks answers or not.
CallEnds == phase # "done" ~> phase = "done"
=============================================================================
