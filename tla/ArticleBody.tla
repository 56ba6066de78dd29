----------------------------- MODULE ArticleBody -----------------------------
(***************************************************************************)
(* The body of one article, from the feed to the reader: url treatment,    *)
(* embed treatment and sanitising (processor.go processOne), the ids that  *)
(* take the place of its links when it is stored (outboundlinks.Assign),   *)
(* the rows behind those ids while other articles come and go, the move of *)
(* CLIENT_URL between two deployments, and what is served at any time      *)
(* (outboundlinks.Resolve, and the translation that sanitises it again).   *)
(*                                                                         *)
(* A URL is a sequence of pieces of text, so that a prefix is a prefix.  A *)
(* body is the sequence of its nodes that matter: anchors, iframes, the    *)
(* Instagram blockquote with the anchors inside it, scripts.               *)
(*                                                                         *)
(* Simplifications: the parser and the renderer of golang.org/x/net/html   *)
(* only fail or succeed; the sanitiser's normal form of a URL is reduced   *)
(* to the space it trims; other tags, attributes and texts are left out.   *)
(* One article is followed: Pipeline has the races between several.        *)
(***************************************************************************)
EXTENDS Lists, FiniteSetsExt

CONSTANTS
    Texts,       \* the pieces of text that URLs are made of
    Own,         \* the id of the article that is followed
    Others,      \* the ids of articles that come and go
    UrlOf,       \* [{Own} \cup Others -> Url], articles.url_original
    ClientUrls,  \* the values CLIENT_URL takes; <<>> is unset
    HostOf,      \* [ClientUrls -> STRING], the host name of each; "" of <<>>
    OutboundIds, \* the ids newOutboundID generates; their number bounds a body's links
    RawBodies    \* the bodies a feed may bring

VARIABLES
    client,  \* CLIENT_URL of the running process
    live,    \* the other articles that are active
    stage,   \* how far the treatment is
    body,    \* the body as the treatment has it, then as articles.content has it
    row,     \* article_outbound_links of the article: a set of [id, href]
    clean,   \* history: the sanitised body
    home,    \* history: CLIENT_URL when the article was treated
    astray,  \* history: articles that came or went between the look-up and the store
    failed   \* history: the best-effort steps that failed

vars == <<client, live, stage, body, row, clean, home, astray, failed>>

----------------------------------------------------------------------------
(* URLs.                                                                   *)

Token == "{CLIENT_URL}"

\* Pieces a path, a query or a fragment begins with.
QueryOrFragment == {"?u=", "?utm", "#top"}
Boundaries      == {"/articles/", "/x", "/1"} \cup QueryOrFragment

InternalHref(base, a) == base \o <<"/articles/", a>>

\* What is left of href when c is cut off its front.
Rest(href, c) == SubSeq(href, Len(c) + 1, Len(href))

HasPrefix(href, c) == href = c \o Rest(href, c)

\* What follows the prefix is empty or starts a path, a query or a fragment.
IsURLBoundary(rest) == rest = <<>> \/ Head(rest) \in Boundaries

\* Mutation: a look-alike host that starts with ours is taken for ours.
ToStored_BarePrefix(href, c) ==
    IF c # <<>> /\ HasPrefix(href, c) THEN <<Token>> \o Rest(href, c) ELSE href

ToStored(href, c) ==
    IF c # <<>> /\ HasPrefix(href, c) /\ IsURLBoundary(Rest(href, c)) THEN <<Token>> \o Rest(href, c) ELSE href

\* Every occurrence of the token becomes the client's URL.
Expand(stored, c) ==
    Joined([k \in DOMAIN stored |-> IF stored[k] = Token THEN c ELSE <<stored[k]>>])

----------------------------------------------------------------------------
(* Nodes of a body.                                                        *)

Anchor(href)             == [tag |-> "a", href |-> href]
Iframe(host, embed, par) == [tag |-> "iframe", host |-> host, embed |-> embed, parent |-> par]
Instagram(link, inner)   == [tag |-> "instagram", permalink |-> link, inner |-> inner]
Script                   == [tag |-> "script"]

Urls  == Seq(Texts)
Nodes ==
    [tag : {"a"}, href : Urls]
      \cup [tag : {"iframe"}, host : STRING, embed : BOOLEAN, parent : Seq(STRING)]
      \cup [tag : {"instagram"}, permalink : Urls, inner : Seq(Urls)]
      \cup {Script}

AnchorsOf(n) == CASE n.tag = "a" -> <<n.href>> [] n.tag = "instagram" -> n.inner [] OTHER -> <<>>

Anchors(b) == Joined([k \in DOMAIN b |-> AnchorsOf(b[k])])

\* The distinct hrefs of the anchors, in first-seen order.
Hrefs(b) == Once(Kept(Anchors(b), Range(Anchors(b)) \ {<<>>}))

\* Every anchor whose href is in the domain of f gets f's value.
RewriteAnchors(b, f) ==
    LET To(h) == IF h \in DOMAIN f THEN f[h] ELSE h IN
    [k \in DOMAIN b |->
        CASE b[k].tag = "a" -> Anchor(To(b[k].href))
          [] b[k].tag = "instagram" ->
                Instagram(b[k].permalink, [i \in DOMAIN b[k].inner |-> To(b[k].inner[i])])
          [] OTHER -> b[k]]

----------------------------------------------------------------------------
(* The treatments, in the order of processOne.                             *)

\* resolveInternalURLs: the hrefs that are the URL of an active article.
Internal(hrefs, c) ==
    [h \in {u \in Range(hrefs) : \E a \in live : UrlOf[a] = u} |->
        InternalHref(c, CHOOSE a \in live : UrlOf[a] = h)]

TreatedUrls(b, c) == IF c = <<>> THEN b ELSE RewriteAnchors(b, Internal(Hrefs(b), c))

\* A Twitch player or clip names its one parent, our client's host.
\* Mutation: a parent that is already there is left as it is.
TwitchParent_IfNone(n, c) ==
    IF n.host \in {"player.twitch.tv", "clips.twitch.tv"} /\ HostOf[c] # "" /\ n.parent = <<>>
    THEN [n EXCEPT !.parent = <<HostOf[c]>>] ELSE n

TwitchParent(n, c) ==
    IF n.host \in {"player.twitch.tv", "clips.twitch.tv"} /\ HostOf[c] # ""
    THEN [n EXCEPT !.parent = <<HostOf[c]>>] ELSE n

\* cleanURL: without the query and the fragment.
CleanURL(u) ==
    LET cuts == {k \in DOMAIN u : u[k] \in QueryOrFragment}
    IN  IF cuts = {} THEN u ELSE SubSeq(u, 1, Min(cuts) - 1)

\* The link of an Instagram post: its attribute, or its first anchor to a post.
InstagramPermalink(n) ==
    LET posts == Kept(n.inner, {h \in Range(n.inner) : "https://instagram.com/p/" \in Range(h)})
    IN  CASE n.permalink # <<>> -> CleanURL(n.permalink)
          [] n.permalink = <<>> /\ posts # <<>> -> CleanURL(Head(posts))
          [] OTHER -> <<>>

TreatedEmbeds(b, c) ==
    [k \in DOMAIN b |->
        CASE b[k].tag = "iframe" -> TwitchParent(b[k], c)
          [] b[k].tag = "instagram" /\ InstagramPermalink(b[k]) # <<>> -> Anchor(InstagramPermalink(b[k]))
          [] OTHER -> b[k]]

\* The sanitiser's embedSrc allowlist.
EmbedAllowed(n) == n.embed /\ n.host \in {"www.youtube.com", "player.twitch.tv", "clips.twitch.tv"}

\* bluemonday keeps absolute http(s) and mailto URLs, trimmed; an anchor without
\* one loses its tag.
Schemes == {"https://client.com", "https://source.com", "https://instagram.com/p/", "mailto:"}

SafeUrl(u) ==
    LET trimmed == Kept(u, Range(u) \ {" "})
    IN  IF trimmed # <<>> /\ Head(trimmed) \in Schemes THEN <<trimmed>> ELSE <<>>

SafeAnchors(hrefs) ==
    Joined([k \in DOMAIN hrefs |-> [i \in DOMAIN SafeUrl(hrefs[k]) |-> Anchor(SafeUrl(hrefs[k])[i])]])

\* Scripts go with their contents, other iframes and blockquotes are unwrapped.
SanitizeNode(n) == IF n.tag = "iframe" /\ EmbedAllowed(n) THEN <<n>> ELSE SafeAnchors(AnchorsOf(n))

Sanitize(b) == Joined([k \in DOMAIN b |-> SanitizeNode(b[k])])

----------------------------------------------------------------------------
(* The two ways between a body and article_outbound_links.                 *)

IdOf(hrefs) == [h \in Range(hrefs) |-> <<OutboundIds[CHOOSE k \in DOMAIN hrefs : hrefs[k] = h]>>]

AssignedBody(b) == RewriteAnchors(b, IdOf(Hrefs(b)))

AssignedRows(b, c) == {[id |-> IdOf(Hrefs(b))[h], href |-> ToStored(h, c)] : h \in Range(Hrefs(b))}

Resolve(b, rows, c) ==
    RewriteAnchors(b, [i \in {r.id : r \in rows} |-> Expand((CHOOSE r \in rows : r.id = i).href, c)])

\* Retarget: every row that points at old points at new.
Retargeted(rows, old, new) == {[r EXCEPT !.href = IF @ = old THEN new ELSE @] : r \in rows}

----------------------------------------------------------------------------
\* An absolute URL without the token.
Absolute(u) == u \in Urls /\ u # <<>> /\ Head(u) \in Schemes /\ Token \notin Range(u) /\ " " \notin Range(u)

\* CLIENT_URL is absolute when it is set, articles and links have ids of their own, and no
\* two articles a URL: one that is published again after its removal is the same here.
\* An article's URL is whatever its feed had for a link.
ASSUME ArticleBodyAssumption ==
    /\ Own \notin Others /\ {Own} \cup Others \subseteq Texts \ {Token, " "}
    /\ {Token, "/articles/"} \subseteq Texts
    /\ UrlOf \in [{Own} \cup Others -> Urls] /\ IsInjective(UrlOf)
    /\ \A c \in ClientUrls : c # <<>> => Absolute(c)
    /\ HostOf \in [ClientUrls -> STRING] /\ (<<>> \in ClientUrls => HostOf[<<>>] = "")
    /\ OutboundIds \in Urls /\ IsInjective(OutboundIds)
    /\ RawBodies \subseteq Seq(Nodes)

Init ==
    /\ client \in ClientUrls
    /\ live \in SUBSET Others
    /\ stage = "raw"
    /\ body \in RawBodies
    /\ row = {} /\ clean = <<>> /\ home = <<>> /\ astray = {} /\ failed = {}

\* A step of the treatment ends with b; a failed best-effort step leaves the body.
Advance(from, to, b) == stage = from /\ stage' = to /\ body' = b

TreatUrls(ok) ==
    /\ Advance("raw", "urls", IF ok THEN TreatedUrls(body, client) ELSE body)
    /\ home' = client
    /\ failed' = IF ok THEN failed ELSE failed \cup {"urls"}
    /\ UNCHANGED <<client, live, row, clean, astray>>

TreatEmbeds(ok) ==
    /\ Advance("urls", "embeds", IF ok THEN TreatedEmbeds(body, client) ELSE body)
    /\ failed' = IF ok THEN failed ELSE failed \cup {"embeds"}
    /\ UNCHANGED <<client, live, row, clean, home, astray>>

Clean ==
    /\ Advance("embeds", "clean", Sanitize(body))
    /\ clean' = body'
    /\ UNCHANGED <<client, live, row, home, astray, failed>>

\* persist: the links get their ids and their rows, and those that point at the
\* article itself are retargeted.  When Assign fails the body keeps its URLs.
\* Mutation: the rows are written all the same.
Persist_RowsAnyway(ok) ==
    /\ Len(Hrefs(body)) <= Len(OutboundIds)
    /\ Advance("clean", "stored", IF ok THEN AssignedBody(body) ELSE body)
    /\ row' = Retargeted(AssignedRows(body, client), UrlOf[Own], InternalHref(<<Token>>, Own))
    /\ astray' = {a \in Others : (IF a \in live THEN UrlOf[a] ELSE InternalHref(home, a)) \in Range(Hrefs(body))}
    /\ failed' = IF ok THEN failed ELSE failed \cup {"assign"}
    /\ UNCHANGED <<client, live, clean, home>>

Persist(ok) ==
    /\ Len(Hrefs(body)) <= Len(OutboundIds)
    /\ Advance("clean", "stored", IF ok THEN AssignedBody(body) ELSE body)
    /\ row' = IF ok THEN Retargeted(AssignedRows(body, client), UrlOf[Own], InternalHref(<<Token>>, Own)) ELSE {}
    /\ astray' = {a \in Others : (IF a \in live THEN UrlOf[a] ELSE InternalHref(home, a)) \in Range(Hrefs(body))}
    /\ failed' = IF ok THEN failed ELSE failed \cup {"assign"}
    /\ UNCHANGED <<client, live, clean, home>>

\* Another article is stored: its retroactive links.
Publish(a) ==
    /\ a \notin live
    /\ live' = live \cup {a}
    /\ row' = Retargeted(row, UrlOf[a], InternalHref(<<Token>>, a))
    /\ astray' = astray \ {a}
    /\ UNCHANGED <<client, stage, body, clean, home, failed>>

\* DeleteArticle: its internal links fall back to the source.
DeleteArticle(a) ==
    /\ a \in live
    /\ live' = live \ {a}
    /\ row' = Retargeted(row, InternalHref(<<Token>>, a), UrlOf[a])
    /\ astray' = astray \ {a}
    /\ UNCHANGED <<client, stage, body, clean, home, failed>>

\* A deployment with another CLIENT_URL.  The treatment does not survive it.
Move(c) ==
    /\ stage \in {"raw", "stored"} /\ c # client
    /\ client' = c
    /\ UNCHANGED <<live, stage, body, row, clean, home, astray, failed>>

Next ==
    \/ \E ok \in BOOLEAN : TreatUrls(ok) \/ TreatEmbeds(ok) \/ Persist(ok)
    \/ Clean
    \/ \E a \in Others : Publish(a) \/ DeleteArticle(a)
    \/ \E c \in ClientUrls : Move(c)

Spec == Init /\ [][Next]_vars

----------------------------------------------------------------------------
(* What a reader gets (GetArticle, ListArticles, FeedArticles), and its    *)
(* translation by a model that keeps the markup (TranslateArticle).        *)

Served == Resolve(body, row, client)

\* Mutation: the body is sanitised while it still holds the ids.
Translated_IdForm == Resolve(Sanitize(body), row, client)

Translated == Sanitize(Served)

----------------------------------------------------------------------------
(* Properties.                                                             *)

\* Every variable holds a value of its type; rows exist for stored bodies only.
TypeOK ==
    /\ client \in ClientUrls /\ home \in ClientUrls \cup {<<>>}
    /\ live \subseteq Others /\ astray \subseteq Others
    /\ stage \in {"raw", "urls", "embeds", "clean", "stored"}
    /\ failed \subseteq {"urls", "embeds", "assign"}
    /\ row # {} => stage = "stored" /\ "assign" \notin failed
    /\ \A r, q \in row : r.id = q.id => r = q

\* href was a page of our client when the article was treated.
WasOurs(href) == home # <<>> /\ HasPrefix(href, home) /\ IsURLBoundary(Rest(href, home))

\* Where a link of the sanitised body should lead now: an article's link to its
\* page while it is active and to its source otherwise, our own pages to where
\* our client is now, and every other link where its author pointed.
LeadsTo(href) ==
    CASE href = UrlOf[Own] -> InternalHref(client, Own)
      [] \E a \in Others : href \in {UrlOf[a], InternalHref(home, a)} ->
            LET a == CHOOSE o \in Others : href \in {UrlOf[o], InternalHref(home, o)}
            IN  IF a \in live THEN InternalHref(client, a) ELSE UrlOf[a]
      [] WasOurs(href) /\ href # UrlOf[Own] /\ \A a \in Others : href # InternalHref(home, a) ->
            client \o Rest(href, home)
      [] OTHER -> href

\* Nothing is promised of a link whose article came or went during the treatment (the
\* race Pipeline shows), of the URL of an article that is a page of our client as well,
\* nor where a URL contains the token itself.
Promised(href) ==
    /\ \A a \in astray : href \notin {UrlOf[a], InternalHref(home, a)}
    /\ href \in Range(UrlOf) => ~WasOurs(href)
    /\ \A u \in {href} \cup Range(UrlOf) : Token \notin Range(u)

\* Every link of the sanitised body is served at its place and leads where it should,
\* whatever was stored, removed and moved since; a body whose Assign failed keeps the
\* links it had.
LinksLeadHome ==
    stage = "stored" =>
        /\ DOMAIN Served = DOMAIN clean
        /\ \A k \in DOMAIN clean : clean[k].tag = "a" =>
              IF "assign" \in failed
              THEN Served[k] = clean[k]
              ELSE Promised(clean[k].href) => Served[k] = Anchor(LeadsTo(clean[k].href))

\* A served body holds links and allowlisted players only, whichever best-effort
\* step failed, and a Twitch player names the host it was treated for.
EmbedsAreSafe ==
    stage = "stored" =>
        \A k \in DOMAIN Served :
            \/ Served[k].tag = "a"
            \/ /\ Served[k].tag = "iframe" /\ EmbedAllowed(Served[k])
               /\ Served[k].host # "www.youtube.com" /\ HostOf[home] # "" /\ "embeds" \notin failed
                    => Served[k].parent = <<HostOf[home]>>

\* Sanitising the translation of a served body loses none of its links or players,
\* because it is resolved first (the INVARIANT of outboundlinks.go): where a client is
\* configured, and no removed article has a URL that the sanitiser takes away.
TranslationKeepsBody ==
    /\ stage = "stored" /\ client # <<>>
    /\ \A a \in Others \ live : SafeUrl(UrlOf[a]) = <<UrlOf[a]>>
    => Translated = Served
=============================================================================
