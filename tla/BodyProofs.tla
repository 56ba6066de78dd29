------------------------------ MODULE BodyProofs ------------------------------
(***************************************************************************)
(* ArticleBody, for every set of articles, of bodies and of client URLs.   *)
(***************************************************************************)
EXTENDS ArticleBody, ListsProofs

\* The URLs the sanitiser leaves in a link, and the nodes it leaves in a body.
SafeUrls == {u \in Urls : u # <<>> /\ u[1] \in Schemes /\ " " \notin Range(u)}

CleanNodes ==
    {n \in Nodes : \/ n.tag = "a" /\ n.href \in SafeUrls
                   \/ n.tag = "iframe" /\ EmbedAllowed(n)}

\* The hrefs that rows hold: such URLs, or with the token in front.
StoredUrls == {s \in Urls : s # <<>> /\ s[1] \in Schemes \cup {Token} /\ " " \notin Range(s)}

Rows == [id : Urls, href : Urls]

Unique(rows) == \A r, q \in rows : r.id = q.id => r = q

Twitch == {"player.twitch.tv", "clips.twitch.tv"}

\* The Twitch players of b name the host they were treated for.
Embedded(b) ==
    HostOf[home] # "" /\ "embeds" \notin failed =>
        \A k \in DOMAIN b : b[k].tag = "iframe" /\ b[k].host \in Twitch => b[k].parent = <<HostOf[home]>>

\* href is a page of our client under CLIENT_URL c.
Ours(href, c) == c # <<>> /\ HasPrefix(href, c) /\ IsURLBoundary(Rest(href, c))

\* No article has a URL with the token, and href is not a URL and a page at once.
NoTokens       == \A a \in {Own} \cup Others : Token \notin Range(UrlOf[a])
Plain(href, c) == \A a \in {Own} \cup Others : href = UrlOf[a] => ~Ours(href, c)

\* What a row may hold for a link that was href when the article was stored, under
\* CLIENT_URL c, with the articles alive now but for those that went astray.
HeldIn(href, stored, c, lost, alive) ==
    /\ stored \in Urls
    /\ stored \in StoredUrls \/ \E a \in Others \ alive : stored = UrlOf[a]
    /\ NoTokens /\ Token \notin Range(href) /\ Plain(href, c) =>
          /\ href = UrlOf[Own] => stored = InternalHref(<<Token>>, Own)
          /\ \A a \in Others : href \in {UrlOf[a], InternalHref(c, a)} =>
                /\ stored \in {UrlOf[a], InternalHref(<<Token>>, a)}
                /\ a \notin lost => (a \in alive <=> stored = InternalHref(<<Token>>, a))
          /\ href # UrlOf[Own] /\ (\A a \in Others : href \notin {UrlOf[a], InternalHref(c, a)})
                => stored = ToStored(href, c)

Held(href, stored) == HeldIn(href, stored, home, astray, live)

\* A stored body has its links' ids, and each has a row.
LinksOK ==
    /\ Len(Hrefs(clean)) <= Len(OutboundIds)
    /\ body = AssignedBody(clean)
    /\ \A h \in Range(Hrefs(clean)) : \E r \in row : r.id = IdOf(Hrefs(clean))[h] /\ Held(h, r.href)

StageOK ==
    /\ stage # "raw" => home \in ClientUrls
    /\ stage \in {"urls", "embeds", "clean"} => client = home
    /\ stage # "stored" => row = {} /\ "assign" \notin failed
    /\ stage \in {"raw", "urls", "embeds"} => body \in Seq(Nodes)
    /\ stage = "embeds" => Embedded(body)
    /\ stage \in {"clean", "stored"} => clean \in Seq(CleanNodes) /\ Embedded(clean)
    /\ stage = "clean" => body = clean
    /\ stage = "stored" /\ "assign" \in failed => body = clean /\ row = {}
    /\ stage = "stored" /\ "assign" \notin failed => LinksOK

IInv == TypeOK /\ row \in SUBSET Rows /\ StageOK

----------------------------------------------------------------------------
(* Nodes.                                                                  *)

\* The node of a tag.
LEMMA NodeKinds ==
  ASSUME NEW n \in Nodes
  PROVE  \/ n.tag = "a" /\ n.href \in Urls /\ n = Anchor(n.href)
         \/ n.tag = "iframe" /\ n \in [tag : {"iframe"}, host : STRING, embed : BOOLEAN, parent : Seq(STRING)]
         \/ n.tag = "instagram" /\ n.permalink \in Urls /\ n.inner \in Seq(Urls)
              /\ n = Instagram(n.permalink, n.inner)
         \/ n = Script /\ n.tag = "script"
<1>1. CASE n \in [tag : {"a"}, href : Urls]
  BY <1>1 DEF Anchor
<1>2. CASE n \in [tag : {"iframe"}, host : STRING, embed : BOOLEAN, parent : Seq(STRING)]
  BY <1>2
<1>3. CASE n \in [tag : {"instagram"}, permalink : Urls, inner : Seq(Urls)]
  BY <1>3 DEF Instagram
<1>4. CASE n = Script
  BY <1>4 DEF Script
<1>5. QED
  BY <1>1, <1>2, <1>3, <1>4 DEF Nodes

LEMMA AnchorIsNode ==
  ASSUME NEW u \in Urls
  PROVE  Anchor(u) \in Nodes /\ Anchor(u).tag = "a" /\ Anchor(u).href = u
  BY DEF Anchor, Nodes

LEMMA InstagramIsNode ==
  ASSUME NEW u \in Urls, NEW s \in Seq(Urls)
  PROVE  Instagram(u, s) \in Nodes /\ Instagram(u, s).tag = "instagram"
  BY DEF Instagram, Nodes

\* The links of a node are a list of URLs.
LEMMA AnchorsOfType ==
  ASSUME NEW n \in Nodes
  PROVE  AnchorsOf(n) \in Seq(Urls)
<1>1. CASE n.tag = "a"
  <2>1. n.href \in Urls
    BY <1>1, NodeKinds
  <2>2. <<n.href>> \in Seq(Urls)
    BY <2>1
  <2>3. QED
    BY <1>1, <2>2 DEF AnchorsOf
<1>2. CASE n.tag = "instagram"
  BY <1>2, NodeKinds DEF AnchorsOf
<1>3. CASE n.tag # "a" /\ n.tag # "instagram"
  BY <1>3, EmptySeq DEF AnchorsOf
<1>4. QED
  BY <1>1, <1>2, <1>3

\* The links of a body: those of its nodes.
LEMMA AnchorsProperties ==
  ASSUME NEW b \in Seq(Nodes)
  PROVE  /\ Anchors(b) \in Seq(Urls)
         /\ \A k \in DOMAIN b : b[k].tag = "a" => b[k].href \in Range(Anchors(b))
         /\ \A h \in Range(Anchors(b)) : \E k \in DOMAIN b : h \in Range(AnchorsOf(b[k]))
<1> DEFINE lists == [k \in DOMAIN b |-> AnchorsOf(b[k])]
<1>1. DOMAIN b = 1 .. Len(b) /\ Len(b) \in Nat /\ \A k \in DOMAIN b : b[k] \in Nodes
  BY LenProperties
<1>2. \A k \in 1 .. Len(b) : lists[k] = AnchorsOf(b[k]) /\ lists[k] \in Seq(Urls)
  BY <1>1, AnchorsOfType
<1>3. Len(lists) = Len(b)
  <2> DEFINE S == Seq(Urls)
  <2>1. lists \in [1 .. Len(b) -> S]
    <3>1. \A k \in DOMAIN b : AnchorsOf(b[k]) \in S
      BY <1>1, AnchorsOfType
    <3> HIDE DEF S
    <3>2. QED
      BY <1>1, <3>1
  <2> HIDE DEF S, lists
  <2>2. QED
    BY <1>1, <2>1, ListOf
<1>4. Anchors(b) = Joined(lists)
  BY DEF Anchors
<1> HIDE DEF lists
<1>5. /\ Joined(lists) \in Seq(Urls)
      /\ Range(Joined(lists)) = UNION {Range(lists[k]) : k \in 1 .. Len(lists)}
  BY <1>1, <1>2, <1>3, JoinedProperties
<1>6. ASSUME NEW k \in DOMAIN b, b[k].tag = "a"
      PROVE  b[k].href \in Range(Anchors(b))
  <2>1. lists[k] = <<b[k].href>>
    BY <1>1, <1>2, <1>6 DEF AnchorsOf
  <2>2. b[k].href \in Range(lists[k])
    BY <2>1 DEF Range
  <2>3. QED
    BY <1>1, <1>3, <1>4, <1>5, <2>2
<1>7. \A h \in Range(Anchors(b)) : \E k \in DOMAIN b : h \in Range(AnchorsOf(b[k]))
  BY <1>1, <1>2, <1>3, <1>4, <1>5
<1>8. QED
  BY <1>4, <1>5, <1>6, <1>7

\* The distinct ones, but for the empty one.
LEMMA HrefsProperties ==
  ASSUME NEW b \in Seq(Nodes)
  PROVE  /\ Hrefs(b) \in Seq(Urls) /\ IsInjective(Hrefs(b))
         /\ Range(Hrefs(b)) \subseteq Urls
         /\ <<>> \notin Range(Hrefs(b)) /\ Range(Hrefs(b)) \subseteq Range(Anchors(b))
         /\ \A k \in DOMAIN b : b[k].tag = "a" /\ b[k].href # <<>> => b[k].href \in Range(Hrefs(b))
<1> DEFINE all == Anchors(b)
<1> DEFINE kept == Kept(all, Range(all) \ {<<>>})
<1>1. all \in Seq(Urls)
  BY AnchorsProperties
<1>2. kept \in Seq(Urls) /\ Range(kept) = Range(all) \cap (Range(all) \ {<<>>})
  <2> HIDE DEF all
  <2>1. QED
    BY <1>1, KeptProperties
<1>3. Hrefs(b) = Once(kept)
  BY DEF Hrefs
<1> HIDE DEF kept
<1>4. Hrefs(b) \in Seq(Urls) /\ Range(Hrefs(b)) = Range(kept) /\ IsInjective(Hrefs(b))
  BY <1>2, <1>3, OnceProperties
<1>5. Range(Hrefs(b)) \subseteq Urls
  BY <1>4, RangeOfSeq
<1>6. QED
  BY <1>2, <1>4, <1>5, AnchorsProperties

\* What RewriteAnchors makes of a body.
LEMMA RewriteProperties ==
  ASSUME NEW b \in Seq(Nodes), NEW f, \A h \in DOMAIN f : f[h] \in Urls
  PROVE  /\ RewriteAnchors(b, f) \in Seq(Nodes) /\ DOMAIN RewriteAnchors(b, f) = DOMAIN b
         /\ \A k \in DOMAIN b :
              /\ b[k].tag = "a" => RewriteAnchors(b, f)[k] = Anchor(IF b[k].href \in DOMAIN f THEN f[b[k].href] ELSE b[k].href)
              /\ b[k].tag = "iframe" => RewriteAnchors(b, f)[k] = b[k]
              /\ RewriteAnchors(b, f)[k].tag = b[k].tag
<1> DEFINE To(h) == IF h \in DOMAIN f THEN f[h] ELSE h
<1> DEFINE New(n) == CASE n.tag = "a" -> Anchor(To(n.href))
                       [] n.tag = "instagram" -> Instagram(n.permalink, [i \in DOMAIN n.inner |-> To(n.inner[i])])
                       [] OTHER -> n
<1> DEFINE R == [k \in DOMAIN b |-> New(b[k])]
<1>1. RewriteAnchors(b, f) = R
  BY DEF RewriteAnchors
<1>2. DOMAIN b = 1 .. Len(b) /\ Len(b) \in Nat /\ \A k \in DOMAIN b : b[k] \in Nodes
  BY LenProperties
<1>3. \A h \in Urls : To(h) \in Urls
  OBVIOUS
<1>4. ASSUME NEW n \in Nodes
      PROVE  /\ New(n) \in Nodes /\ New(n).tag = n.tag
             /\ n.tag = "a" => New(n) = Anchor(To(n.href))
             /\ n.tag = "iframe" => New(n) = n
  <2>1. CASE n.tag = "a"
    <3>1. New(n) = Anchor(To(n.href)) /\ n.href \in Urls
      BY <2>1, NodeKinds
    <3> HIDE DEF New
    <3>2. To(n.href) \in Urls
      BY <1>3, <3>1
    <3> HIDE DEF To
    <3>3. QED
      BY <2>1, <3>1, <3>2, AnchorIsNode
  <2>2. CASE n.tag = "instagram"
    <3> DEFINE inner == [i \in DOMAIN n.inner |-> To(n.inner[i])]
    <3>1. New(n) = Instagram(n.permalink, inner) /\ n.inner \in Seq(Urls) /\ n.permalink \in Urls
      BY <2>2, NodeKinds
    <3> HIDE DEF New
    <3>2. DOMAIN n.inner = 1 .. Len(n.inner) /\ Len(n.inner) \in Nat /\ \A i \in DOMAIN n.inner : n.inner[i] \in Urls
      BY <3>1, LenProperties
    <3>3. inner \in [1 .. Len(n.inner) -> Urls]
      BY <1>3, <3>2
    <3> HIDE DEF inner
    <3>4. inner \in Seq(Urls)
      BY <3>2, <3>3, ListOf
    <3>5. QED
      BY <2>2, <3>1, <3>4, InstagramIsNode
  <2>3. CASE n.tag # "a" /\ n.tag # "instagram"
    <3>1. New(n) = n
      BY <2>3
    <3> HIDE DEF New
    <3>2. QED
      BY <2>3, <3>1
  <2>4. QED
    BY <2>1, <2>2, <2>3
<1> HIDE DEF New
<1>5. R \in [1 .. Len(b) -> Nodes]
  BY <1>2, <1>4
<1>6. R \in Seq(Nodes) /\ DOMAIN R = DOMAIN b
  <2> HIDE DEF R
  <2>1. QED
    BY <1>2, <1>5, ListOf
<1>7. \A k \in DOMAIN b : R[k] = New(b[k])
  OBVIOUS
<1> HIDE DEF R
<1>8. QED
  BY <1>1, <1>2, <1>4, <1>6, <1>7

----------------------------------------------------------------------------
(* URLs.                                                                   *)

\* What the constants are.
LEMMA Articles ==
  /\ \A a \in {Own} \cup Others : a \in Texts /\ a # Token /\ a # " " /\ UrlOf[a] \in Urls
  /\ \A a, o \in {Own} \cup Others : UrlOf[a] = UrlOf[o] => a = o
  /\ Own \notin Others
  BY ArticleBodyAssumption DEF IsInjective

\* The first piece of a URL.
LEMMA HeadIs ==
  ASSUME NEW u \in Urls, u # <<>>
  PROVE  Head(u) = u[1]
<1>1. u \in Seq(Texts)
  BY DEF Urls
<1>2. QED
  BY <1>1

LEMMA Clients ==
  ASSUME NEW c \in ClientUrls
  PROVE  /\ c \in Urls
         /\ c # <<>> => Absolute(c)
<1>1. <<>> \in Urls
  BY EmptySeq DEF Urls
<1>2. QED
  BY <1>1, ArticleBodyAssumption DEF Absolute

\* The rest of a URL is a URL.
LEMMA RestType ==
  ASSUME NEW u \in Urls, NEW c \in Urls
  PROVE  Rest(u, c) \in Urls /\ Range(Rest(u, c)) \subseteq Range(u)
<1>1. Len(u) \in Nat /\ Len(c) \in Nat /\ DOMAIN u = 1 .. Len(u)
  BY LenProperties DEF Urls
<1>2. \A i \in Len(c) + 1 .. Len(u) : u[i] \in Range(u) /\ u[i] \in Texts
  BY <1>1, ElementOfSeq DEF Range, Urls
<1>3. Rest(u, c) \in Seq(Texts)
  BY <1>1, <1>2, SubSeqProperties DEF Rest
<1>4. Rest(u, c) \in Seq(Range(u))
  BY <1>1, <1>2, SubSeqProperties DEF Rest
<1>5. QED
  BY <1>3, <1>4, RangeOfSeq DEF Urls

\* Cutting it off again.
LEMMA RestOfFront ==
  ASSUME NEW s \in Urls, NEW t \in Urls
  PROVE  Rest(s \o t, s) = t
<1>0. s \o t \in Urls
  BY FollowedType DEF Followed, Urls
<1>1. Len(s) \in Nat /\ Len(t) \in Nat /\ Len(s \o t) = Len(s) + Len(t)
  BY LenProperties, FollowedType DEF Followed, Urls
<1>2. \A i \in 1 .. Len(t) : (s \o t)[Len(s) + i] = t[i]
  BY FollowedAt DEF Followed, Urls
<1>3. \A i \in Len(s) + 1 .. Len(s \o t) : (s \o t)[i] \in Texts
  BY <1>0, <1>1, ElementOfSeq DEF Urls
<1> DEFINE rest == SubSeq(s \o t, Len(s) + 1, Len(s \o t))
<1>4. Len(rest) = IF Len(s) + 1 <= Len(s \o t) THEN Len(s \o t) - (Len(s) + 1) + 1 ELSE 0
  BY <1>1, <1>3, SubSeqProperties
<1>5. \A i \in 1 .. Len(s \o t) - (Len(s) + 1) + 1 : rest[i] = (s \o t)[Len(s) + 1 + i - 1]
  BY <1>1, <1>3, SubSeqProperties
<1>6. rest \in Seq(Texts)
  BY <1>1, <1>3, SubSeqProperties
<1>7. Len(rest) = Len(t)
  BY <1>1, <1>4
<1>8. ASSUME NEW i \in 1 .. Len(rest)
      PROVE  rest[i] = t[i]
  <2>1. i \in 1 .. Len(t) /\ i \in 1 .. Len(s \o t) - (Len(s) + 1) + 1 /\ Len(s) + 1 + i - 1 = Len(s) + i
    BY <1>1, <1>7
  <2>2. QED
    BY <1>2, <1>5, <2>1
<1>9. rest = t
  BY <1>6, <1>7, <1>8, SeqEqual DEF Urls
<1>10. QED
  BY <1>9 DEF Rest

\* A URL in front of another.
LEMMA InFront ==
  ASSUME NEW s \in Urls, NEW t \in Urls
  PROVE  /\ s \o t \in Urls /\ Range(s \o t) = Range(s) \cup Range(t)
         /\ s # <<>> => s \o t # <<>> /\ (s \o t)[1] = s[1]
         /\ s = <<>> => s \o t = t
         /\ \A u \in Urls : s \o t = s \o u => t = u
         /\ Rest(s \o t, s) = t /\ HasPrefix(s \o t, s)
<1>1. s \o t \in Urls /\ Range(s \o t) = Range(s) \cup Range(t)
  BY FollowedType, FollowedRange DEF Followed, Urls
<1>2. s # <<>> => s \o t # <<>> /\ (s \o t)[1] = s[1]
  BY FollowedFirst DEF Followed, Urls
<1>3. s = <<>> => s \o t = t
  BY FollowedFirst DEF Followed, Urls
<1>4. \A u \in Urls : s \o t = s \o u => t = u
  <2>1. ASSUME NEW u \in Urls, s \o t = s \o u
        PROVE  t = u
    <3>1. Rest(s \o t, s) = t /\ Rest(s \o u, s) = u
      BY RestOfFront
    <3>2. QED
      BY <2>1, <3>1
  <2>2. QED
    BY <2>1
<1>5. QED
  BY <1>1, <1>2, <1>3, <1>4, RestOfFront DEF HasPrefix

\* The page of an article.
LEMMA InternalProperties ==
  ASSUME NEW base \in Urls, NEW a \in Texts
  PROVE  /\ InternalHref(base, a) \in Urls /\ Range(InternalHref(base, a)) = Range(base) \cup {"/articles/", a}
         /\ HasPrefix(InternalHref(base, a), base) /\ Rest(InternalHref(base, a), base) = <<"/articles/", a>>
         /\ base # <<>> => InternalHref(base, a) # <<>> /\ InternalHref(base, a)[1] = base[1]
         /\ base = <<>> => InternalHref(base, a)[1] = "/articles/"
         /\ \A o \in Texts : InternalHref(base, o) = InternalHref(base, a) => o = a
<1>1. "/articles/" \in Texts
  BY ArticleBodyAssumption
<1>2. \A o \in Texts : <<"/articles/", o>> \in Urls
  BY <1>1 DEF Urls
<1>3. Range(<<"/articles/", a>>) = {"/articles/", a}
  <2>1. DOMAIN <<"/articles/", a>> = {1, 2}
    OBVIOUS
  <2>2. QED
    BY <2>1 DEF Range
<1>4. \A o \in Texts : <<"/articles/", o>> = <<"/articles/", a>> => o = a
  OBVIOUS
<1> DEFINE page(o) == <<"/articles/", o>>
<1>5. /\ \A o \in Texts : page(o) \in Urls /\ InternalHref(base, o) = base \o page(o) /\ (page(o) = page(a) => o = a)
      /\ page(a) = <<"/articles/", a>> /\ page(a)[1] = "/articles/" /\ Range(page(a)) = {"/articles/", a}
  BY <1>2, <1>3, <1>4 DEF InternalHref
<1> HIDE DEF page
<1>6. /\ base \o page(a) \in Urls /\ Range(base \o page(a)) = Range(base) \cup Range(page(a))
      /\ HasPrefix(base \o page(a), base) /\ Rest(base \o page(a), base) = page(a)
      /\ base # <<>> => base \o page(a) # <<>> /\ (base \o page(a))[1] = base[1]
      /\ base = <<>> => base \o page(a) = page(a)
  BY <1>5, InFront
<1>7. ASSUME NEW o \in Texts, base \o page(o) = base \o page(a)
      PROVE  page(o) = page(a)
  <2>1. page(o) \in Urls /\ page(a) \in Urls
    BY <1>5
  <2>2. Rest(base \o page(o), base) = page(o) /\ Rest(base \o page(a), base) = page(a)
    BY <2>1, RestOfFront
  <2>3. QED
    BY <1>7, <2>2
<1>8. QED
  BY <1>5, <1>6, <1>7

LEMMA TokenUrl ==
  <<Token>> \in Urls /\ Range(<<Token>>) = {Token} /\ <<Token>> # <<>> /\ <<Token>>[1] = Token
<1>1. Token \in Texts
  BY ArticleBodyAssumption
<1>2. DOMAIN <<Token>> = {1}
  OBVIOUS
<1>3. QED
  BY <1>1, <1>2 DEF Range, Urls

\* The page of an article, as it is stored.
LEMMA StoredPage ==
  ASSUME NEW a \in Texts
  PROVE  /\ InternalHref(<<Token>>, a) \in Urls /\ Range(InternalHref(<<Token>>, a)) = {Token, "/articles/", a}
         /\ InternalHref(<<Token>>, a) # <<>> /\ InternalHref(<<Token>>, a)[1] = Token
         /\ \A o \in Texts : InternalHref(<<Token>>, o) = InternalHref(<<Token>>, a) => o = a
<1> DEFINE token == <<Token>>
<1>1. token \in Urls /\ Range(token) = {Token} /\ token # <<>> /\ token[1] = Token
  BY TokenUrl
<1> HIDE DEF token
<1>2. /\ InternalHref(token, a) \in Urls /\ Range(InternalHref(token, a)) = Range(token) \cup {"/articles/", a}
      /\ InternalHref(token, a) # <<>> /\ InternalHref(token, a)[1] = token[1]
  BY <1>1, InternalProperties
<1>3. \A o \in Texts : InternalHref(token, o) = InternalHref(token, a) => o = a
  BY <1>1, InternalProperties
<1>4. QED
  BY <1>1, <1>2, <1>3 DEF token

\* A URL with the token in front.
LEMMA TokenInFront ==
  ASSUME NEW t \in Urls
  PROVE  /\ <<Token>> \o t \in Urls /\ <<Token>> \o t # <<>> /\ (<<Token>> \o t)[1] = Token
         /\ Range(<<Token>> \o t) = {Token} \cup Range(t)
         /\ \A u \in Urls : <<Token>> \o t = <<Token>> \o u => t = u
<1> DEFINE token == <<Token>>
<1>1. token \in Urls /\ Range(token) = {Token} /\ token # <<>> /\ token[1] = Token
  BY TokenUrl
<1> HIDE DEF token
<1>2. /\ token \o t \in Urls /\ token \o t # <<>> /\ (token \o t)[1] = Token
      /\ Range(token \o t) = {Token} \cup Range(t)
  BY <1>1, InFront
<1>3. \A u \in Urls : token \o t = token \o u => t = u
  BY <1>1, InFront
<1>4. QED
  BY <1>2, <1>3 DEF token

\* The pieces that take the place of a stored URL's.
LEMMA ExpandIs ==
  ASSUME NEW s \in Urls, NEW c \in Urls
  PROVE  \E lists : /\ Expand(s, c) = Joined(lists) /\ Len(lists) = Len(s)
                    /\ \A k \in 1 .. Len(s) : lists[k] = (IF s[k] = Token THEN c ELSE <<s[k]>>) /\ lists[k] \in Seq(Texts)
<1> DEFINE lists == [k \in DOMAIN s |-> IF s[k] = Token THEN c ELSE <<s[k]>>]
<1>1. DOMAIN s = 1 .. Len(s) /\ Len(s) \in Nat /\ \A k \in 1 .. Len(s) : s[k] \in Texts
  BY LenProperties DEF Urls
<1>2. \A k \in 1 .. Len(s) : <<s[k]>> \in Seq(Texts)
  BY <1>1
<1>3. \A k \in 1 .. Len(s) : lists[k] = (IF s[k] = Token THEN c ELSE <<s[k]>>) /\ lists[k] \in Seq(Texts)
  BY <1>1, <1>2 DEF Urls
<1>4. Expand(s, c) = Joined(lists)
  BY DEF Expand
<1>5. lists \in [1 .. Len(s) -> Urls]
  BY <1>1, <1>3 DEF Urls
<1> HIDE DEF lists
<1>6. Len(lists) = Len(s)
  BY <1>1, <1>5, ListOf
<1>7. QED
  BY <1>3, <1>4, <1>6

\* A URL without the token is served as it is stored.
LEMMA ExpandPlain ==
  ASSUME NEW s \in Urls, NEW c \in Urls, Token \notin Range(s)
  PROVE  Expand(s, c) = s
<1>1. PICK lists : /\ Expand(s, c) = Joined(lists) /\ Len(lists) = Len(s)
                   /\ \A k \in 1 .. Len(s) : lists[k] = (IF s[k] = Token THEN c ELSE <<s[k]>>)
  BY ExpandIs
<1>2. \A k \in 1 .. Len(s) : s[k] # Token
  BY LenProperties DEF Range, Urls
<1>3. \A k \in 1 .. Len(s) : lists[k] = <<s[k]>>
  BY <1>1, <1>2
<1>4. Joined(lists) = s
  BY <1>1, <1>3, JoinedSingletons DEF Urls
<1>5. QED
  BY <1>1, <1>4

\* A page of our client is served as a page of the client that serves it.
LEMMA ExpandOurs ==
  ASSUME NEW t \in Urls, NEW c \in Urls, Token \notin Range(t)
  PROVE  Expand(<<Token>> \o t, c) = c \o t
<1> DEFINE s == <<Token>> \o t
<1>1. s \in Urls /\ s[1] = Token /\ Len(s) = 1 + Len(t) /\ \A k \in 1 .. Len(t) : s[k + 1] = t[k]
  <2>1. s \in Urls /\ s[1] = Token
    BY TokenUrl, InFront
  <2>2. Len(<<Token>>) = 1
    OBVIOUS
  <2>3. Len(s) = 1 + Len(t) /\ \A k \in 1 .. Len(t) : s[1 + k] = t[k]
    BY <2>2, TokenUrl, FollowedType, FollowedAt DEF Followed, Urls
  <2>4. \A k \in 1 .. Len(t) : 1 + k = k + 1
    OBVIOUS
  <2>5. QED
    BY <2>1, <2>3, <2>4
<1> HIDE DEF s
<1>2. PICK lists : /\ Expand(s, c) = Joined(lists) /\ Len(lists) = Len(s)
                   /\ \A k \in 1 .. Len(s) : lists[k] = (IF s[k] = Token THEN c ELSE <<s[k]>>)
  BY <1>1, ExpandIs
<1>3. Len(t) \in Nat /\ \A k \in 1 .. Len(t) : t[k] # Token
  BY LenProperties DEF Range, Urls
<1>4. 1 \in 1 .. Len(s) /\ \A k \in 1 .. Len(t) : k + 1 \in 1 .. Len(s)
  BY <1>1, <1>3
<1>5. lists[1] = c
  BY <1>1, <1>2, <1>4
<1>6. ASSUME NEW k \in 1 .. Len(t)
      PROVE  lists[k + 1] = <<t[k]>>
  <2>1. k + 1 \in 1 .. Len(s) /\ s[k + 1] = t[k] /\ t[k] # Token
    BY <1>1, <1>3, <1>4
  <2>2. QED
    BY <1>2, <2>1
<1>7. Len(lists) = Len(t) + 1
  BY <1>1, <1>2, <1>3
<1>8. Joined(lists) = Followed(c, t)
  BY <1>5, <1>6, <1>7, JoinedTail DEF Urls
<1>9. QED
  BY <1>2, <1>8 DEF Followed, s

\* Whatever is stored, the sanitiser keeps what is served for it.
LEMMA ExpandSafe ==
  ASSUME NEW s \in StoredUrls, NEW c, Absolute(c)
  PROVE  Expand(s, c) \in SafeUrls
<1>1. s \in Urls /\ c \in Urls /\ s # <<>> /\ c # <<>> /\ c[1] \in Schemes /\ " " \notin Range(s) /\ " " \notin Range(c)
  BY HeadIs DEF StoredUrls, Absolute
<1>2. PICK lists : /\ Expand(s, c) = Joined(lists) /\ Len(lists) = Len(s)
                   /\ \A k \in 1 .. Len(s) : lists[k] = (IF s[k] = Token THEN c ELSE <<s[k]>>) /\ lists[k] \in Seq(Texts)
  BY <1>1, ExpandIs
<1>3. DOMAIN s = 1 .. Len(s) /\ Len(s) \in Nat /\ Len(s) # 0
  BY <1>1, LenProperties, EmptySeq DEF Urls
<1>4. 1 \in 1 .. Len(s) /\ Len(lists) > 0
  BY <1>2, <1>3
<1>5. lists[1] # <<>> /\ lists[1][1] \in Schemes
  <2>1. CASE s[1] = Token
    BY <1>1, <1>2, <1>4, <2>1
  <2>2. CASE s[1] # Token
    <3>1. s[1] \in Schemes
      BY <2>2 DEF StoredUrls
    <3>2. lists[1] = <<s[1]>>
      BY <1>2, <1>4, <2>2
    <3>3. QED
      BY <3>1, <3>2
  <2>3. QED
    BY <2>1, <2>2
<1>6. /\ Joined(lists) \in Seq(Texts) /\ Range(Joined(lists)) = UNION {Range(lists[k]) : k \in 1 .. Len(lists)}
      /\ Joined(lists) # <<>> /\ Joined(lists)[1] = lists[1][1]
  BY <1>2, <1>3, <1>4, <1>5, JoinedProperties
<1>7. ASSUME NEW k \in 1 .. Len(s)
      PROVE  " " \notin Range(lists[k])
  <2>1. CASE s[k] = Token
    BY <1>1, <1>2, <2>1
  <2>2. CASE s[k] # Token
    <3>1. lists[k] = <<s[k]>> /\ s[k] # " "
      BY <1>1, <1>2, <1>3, <2>2 DEF Range
    <3>2. Range(<<s[k]>>) = {s[k]}
      BY DEF Range
    <3>3. QED
      BY <3>1, <3>2
  <2>3. QED
    BY <2>1, <2>2
<1>8. " " \notin Range(Joined(lists))
  BY <1>2, <1>6, <1>7
<1>9. QED
  BY <1>2, <1>5, <1>6, <1>8 DEF SafeUrls, Urls

----------------------------------------------------------------------------
(* The treatments.                                                         *)

\* A function of the nodes of a body that gives nodes gives a body.
LEMMA NodeByNode ==
  ASSUME NEW b \in Seq(Nodes), NEW R, DOMAIN R = DOMAIN b, NEW S,
         R = [k \in DOMAIN R |-> R[k]], \A k \in DOMAIN b : R[k] \in S
  PROVE  R \in Seq(S) /\ Len(R) = Len(b)
<1>1. DOMAIN b = 1 .. Len(b) /\ Len(b) \in Nat
  BY LenProperties
<1>2. R \in [1 .. Len(b) -> S]
  BY <1>1
<1>3. QED
  BY <1>1, <1>2, ListOf

LEMMA TreatedUrlsType ==
  ASSUME NEW b \in Seq(Nodes), NEW c \in ClientUrls, live \subseteq Others
  PROVE  TreatedUrls(b, c) \in Seq(Nodes)
<1> DEFINE f == Internal(Hrefs(b), c)
<1>1. c \in Urls
  BY Clients
<1>2. ASSUME NEW h \in DOMAIN f
      PROVE  f[h] \in Urls
  <2>1. \E a \in live : UrlOf[a] = h
    BY DEF Internal
  <2> DEFINE a == CHOOSE o \in live : UrlOf[o] = h
  <2>2. a \in live /\ f[h] = InternalHref(c, a)
    BY <1>2, <2>1 DEF Internal
  <2> HIDE DEF a, f
  <2>3. a \in Texts
    BY <2>2, Articles
  <2>4. QED
    BY <1>1, <2>2, <2>3, InternalProperties
<1> HIDE DEF f
<1>3. RewriteAnchors(b, f) \in Seq(Nodes)
  BY <1>2, RewriteProperties
<1>4. QED
  BY <1>3 DEF TreatedUrls, f

\* A Twitch player gets the host of our client, other nodes stay what they are.
LEMMA TwitchParentProperties ==
  ASSUME NEW n \in Nodes, n.tag = "iframe", NEW c \in ClientUrls
  PROVE  /\ TwitchParent(n, c) \in Nodes /\ TwitchParent(n, c).tag = "iframe"
         /\ HostOf[c] # "" /\ TwitchParent(n, c).host \in Twitch => TwitchParent(n, c).parent = <<HostOf[c]>>
<1> DEFINE Iframes == [tag : {"iframe"}, host : STRING, embed : BOOLEAN, parent : Seq(STRING)]
<1> DEFINE m == [n EXCEPT !.parent = <<HostOf[c]>>]
<1>1. n \in Iframes
  BY NodeKinds
<1>2. <<HostOf[c]>> \in Seq(STRING)
  <2>1. HostOf[c] \in STRING
    BY ArticleBodyAssumption
  <2>2. QED
    BY <2>1
<1>3. m \in Iframes /\ m.host = n.host /\ m.parent = <<HostOf[c]>> /\ m.tag = "iframe"
  BY <1>1, <1>2
<1>4. n \in Nodes /\ m \in Nodes
  BY <1>1, <1>3 DEF Nodes
<1>5. CASE n.host \in Twitch /\ HostOf[c] # ""
  <2>1. TwitchParent(n, c) = m
    BY <1>5 DEF TwitchParent, Twitch
  <2>2. QED
    BY <1>3, <1>4, <2>1
<1>6. CASE ~(n.host \in Twitch /\ HostOf[c] # "")
  <2>1. TwitchParent(n, c) = n
    BY <1>6 DEF TwitchParent, Twitch
  <2>2. QED
    BY <1>6, <2>1
<1>7. QED
  BY <1>5, <1>6

LEMMA CleanURLType ==
  ASSUME NEW u \in Urls
  PROVE  CleanURL(u) \in Urls
<1> DEFINE cuts == {k \in DOMAIN u : u[k] \in QueryOrFragment}
<1>1. DOMAIN u = 1 .. Len(u) /\ Len(u) \in Nat /\ \A i \in 1 .. Len(u) : u[i] \in Texts
  BY LenProperties DEF Urls
<1>2. CASE cuts = {}
  BY <1>2 DEF CleanURL
<1>3. CASE cuts # {}
  <2>1. cuts \subseteq 1 .. Len(u)
    BY <1>1
  <2> DEFINE m == Min(cuts)
  <2>2. CleanURL(u) = SubSeq(u, 1, m - 1)
    BY <1>3 DEF CleanURL
  <2>3. m \in cuts
    <3>1. cuts \in SUBSET Nat
      BY <2>1
    <3> HIDE DEF cuts
    <3>2. \E x \in cuts : \A y \in cuts : x <= y
      BY <1>3, <3>1, LeastNumber
    <3>3. QED
      BY <3>2 DEF Min
  <2> HIDE DEF m
  <2>4. m - 1 \in Int /\ \A i \in 1 .. m - 1 : u[i] \in Texts
    BY <1>1, <2>1, <2>3
  <2>5. QED
    BY <2>2, <2>4, SubSeqProperties DEF Urls
<1>4. QED
  BY <1>2, <1>3

LEMMA PermalinkType ==
  ASSUME NEW n \in Nodes, n.tag = "instagram"
  PROVE  InstagramPermalink(n) \in Urls
<1> DEFINE posts == Kept(n.inner, {h \in Range(n.inner) : "https://instagram.com/p/" \in Range(h)})
<1>1. n.permalink \in Urls /\ n.inner \in Seq(Urls)
  BY NodeKinds
<1>2. posts \in Seq(Urls)
  BY <1>1, KeptProperties
<1>3. InstagramPermalink(n) = CASE n.permalink # <<>> -> CleanURL(n.permalink)
                                [] n.permalink = <<>> /\ posts # <<>> -> CleanURL(Head(posts))
                                [] OTHER -> <<>>
  BY DEF InstagramPermalink
<1> HIDE DEF posts
<1>4. CASE n.permalink # <<>>
  BY <1>1, <1>3, <1>4, CleanURLType
<1>5. CASE n.permalink = <<>> /\ posts # <<>>
  <2>1. Head(posts) \in Urls
    BY <1>2, <1>5, HeadTailProperties
  <2>2. QED
    BY <1>3, <1>5, <2>1, CleanURLType
<1>6. CASE n.permalink = <<>> /\ posts = <<>>
  <2>1. <<>> \in Urls
    BY EmptySeq DEF Urls
  <2>2. QED
    BY <1>3, <1>6, <2>1
<1>7. QED
  BY <1>4, <1>5, <1>6

\* Treated embeds: a body again, whose Twitch players name our client's host.
LEMMA TreatedEmbedsProperties ==
  ASSUME NEW b \in Seq(Nodes), NEW c \in ClientUrls
  PROVE  /\ TreatedEmbeds(b, c) \in Seq(Nodes)
         /\ HostOf[c] # "" => \A k \in DOMAIN TreatedEmbeds(b, c) :
              TreatedEmbeds(b, c)[k].tag = "iframe" /\ TreatedEmbeds(b, c)[k].host \in Twitch
                 => TreatedEmbeds(b, c)[k].parent = <<HostOf[c]>>
<1> DEFINE New(n) == CASE n.tag = "iframe" -> TwitchParent(n, c)
                       [] n.tag = "instagram" /\ InstagramPermalink(n) # <<>> -> Anchor(InstagramPermalink(n))
                       [] OTHER -> n
<1> DEFINE Good(n) == n.tag = "iframe" /\ n.host \in Twitch => n.parent = <<HostOf[c]>>
<1> DEFINE R == [k \in DOMAIN b |-> New(b[k])]
<1>1. \A k \in DOMAIN b : b[k] \in Nodes
  BY LenProperties
<1>2. ASSUME NEW n \in Nodes
      PROVE  New(n) \in Nodes /\ (HostOf[c] # "" => Good(New(n)))
  <2>1. CASE n.tag = "iframe"
    <3>1. New(n) = TwitchParent(n, c)
      BY <2>1
    <3> HIDE DEF New
    <3>2. QED
      BY <2>1, <3>1, TwitchParentProperties
  <2>2. CASE n.tag = "instagram" /\ InstagramPermalink(n) # <<>>
    <3>1. New(n) = Anchor(InstagramPermalink(n))
      BY <2>2
    <3> HIDE DEF New
    <3>2. New(n) \in Nodes /\ New(n).tag = "a"
      BY <2>2, <3>1, PermalinkType, AnchorIsNode
    <3>3. QED
      BY <3>2
  <2>3. CASE n.tag # "iframe" /\ ~(n.tag = "instagram" /\ InstagramPermalink(n) # <<>>)
    <3>1. New(n) = n
      BY <2>3
    <3> HIDE DEF New
    <3>2. QED
      BY <2>3, <3>1
  <2>4. QED
    BY <2>1, <2>2, <2>3
<1>3. TreatedEmbeds(b, c) = R
  BY DEF TreatedEmbeds
<1> HIDE DEF New, Good
<1>4. \A k \in DOMAIN b : R[k] = New(b[k])
  OBVIOUS
<1>5. DOMAIN R = DOMAIN b /\ R = [k \in DOMAIN R |-> R[k]]
  OBVIOUS
<1> HIDE DEF R
<1>6. R \in Seq(Nodes)
  <2>1. \A k \in DOMAIN b : R[k] \in Nodes
    BY <1>1, <1>2, <1>4
  <2>2. QED
    BY <1>5, <2>1, NodeByNode
<1>7. HostOf[c] # "" => \A k \in DOMAIN R : Good(R[k])
  BY <1>1, <1>2, <1>4, <1>5
<1>8. QED
  BY <1>3, <1>6, <1>7 DEF Good

----------------------------------------------------------------------------
(* The sanitiser.                                                          *)

LEMMA CleanNodeKinds ==
  /\ \A u \in SafeUrls : Anchor(u) \in CleanNodes /\ Anchor(u).tag = "a" /\ Anchor(u).href = u
  /\ \A n \in CleanNodes : /\ n \in Nodes
                           /\ \/ n.tag = "a" /\ n.href \in SafeUrls /\ n = Anchor(n.href)
                              \/ n.tag = "iframe" /\ EmbedAllowed(n)
<1>1. ASSUME NEW u \in SafeUrls
      PROVE  Anchor(u) \in CleanNodes /\ Anchor(u).tag = "a" /\ Anchor(u).href = u
  <2>1. u \in Urls
    BY DEF SafeUrls
  <2>2. Anchor(u) \in Nodes /\ Anchor(u).tag = "a" /\ Anchor(u).href = u
    BY <2>1, AnchorIsNode
  <2>3. QED
    BY <2>2 DEF CleanNodes
<1>2. ASSUME NEW n \in CleanNodes
      PROVE  /\ n \in Nodes
             /\ \/ n.tag = "a" /\ n.href \in SafeUrls /\ n = Anchor(n.href)
                \/ n.tag = "iframe" /\ EmbedAllowed(n)
  <2>1. n \in Nodes /\ ((n.tag = "a" /\ n.href \in SafeUrls) \/ (n.tag = "iframe" /\ EmbedAllowed(n)))
    BY DEF CleanNodes
  <2>2. QED
    BY <2>1, NodeKinds
<1>3. QED
  BY <1>1, <1>2

\* A URL is trimmed, and kept when it is absolute.
LEMMA SafeUrlProperties ==
  ASSUME NEW u \in Urls
  PROVE  /\ SafeUrl(u) = <<>> \/ \E t \in SafeUrls : SafeUrl(u) = <<t>>
         /\ u \in SafeUrls => SafeUrl(u) = <<u>>
<1> DEFINE trimmed == Kept(u, Range(u) \ {" "})
<1>1. trimmed \in Urls /\ " " \notin Range(trimmed)
  <2> DEFINE S == Range(u) \ {" "}
  <2>1. " " \notin S
    OBVIOUS
  <2>2. Kept(u, S) \in Urls /\ Range(Kept(u, S)) = Range(u) \cap S
    <3> HIDE DEF S
    <3>1. QED
      BY KeptProperties DEF Urls
  <2>3. QED
    BY <2>1, <2>2
<1>2. SafeUrl(u) = IF trimmed # <<>> /\ Head(trimmed) \in Schemes THEN <<trimmed>> ELSE <<>>
  BY DEF SafeUrl
<1>3. u \in SafeUrls => trimmed = u
  <2>1. " " \notin Range(u) => Range(u) \subseteq Range(u) \ {" "}
    OBVIOUS
  <2>2. QED
    BY <2>1, KeptAll DEF SafeUrls, Urls
<1> HIDE DEF trimmed
<1>4. CASE trimmed # <<>> /\ Head(trimmed) \in Schemes
  <2>1. trimmed \in SafeUrls
    BY <1>1, <1>4, HeadIs DEF SafeUrls
  <2>2. QED
    BY <1>2, <1>3, <1>4, <2>1
<1>5. CASE ~(trimmed # <<>> /\ Head(trimmed) \in Schemes)
  <2>1. u \notin SafeUrls
    BY <1>3, <1>5, HeadIs DEF SafeUrls
  <2>2. QED
    BY <1>2, <1>5, <2>1
<1>6. QED
  BY <1>4, <1>5

\* A list of one element.
LEMMA Singleton ==
  ASSUME NEW S, NEW e \in S, NEW f, f = [i \in 1 .. 1 |-> f[i]], f[1] = e
  PROVE  f = <<e>>
<1>1. f \in [1 .. 1 -> S]
  OBVIOUS
<1>2. f \in Seq(S) /\ Len(f) = 1
  BY <1>1, ListOf
<1>3. <<e>> \in Seq(S) /\ Len(<<e>>) = 1 /\ <<e>>[1] = e
  OBVIOUS
<1>4. \A i \in 1 .. 1 : f[i] = <<e>>[i]
  BY <1>3
<1>5. QED
  BY <1>2, <1>3, <1>4, SeqEqual

Links == {Anchor(u) : u \in SafeUrls}

\* The link that is left of one href.
LEMMA SafeAnchorIs ==
  ASSUME NEW u \in Urls, NEW f, f = [i \in DOMAIN SafeUrl(u) |-> Anchor(SafeUrl(u)[i])]
  PROVE  /\ f \in Seq(Links)
         /\ u \in SafeUrls => f = <<Anchor(u)>>
<1>1. CASE SafeUrl(u) = <<>>
  <2>1. f = [i \in 1 .. 0 |-> Anchor(<<>>[i])]
    BY <1>1
  <2>2. f \in [1 .. 0 -> Links]
    BY <2>1
  <2>3. f \in Seq(Links)
    BY <2>2, ListOf
  <2>4. u \notin SafeUrls
    <3>1. <<u>> # <<>>
      OBVIOUS
    <3>2. QED
      BY <1>1, <3>1, SafeUrlProperties
  <2>5. QED
    BY <2>3, <2>4
<1>2. ASSUME NEW t \in SafeUrls, SafeUrl(u) = <<t>>
      PROVE  f \in Seq(Links) /\ f = <<Anchor(t)>>
  <2>1. DOMAIN <<t>> = 1 .. 1 /\ <<t>>[1] = t
    OBVIOUS
  <2>2. f = [i \in 1 .. 1 |-> f[i]] /\ f[1] = Anchor(t)
    BY <1>2, <2>1
  <2>3. Anchor(t) \in Links
    BY DEF Links
  <2>4. f = <<Anchor(t)>>
    BY <2>2, <2>3, Singleton
  <2>5. <<Anchor(t)>> \in Seq(Links)
    BY <2>3
  <2>6. QED
    BY <2>4, <2>5
<1>3. CASE \E t \in SafeUrls : SafeUrl(u) = <<t>>
  <2>1. PICK t \in SafeUrls : SafeUrl(u) = <<t>>
    BY <1>3
  <2>2. u \in SafeUrls => t = u
    <3>1. <<u>> = <<t>> => t = u
      OBVIOUS
    <3>2. QED
      BY <2>1, <3>1, SafeUrlProperties
  <2>3. QED
    BY <1>2, <2>1, <2>2
<1>4. QED
  BY <1>1, <1>3, SafeUrlProperties

\* The links that are left of the hrefs of a node.
LEMMA SafeAnchorsProperties ==
  /\ \A hrefs \in Seq(Urls) : SafeAnchors(hrefs) \in Seq(Links)
  /\ \A u \in SafeUrls : SafeAnchors(<<u>>) = <<Anchor(u)>>
<1> DEFINE Piece(u) == [i \in DOMAIN SafeUrl(u) |-> Anchor(SafeUrl(u)[i])]
<1> DEFINE lists(hrefs) == [k \in DOMAIN hrefs |-> Piece(hrefs[k])]
<1>1. \A hrefs : SafeAnchors(hrefs) = Joined(lists(hrefs))
  BY DEF SafeAnchors
<1>2. \A u \in Urls : Piece(u) \in Seq(Links) /\ (u \in SafeUrls => Piece(u) = <<Anchor(u)>>)
  BY SafeAnchorIs
<1> HIDE DEF Piece
<1>3. ASSUME NEW hrefs \in Seq(Urls)
      PROVE  /\ Len(lists(hrefs)) = Len(hrefs) /\ Len(hrefs) \in Nat
             /\ \A k \in 1 .. Len(hrefs) : lists(hrefs)[k] = Piece(hrefs[k]) /\ lists(hrefs)[k] \in Seq(Links)
  <2>1. DOMAIN hrefs = 1 .. Len(hrefs) /\ Len(hrefs) \in Nat /\ \A k \in 1 .. Len(hrefs) : hrefs[k] \in Urls
    BY LenProperties
  <2>2. \A k \in 1 .. Len(hrefs) : lists(hrefs)[k] = Piece(hrefs[k]) /\ lists(hrefs)[k] \in Seq(Links)
    BY <1>2, <2>1
  <2> DEFINE S == Seq(Links)
  <2>3. lists(hrefs) \in [1 .. Len(hrefs) -> S]
    <3>1. \A k \in 1 .. Len(hrefs) : Piece(hrefs[k]) \in S
      BY <2>2
    <3> HIDE DEF S
    <3>2. QED
      BY <2>1, <3>1
  <2> HIDE DEF S, lists
  <2>4. Len(lists(hrefs)) = Len(hrefs)
    BY <2>1, <2>3, ListOf
  <2>5. QED
    BY <2>1, <2>2, <2>4
<1> HIDE DEF lists
<1>4. ASSUME NEW hrefs \in Seq(Urls)
      PROVE  SafeAnchors(hrefs) \in Seq(Links)
  <2> DEFINE L == lists(hrefs)
  <2>1. Len(L) \in Nat /\ \A k \in 1 .. Len(L) : L[k] \in Seq(Links)
    BY <1>3
  <2> HIDE DEF L
  <2>2. Joined(L) \in Seq(Links)
    BY <2>1, JoinedProperties
  <2>3. QED
    BY <1>1, <2>2 DEF L
<1>5. ASSUME NEW u \in SafeUrls
      PROVE  SafeAnchors(<<u>>) = <<Anchor(u)>>
  <2>1. u \in Urls
    BY DEF SafeUrls
  <2>2. <<u>> \in Seq(Urls) /\ Len(<<u>>) = 1 /\ <<u>>[1] = u /\ 1 \in 1 .. 1
    BY <2>1
  <2> DEFINE L == lists(<<u>>)
  <2> DEFINE s == <<Anchor(u)>>
  <2>3. Len(L) = 1 /\ L[1] = <<Anchor(u)>>
    BY <1>2, <1>3, <2>1, <2>2
  <2>4. Anchor(u) \in Links
    BY DEF Links
  <2>5. s \in Seq(Links) /\ Len(s) = 1 /\ s[1] = Anchor(u)
    BY <2>4
  <2> HIDE DEF L, s
  <2>6. \A k \in 1 .. Len(s) : L[k] = <<s[k]>>
    BY <2>3, <2>5
  <2>7. Joined(L) = s
    BY <2>3, <2>5, <2>6, JoinedSingletons
  <2>8. QED
    BY <1>1, <2>7 DEF L, s
<1>6. QED
  BY <1>4, <1>5

\* What is left of a node: a clean node, or links.
LEMMA SanitizeNodeProperties ==
  ASSUME NEW n \in Nodes
  PROVE  /\ SanitizeNode(n) \in Seq(CleanNodes)
         /\ \A m \in Range(SanitizeNode(n)) : m.tag = "iframe" => m = n
         /\ n \in CleanNodes => SanitizeNode(n) = <<n>>
<1>1. CASE n.tag = "iframe" /\ EmbedAllowed(n)
  <2>1. SanitizeNode(n) = <<n>>
    BY <1>1 DEF SanitizeNode
  <2>2. n \in CleanNodes
    BY <1>1 DEF CleanNodes
  <2>3. <<n>> \in Seq(CleanNodes)
    BY <2>2
  <2>4. Range(<<n>>) = {n}
    BY DEF Range
  <2>5. QED
    BY <2>1, <2>3, <2>4
<1>2. CASE ~(n.tag = "iframe" /\ EmbedAllowed(n))
  <2>1. SanitizeNode(n) = SafeAnchors(AnchorsOf(n))
    BY <1>2 DEF SanitizeNode
  <2>2. SanitizeNode(n) \in Seq(Links)
    BY <2>1, AnchorsOfType, SafeAnchorsProperties
  <2>3. \A m \in Links : m \in CleanNodes /\ m.tag = "a"
    BY CleanNodeKinds DEF Links
  <2>4. SanitizeNode(n) \in Seq(CleanNodes) /\ \A m \in Range(SanitizeNode(n)) : m.tag = "a"
    <3>1. Links \subseteq CleanNodes
      BY <2>3
    <3>2. QED
      BY <2>2, <2>3, <3>1, SeqMonotonic, RangeOfSeq
  <2>5. ASSUME n \in CleanNodes
        PROVE  SanitizeNode(n) = <<n>>
    <3>1. n.tag = "a" /\ n.href \in SafeUrls /\ n = Anchor(n.href)
      BY <1>2, <2>5, CleanNodeKinds
    <3>2. AnchorsOf(n) = <<n.href>>
      BY <3>1 DEF AnchorsOf
    <3>3. SafeAnchors(<<n.href>>) = <<Anchor(n.href)>>
      BY <3>1, SafeAnchorsProperties
    <3>4. QED
      BY <2>1, <3>1, <3>2, <3>3
  <2>6. QED
    BY <2>4, <2>5
<1>3. QED
  BY <1>1, <1>2

\* What is left of a body, and of one that is clean.
LEMMA SanitizeProperties ==
  ASSUME NEW b \in Seq(Nodes)
  PROVE  /\ Sanitize(b) \in Seq(CleanNodes)
         /\ \A m \in Range(Sanitize(b)) : m.tag = "iframe" => m \in Range(b)
         /\ b \in Seq(CleanNodes) => Sanitize(b) = b
<1> DEFINE lists == [k \in DOMAIN b |-> SanitizeNode(b[k])]
<1>1. DOMAIN b = 1 .. Len(b) /\ Len(b) \in Nat /\ \A k \in 1 .. Len(b) : b[k] \in Nodes /\ b[k] \in Range(b)
  BY LenProperties DEF Range
<1>2. \A k \in 1 .. Len(b) : lists[k] = SanitizeNode(b[k]) /\ lists[k] \in Seq(CleanNodes)
  BY <1>1, SanitizeNodeProperties
<1>3. Len(lists) = Len(b)
  <2> DEFINE S == Seq(CleanNodes)
  <2>1. lists \in [1 .. Len(b) -> S]
    <3>1. \A k \in 1 .. Len(b) : SanitizeNode(b[k]) \in S
      BY <1>2
    <3> HIDE DEF S
    <3>2. QED
      BY <1>1, <3>1
  <2> HIDE DEF S, lists
  <2>2. QED
    BY <1>1, <2>1, ListOf
<1>4. Sanitize(b) = Joined(lists)
  BY DEF Sanitize
<1> HIDE DEF lists
<1>5. Joined(lists) \in Seq(CleanNodes) /\ Range(Joined(lists)) = UNION {Range(lists[k]) : k \in 1 .. Len(b)}
  BY <1>1, <1>2, <1>3, JoinedProperties
<1>6. ASSUME NEW m \in Range(Sanitize(b)), m.tag = "iframe"
      PROVE  m \in Range(b)
  <2>1. PICK k \in 1 .. Len(b) : m \in Range(lists[k])
    BY <1>4, <1>5
  <2>2. m = b[k]
    BY <1>1, <1>2, <1>6, <2>1, SanitizeNodeProperties
  <2>3. QED
    BY <1>1, <2>2
<1>7. ASSUME b \in Seq(CleanNodes)
      PROVE  Sanitize(b) = b
  <2>1. \A k \in 1 .. Len(b) : b[k] \in CleanNodes
    BY <1>7, ElementOfSeq
  <2>2. \A k \in 1 .. Len(b) : lists[k] = <<b[k]>>
    BY <1>1, <1>2, <2>1, SanitizeNodeProperties
  <2>3. QED
    BY <1>3, <1>4, <1>7, <2>2, JoinedSingletons
<1>8. QED
  BY <1>4, <1>5, <1>6, <1>7

----------------------------------------------------------------------------
(* Rows.                                                                   *)

\* The links of a clean body are safe.
LEMMA CleanHrefs ==
  ASSUME NEW b \in Seq(CleanNodes)
  PROVE  b \in Seq(Nodes) /\ Range(Hrefs(b)) \subseteq SafeUrls
<1>1. CleanNodes \subseteq Nodes
  BY CleanNodeKinds
<1>2. b \in Seq(Nodes) /\ \A k \in DOMAIN b : b[k] \in CleanNodes
  BY <1>1, SeqMonotonic, LenProperties
<1>3. ASSUME NEW n \in CleanNodes
      PROVE  Range(AnchorsOf(n)) \subseteq SafeUrls
  <2>1. CASE n.tag = "a"
    <3>1. n.href \in SafeUrls /\ AnchorsOf(n) = <<n.href>>
      BY <2>1, CleanNodeKinds DEF AnchorsOf
    <3>2. Range(<<n.href>>) = {n.href}
      BY DEF Range
    <3>3. QED
      BY <3>1, <3>2
  <2>2. CASE n.tag = "iframe"
    <3>1. AnchorsOf(n) = <<>>
      BY <2>2 DEF AnchorsOf
    <3>2. Range(<<>>) = {}
      BY DEF Range
    <3>3. QED
      BY <3>1, <3>2
  <2>3. QED
    BY <2>1, <2>2, CleanNodeKinds
<1>4. Range(Hrefs(b)) \subseteq Range(Anchors(b))
  BY <1>2, HrefsProperties
<1>5. \A h \in Range(Anchors(b)) : \E k \in DOMAIN b : h \in Range(AnchorsOf(b[k]))
  BY <1>2, AnchorsProperties
<1>6. QED
  BY <1>2, <1>3, <1>4, <1>5

\* Every link its own id.
LEMMA IdOfProperties ==
  ASSUME NEW hrefs \in Seq(Urls), Len(hrefs) <= Len(OutboundIds)
  PROVE  /\ DOMAIN IdOf(hrefs) = Range(hrefs)
         /\ \A h \in Range(hrefs) : IdOf(hrefs)[h] \in Urls
         /\ \A h, g \in Range(hrefs) : IdOf(hrefs)[h] = IdOf(hrefs)[g] => h = g
<1> DEFINE At(h) == CHOOSE k \in DOMAIN hrefs : hrefs[k] = h
<1>1. DOMAIN hrefs = 1 .. Len(hrefs) /\ Len(hrefs) \in Nat
  BY LenProperties
<1>2. /\ DOMAIN OutboundIds = 1 .. Len(OutboundIds) /\ Len(OutboundIds) \in Nat
      /\ \A k \in DOMAIN OutboundIds : OutboundIds[k] \in Texts
      /\ IsInjective(OutboundIds)
  <2>1. OutboundIds \in Seq(Texts) /\ IsInjective(OutboundIds)
    BY ArticleBodyAssumption DEF Urls
  <2>2. QED
    BY <2>1, LenProperties
<1>3. \A h \in Range(hrefs) : At(h) \in DOMAIN hrefs /\ hrefs[At(h)] = h
  BY DEF Range
<1>4. DOMAIN IdOf(hrefs) = Range(hrefs) /\ \A h \in Range(hrefs) : IdOf(hrefs)[h] = <<OutboundIds[At(h)]>>
  BY DEF IdOf
<1> HIDE DEF At
<1>5. \A h \in Range(hrefs) : At(h) \in DOMAIN OutboundIds
  BY <1>1, <1>2, <1>3
<1>6. ASSUME NEW h \in Range(hrefs)
      PROVE  IdOf(hrefs)[h] \in Urls
  <2>1. OutboundIds[At(h)] \in Texts
    BY <1>2, <1>5
  <2>2. <<OutboundIds[At(h)]>> \in Seq(Texts)
    BY <2>1
  <2>3. QED
    BY <1>4, <2>2 DEF Urls
<1>7. ASSUME NEW h \in Range(hrefs), NEW g \in Range(hrefs), IdOf(hrefs)[h] = IdOf(hrefs)[g]
      PROVE  h = g
  <2>1. OutboundIds[At(h)] = OutboundIds[At(g)]
    <3>1. <<OutboundIds[At(h)]>> = <<OutboundIds[At(g)]>>
      BY <1>4, <1>7
    <3>2. QED
      BY <3>1
  <2>2. At(h) = At(g)
    BY <1>2, <1>5, <2>1 DEF IsInjective
  <2>3. QED
    BY <1>3, <2>2
<1>8. QED
  BY <1>4, <1>6, <1>7

\* Retargeted rows are the rows, but for the hrefs that were old.
LEMMA RetargetedProperties ==
  ASSUME NEW rows \in SUBSET Rows, NEW old, NEW new \in Urls
  PROVE  /\ Retargeted(rows, old, new) \in SUBSET Rows
         /\ Unique(rows) => Unique(Retargeted(rows, old, new))
         /\ \A r \in rows : \E q \in Retargeted(rows, old, new) :
               q.id = r.id /\ q.href = IF r.href = old THEN new ELSE r.href
         /\ rows = {} => Retargeted(rows, old, new) = {}
<1> DEFINE New(r) == [r EXCEPT !.href = IF r.href = old THEN new ELSE r.href]
<1>1. Retargeted(rows, old, new) = {New(r) : r \in rows}
  BY DEF Retargeted
<1>2. \A r \in Rows : New(r) \in Rows /\ New(r).id = r.id /\ New(r).href = IF r.href = old THEN new ELSE r.href
  BY DEF Rows
<1> HIDE DEF New
<1>3. ASSUME Unique(rows)
      PROVE  Unique(Retargeted(rows, old, new))
  BY <1>1, <1>2, <1>3 DEF Unique
<1>4. QED
  BY <1>1, <1>2, <1>3

\* The rows of a clean body.
LEMMA AssignedRowsProperties ==
  ASSUME NEW b \in Seq(CleanNodes), NEW c \in Urls, Len(Hrefs(b)) <= Len(OutboundIds)
  PROVE  /\ AssignedRows(b, c) \in SUBSET Rows /\ Unique(AssignedRows(b, c))
         /\ \A h \in Range(Hrefs(b)) : \E r \in AssignedRows(b, c) : r.id = IdOf(Hrefs(b))[h] /\ r.href = ToStored(h, c)
<1> DEFINE New(h) == [id |-> IdOf(Hrefs(b))[h], href |-> ToStored(h, c)]
<1>1. AssignedRows(b, c) = {New(h) : h \in Range(Hrefs(b))}
  BY DEF AssignedRows
<1>2. b \in Seq(Nodes) /\ Hrefs(b) \in Seq(Urls) /\ Range(Hrefs(b)) \subseteq Urls
  BY CleanHrefs, HrefsProperties
<1>3. \A h \in Urls : ToStored(h, c) \in Urls
  <2>1. ASSUME NEW h \in Urls
        PROVE  ToStored(h, c) \in Urls
    <3>1. Rest(h, c) \in Urls
      BY RestType
    <3>2. <<Token>> \o Rest(h, c) \in Urls
      BY <3>1, TokenUrl, InFront
    <3>3. QED
      BY <3>2 DEF ToStored
  <2>2. QED
    BY <2>1
<1>4. \A h \in Range(Hrefs(b)) : New(h) \in Rows /\ New(h).id = IdOf(Hrefs(b))[h] /\ New(h).href = ToStored(h, c)
  <2>1. \A h \in Range(Hrefs(b)) : IdOf(Hrefs(b))[h] \in Urls
    BY <1>2, IdOfProperties
  <2>2. QED
    BY <1>2, <1>3, <2>1 DEF Rows
<1>5. \A h, g \in Range(Hrefs(b)) : IdOf(Hrefs(b))[h] = IdOf(Hrefs(b))[g] => h = g
  BY <1>2, IdOfProperties
<1> HIDE DEF New
<1>6. Unique(AssignedRows(b, c))
  BY <1>1, <1>4, <1>5 DEF Unique
<1>7. QED
  BY <1>1, <1>4, <1>6

----------------------------------------------------------------------------
(* What the rows hold.                                                     *)

\* The page of an article was a page of our client; a link that is an article's URL
\* and was none of our client's pages is no article's page.
LEMMA UrlOrPage ==
  ASSUME NEW h \in SafeUrls, NEW c \in ClientUrls, NEW a \in {Own} \cup Others, h = InternalHref(c, a)
  PROVE  Ours(h, c) /\ (Plain(h, c) => \A o \in {Own} \cup Others : h # UrlOf[o])
<1>1. a \in Texts /\ c \in Urls
  BY Articles, Clients
<1>2. c # <<>>
  <2>1. h[1] \in Schemes /\ "/articles/" \notin Schemes
    BY DEF SafeUrls, Schemes
  <2>2. c = <<>> => h[1] = "/articles/"
    BY <1>1, InternalProperties
  <2>3. QED
    BY <2>1, <2>2
<1>3. HasPrefix(h, c) /\ Rest(h, c) = <<"/articles/", a>>
  BY <1>1, InternalProperties
<1>4. Head(<<"/articles/", a>>) \in Boundaries
  BY DEF Boundaries
<1>5. Ours(h, c)
  BY <1>2, <1>3, <1>4 DEF Ours, IsURLBoundary
<1>6. QED
  BY <1>5 DEF Plain

\* A link is stored as it is, or with the token where our client's URL was.
LEMMA ToStoredIs ==
  ASSUME NEW h \in SafeUrls, NEW c \in ClientUrls
  PROVE  /\ ToStored(h, c) \in StoredUrls
         /\ \/ ToStored(h, c) = h
            \/ /\ c # <<>> /\ Rest(h, c) \in Urls /\ h = c \o Rest(h, c)
               /\ ToStored(h, c) = <<Token>> \o Rest(h, c) /\ Token \in Range(ToStored(h, c))
<1>1. h \in Urls /\ h # <<>> /\ h[1] \in Schemes /\ " " \notin Range(h)
  BY DEF SafeUrls
<1>2. CASE ToStored(h, c) = h
  <2>1. h \in StoredUrls
    BY <1>1 DEF StoredUrls
  <2>2. QED
    BY <1>2, <2>1
<1>3. CASE ToStored(h, c) # h
  <2>1. c # <<>> /\ HasPrefix(h, c) /\ ToStored(h, c) = <<Token>> \o Rest(h, c)
    BY <1>3 DEF ToStored
  <2>2. Rest(h, c) \in Urls /\ " " \notin Range(Rest(h, c))
    BY <1>1, Clients, RestType
  <2> DEFINE s == <<Token>> \o Rest(h, c)
  <2>3. s \in Urls /\ s # <<>> /\ s[1] = Token /\ Range(s) = {Token} \cup Range(Rest(h, c))
    BY <2>2, TokenInFront
  <2>4. Token # " "
    BY DEF Token
  <2> HIDE DEF s
  <2>5. s \in StoredUrls
    BY <2>2, <2>3, <2>4 DEF StoredUrls
  <2>6. h = c \o Rest(h, c)
    BY <2>1 DEF HasPrefix
  <2>7. QED
    BY <2>1, <2>2, <2>3, <2>5, <2>6 DEF s
<1>4. QED
  BY <1>2, <1>3

\* The links that are stored as an article's URL, and as its page.
LEMMA StoredLinks ==
  ASSUME NEW h \in SafeUrls, Token \notin Range(h), NEW c \in ClientUrls, NEW a \in {Own} \cup Others
  PROVE  /\ NoTokens /\ Plain(h, c) => (ToStored(h, c) = UrlOf[a] <=> h = UrlOf[a])
         /\ ToStored(h, c) = InternalHref(<<Token>>, a) <=> h = InternalHref(c, a)
<1>1. ASSUME Plain(h, c), h = UrlOf[a]
      PROVE  ToStored(h, c) = UrlOf[a]
  BY <1>1 DEF Plain, Ours, ToStored
<1>2. ASSUME NoTokens, ToStored(h, c) = UrlOf[a]
      PROVE  h = UrlOf[a]
  BY <1>2, ToStoredIs DEF NoTokens
<1>3. a \in Texts /\ c \in Urls
  BY Articles, Clients
<1> DEFINE page == <<"/articles/", a>>
<1>4. page \in Urls
  <2>1. "/articles/" \in Texts
    BY ArticleBodyAssumption
  <2>2. page \in Seq(Texts)
    BY <1>3, <2>1
  <2>3. QED
    BY <2>2 DEF Urls
<1>5. InternalHref(c, a) = c \o page /\ InternalHref(<<Token>>, a) = <<Token>> \o page
  BY DEF InternalHref
<1>6. ASSUME ToStored(h, c) = InternalHref(<<Token>>, a)
      PROVE  h = InternalHref(c, a)
  <2>1. Token \in Range(InternalHref(<<Token>>, a))
    BY <1>3, StoredPage
  <2>2. ToStored(h, c) # h
    BY <1>6, <2>1
  <2>3. Rest(h, c) \in Urls /\ h = c \o Rest(h, c) /\ ToStored(h, c) = <<Token>> \o Rest(h, c)
    BY <2>2, ToStoredIs
  <2> HIDE DEF page
  <2>4. Rest(h, c) = page
    BY <1>4, <1>5, <1>6, <2>3, TokenInFront
  <2>5. QED
    BY <1>5, <2>3, <2>4
<1>7. ASSUME h = InternalHref(c, a)
      PROVE  ToStored(h, c) = InternalHref(<<Token>>, a)
  <2>1. c # <<>>
    <3>1. "/articles/" \notin Schemes
      BY DEF Schemes
    <3>2. h[1] \in Schemes
      BY DEF SafeUrls
    <3>3. c = <<>> => InternalHref(c, a)[1] = "/articles/"
      BY <1>3, InternalProperties
    <3>4. QED
      BY <1>7, <3>1, <3>2, <3>3
  <2>2. HasPrefix(h, c) /\ Rest(h, c) = page
    BY <1>3, <1>7, InternalProperties
  <2>3. IsURLBoundary(page)
    <3>1. Head(page) = "/articles/"
      OBVIOUS
    <3>2. QED
      BY <3>1 DEF IsURLBoundary, Boundaries
  <2>4. QED
    BY <1>5, <2>1, <2>2, <2>3 DEF ToStored
<1>8. QED
  BY <1>1, <1>2, <1>6, <1>7

\* The URL and the page of an article can be stored, and no two are the same.
LEMMA ArticleRows ==
  ASSUME NEW a \in {Own} \cup Others, NEW o \in {Own} \cup Others
  PROVE  /\ UrlOf[a] \in Urls /\ InternalHref(<<Token>>, a) \in Urls /\ InternalHref(<<Token>>, a) \in StoredUrls
         /\ NoTokens => UrlOf[a] # InternalHref(<<Token>>, o)
         /\ UrlOf[a] = UrlOf[o] => a = o
         /\ InternalHref(<<Token>>, a) = InternalHref(<<Token>>, o) => a = o
<1>1. a \in Texts /\ o \in Texts /\ a # " " /\ UrlOf[a] \in Urls /\ (UrlOf[a] = UrlOf[o] => a = o)
  BY Articles
<1> DEFINE page == InternalHref(<<Token>>, a)
<1>2. page \in Urls /\ page # <<>> /\ page[1] = Token /\ Range(page) = {Token, "/articles/", a}
  BY <1>1, StoredPage
<1>3. " " # Token /\ " " # "/articles/"
  BY DEF Token
<1>4. InternalHref(<<Token>>, a) = InternalHref(<<Token>>, o) => a = o
  BY <1>1, StoredPage
<1>5. NoTokens => UrlOf[a] # InternalHref(<<Token>>, o)
  <2>1. Token \in Range(InternalHref(<<Token>>, o))
    BY <1>1, StoredPage
  <2>2. QED
    BY <2>1 DEF NoTokens
<1> HIDE DEF page
<1>6. page \in StoredUrls
  BY <1>1, <1>2, <1>3 DEF StoredUrls
<1>7. QED
  BY <1>1, <1>2, <1>4, <1>5, <1>6 DEF page

\* When the body is stored, ...
LEMMA HeldWhenStored ==
  ASSUME NEW h \in SafeUrls, NEW c \in ClientUrls, NEW lost, NEW alive,
         \A a \in Others \ lost : (a \in alive => h # UrlOf[a]) /\ (a \notin alive => h # InternalHref(c, a)),
         NEW s, s = IF ToStored(h, c) = UrlOf[Own] THEN InternalHref(<<Token>>, Own) ELSE ToStored(h, c)
  PROVE  HeldIn(h, s, c, lost, alive)
<1>1. s \in StoredUrls /\ s \in Urls
  BY ToStoredIs, ArticleRows DEF StoredUrls
<1> SUFFICES ASSUME NoTokens, Token \notin Range(h), Plain(h, c)
             PROVE  /\ h = UrlOf[Own] => s = InternalHref(<<Token>>, Own)
                    /\ \A a \in Others : h \in {UrlOf[a], InternalHref(c, a)} =>
                          /\ s \in {UrlOf[a], InternalHref(<<Token>>, a)}
                          /\ a \notin lost => (a \in alive <=> s = InternalHref(<<Token>>, a))
                    /\ h # UrlOf[Own] => s = ToStored(h, c)
  BY <1>1 DEF HeldIn
<1>2. ToStored(h, c) = UrlOf[Own] <=> h = UrlOf[Own]
  BY StoredLinks
<1>3. ASSUME NEW a \in Others, h \in {UrlOf[a], InternalHref(c, a)}
      PROVE  /\ s \in {UrlOf[a], InternalHref(<<Token>>, a)}
             /\ a \notin lost => (a \in alive <=> s = InternalHref(<<Token>>, a))
  <2>1. /\ ToStored(h, c) = UrlOf[a] <=> h = UrlOf[a]
        /\ ToStored(h, c) = InternalHref(<<Token>>, a) <=> h = InternalHref(c, a)
    BY StoredLinks
  <2>2. h # UrlOf[Own] /\ UrlOf[a] # InternalHref(<<Token>>, a) /\ ~(h = UrlOf[a] /\ h = InternalHref(c, a))
    BY <1>3, Articles, ArticleRows, UrlOrPage
  <2>3. s = ToStored(h, c)
    BY <1>2, <1>3, <2>2
  <2>4. QED
    BY <1>3, <2>1, <2>2, <2>3
<1>4. QED
  BY <1>2, <1>3

\* ... when another article is stored, ...
LEMMA HeldWhenPublished ==
  ASSUME NEW h \in SafeUrls, NEW c \in ClientUrls, NEW lost, NEW alive, NEW a \in Others, NEW s,
         HeldIn(h, s, c, lost, alive),
         NEW q, q = IF s = UrlOf[a] THEN InternalHref(<<Token>>, a) ELSE s
  PROVE  HeldIn(h, q, c, lost \ {a}, alive \cup {a})
<1>1. q \in Urls /\ (q \in StoredUrls \/ \E o \in Others \ (alive \cup {a}) : q = UrlOf[o])
  BY ArticleRows DEF HeldIn
<1>2. ASSUME NoTokens, Token \notin Range(h), Plain(h, c), h = UrlOf[Own]
      PROVE  q = InternalHref(<<Token>>, Own)
  <2>1. s = InternalHref(<<Token>>, Own)
    BY <1>2 DEF HeldIn
  <2>2. QED
    BY <1>2, <2>1, ArticleRows
<1>3. ASSUME NoTokens, Token \notin Range(h), Plain(h, c), NEW o \in Others, h \in {UrlOf[o], InternalHref(c, o)}
      PROVE  /\ q \in {UrlOf[o], InternalHref(<<Token>>, o)}
             /\ o \notin lost \ {a} => (o \in alive \cup {a} <=> q = InternalHref(<<Token>>, o))
  <2>1. /\ s \in {UrlOf[o], InternalHref(<<Token>>, o)}
        /\ o \notin lost => (o \in alive <=> s = InternalHref(<<Token>>, o))
    BY <1>3 DEF HeldIn
  <2>2. CASE o = a
    BY <2>1, <2>2
  <2>3. CASE o # a
    <3>1. s # UrlOf[a]
      BY <1>3, <2>1, <2>3, ArticleRows
    <3>2. QED
      BY <2>1, <2>3, <3>1
  <2>4. QED
    BY <2>2, <2>3
<1>4. ASSUME NoTokens, Token \notin Range(h), Plain(h, c), h # UrlOf[Own],
             \A o \in Others : h \notin {UrlOf[o], InternalHref(c, o)}
      PROVE  q = ToStored(h, c)
  <2>1. s = ToStored(h, c)
    BY <1>4 DEF HeldIn
  <2>2. s # UrlOf[a]
    BY <1>4, <2>1, StoredLinks
  <2>3. QED
    BY <2>1, <2>2
<1>5. QED
  BY <1>1, <1>2, <1>3, <1>4 DEF HeldIn

\* ... and when another is removed.
LEMMA HeldWhenDeleted ==
  ASSUME NEW h \in SafeUrls, NEW c \in ClientUrls, NEW lost, NEW alive, NEW a \in Others, NEW s,
         HeldIn(h, s, c, lost, alive),
         NEW q, q = IF s = InternalHref(<<Token>>, a) THEN UrlOf[a] ELSE s
  PROVE  HeldIn(h, q, c, lost \ {a}, alive \ {a})
<1>1. q \in Urls /\ (q \in StoredUrls \/ \E o \in Others \ (alive \ {a}) : q = UrlOf[o])
  BY ArticleRows DEF HeldIn
<1>2. ASSUME NoTokens, Token \notin Range(h), Plain(h, c), h = UrlOf[Own]
      PROVE  q = InternalHref(<<Token>>, Own)
  <2>1. s = InternalHref(<<Token>>, Own)
    BY <1>2 DEF HeldIn
  <2>2. s # InternalHref(<<Token>>, a)
    BY <2>1, Articles, ArticleRows
  <2>3. QED
    BY <2>1, <2>2
<1>3. ASSUME NoTokens, Token \notin Range(h), Plain(h, c), NEW o \in Others, h \in {UrlOf[o], InternalHref(c, o)}
      PROVE  /\ q \in {UrlOf[o], InternalHref(<<Token>>, o)}
             /\ o \notin lost \ {a} => (o \in alive \ {a} <=> q = InternalHref(<<Token>>, o))
  <2>1. /\ s \in {UrlOf[o], InternalHref(<<Token>>, o)}
        /\ o \notin lost => (o \in alive <=> s = InternalHref(<<Token>>, o))
    BY <1>3 DEF HeldIn
  <2>2. CASE o = a
    <3>1. UrlOf[a] # InternalHref(<<Token>>, a)
      BY <1>3, ArticleRows
    <3>2. QED
      BY <2>1, <2>2, <3>1
  <2>3. CASE o # a
    <3>1. s # InternalHref(<<Token>>, a)
      BY <1>3, <2>1, <2>3, ArticleRows
    <3>2. QED
      BY <2>1, <2>3, <3>1
  <2>4. QED
    BY <2>2, <2>3
<1>4. ASSUME NoTokens, Token \notin Range(h), Plain(h, c), h # UrlOf[Own],
             \A o \in Others : h \notin {UrlOf[o], InternalHref(c, o)}
      PROVE  q = ToStored(h, c)
  <2>1. s = ToStored(h, c)
    BY <1>4 DEF HeldIn
  <2>2. s # InternalHref(<<Token>>, a)
    BY <1>4, <2>1, StoredLinks
  <2>3. QED
    BY <2>1, <2>2
<1>5. QED
  BY <1>1, <1>2, <1>3, <1>4 DEF HeldIn

----------------------------------------------------------------------------
(* The invariant.                                                          *)

LEMMA Initially ==
  ASSUME Init
  PROVE  IInv
<1>1. TypeOK /\ row \in SUBSET Rows
  BY DEF Init, TypeOK
<1>2. body \in Seq(Nodes)
  BY ArticleBodyAssumption DEF Init
<1>3. StageOK
  BY <1>2 DEF Init, StageOK
<1>4. QED
  BY <1>1, <1>3 DEF IInv

LEMMA TreatUrlsStep ==
  ASSUME IInv, NEW ok \in BOOLEAN, TreatUrls(ok)
  PROVE  IInv'
<1>1. /\ stage = "raw" /\ stage' = "urls" /\ body' = (IF ok THEN TreatedUrls(body, client) ELSE body)
      /\ home' = client /\ failed' \in {failed, failed \cup {"urls"}}
      /\ client' = client /\ live' = live /\ row' = row /\ clean' = clean /\ astray' = astray
  BY DEF TreatUrls, Advance
<1>2. TypeOK /\ row = {} /\ "assign" \notin failed /\ body \in Seq(Nodes)
  BY <1>1 DEF IInv, StageOK
<1>3. TypeOK' /\ row' \in SUBSET Rows
  BY <1>1, <1>2 DEF TypeOK
<1>4. body' \in Seq(Nodes)
  BY <1>1, <1>2, TreatedUrlsType DEF TypeOK
<1>5. StageOK'
  BY <1>1, <1>2, <1>4 DEF StageOK, TypeOK
<1>6. QED
  BY <1>3, <1>5 DEF IInv

LEMMA TreatEmbedsStep ==
  ASSUME IInv, NEW ok \in BOOLEAN, TreatEmbeds(ok)
  PROVE  IInv'
<1>1. /\ stage = "urls" /\ stage' = "embeds" /\ body' = (IF ok THEN TreatedEmbeds(body, client) ELSE body)
      /\ failed' = (IF ok THEN failed ELSE failed \cup {"embeds"})
      /\ client' = client /\ live' = live /\ row' = row /\ clean' = clean /\ home' = home /\ astray' = astray
  BY DEF TreatEmbeds, Advance
<1>2. TypeOK /\ row = {} /\ "assign" \notin failed /\ body \in Seq(Nodes) /\ client = home /\ home \in ClientUrls
  BY <1>1 DEF IInv, StageOK
<1>3. TypeOK' /\ row' \in SUBSET Rows
  BY <1>1, <1>2 DEF TypeOK
<1>4. body' \in Seq(Nodes) /\ Embedded(body)'
  <2>1. CASE ok
    <3>1. body' = TreatedEmbeds(body, home)
      BY <1>1, <1>2, <2>1
    <3>2. QED
      BY <1>1, <1>2, <3>1, TreatedEmbedsProperties DEF Embedded
  <2>2. CASE ~ok
    BY <1>1, <1>2, <2>2 DEF Embedded
  <2>3. QED
    BY <2>1, <2>2
<1>5. StageOK'
  BY <1>1, <1>2, <1>4 DEF StageOK
<1>6. QED
  BY <1>3, <1>5 DEF IInv

LEMMA CleanStep ==
  ASSUME IInv, Clean
  PROVE  IInv'
<1>1. /\ stage = "embeds" /\ stage' = "clean" /\ body' = Sanitize(body) /\ clean' = body'
      /\ client' = client /\ live' = live /\ row' = row /\ home' = home /\ astray' = astray /\ failed' = failed
  BY DEF Clean, Advance
<1>2. /\ TypeOK /\ row = {} /\ "assign" \notin failed /\ body \in Seq(Nodes) /\ client = home /\ home \in ClientUrls
      /\ Embedded(body)
  BY <1>1 DEF IInv, StageOK
<1>3. TypeOK' /\ row' \in SUBSET Rows
  BY <1>1, <1>2 DEF TypeOK
<1>4. clean' \in Seq(CleanNodes)
  BY <1>1, <1>2, SanitizeProperties
<1>5. Embedded(clean)'
  <2>1. ASSUME HostOf[home] # "" /\ "embeds" \notin failed,
               NEW k \in DOMAIN clean', clean'[k].tag = "iframe", clean'[k].host \in Twitch
        PROVE  clean'[k].parent = <<HostOf[home]>>
    <3>1. clean'[k] \in Range(Sanitize(body))
      BY <1>1 DEF Range
    <3>2. clean'[k] \in Range(body)
      BY <1>2, <2>1, <3>1, SanitizeProperties
    <3>3. PICK i \in DOMAIN body : clean'[k] = body[i]
      BY <3>2 DEF Range
    <3>4. QED
      BY <1>2, <2>1, <3>3 DEF Embedded
  <2>2. QED
    BY <1>1, <2>1 DEF Embedded
<1>6. StageOK'
  BY <1>1, <1>2, <1>4, <1>5 DEF StageOK
<1>7. QED
  BY <1>3, <1>6 DEF IInv

LEMMA PersistStep ==
  ASSUME IInv, NEW ok \in BOOLEAN, Persist(ok)
  PROVE  IInv'
<1> DEFINE assigned == AssignedRows(clean, home)
<1> DEFINE retargeted == Retargeted(assigned, UrlOf[Own], InternalHref(<<Token>>, Own))
<1> DEFINE Page(a) == IF a \in live THEN UrlOf[a] ELSE InternalHref(home, a)
<1>1. /\ TypeOK /\ "assign" \notin failed /\ client = home /\ home \in ClientUrls
      /\ clean \in Seq(CleanNodes) /\ Embedded(clean) /\ body = clean
  BY DEF IInv, StageOK, Persist, Advance
<1>2. /\ Len(Hrefs(clean)) <= Len(OutboundIds)
      /\ stage = "clean" /\ stage' = "stored" /\ body' = (IF ok THEN AssignedBody(clean) ELSE clean)
      /\ row' = (IF ok THEN retargeted ELSE {})
      /\ astray' = {a \in Others : Page(a) \in Range(Hrefs(clean))}
      /\ failed' = (IF ok THEN failed ELSE failed \cup {"assign"})
      /\ client' = client /\ live' = live /\ clean' = clean /\ home' = home
  BY <1>1 DEF Persist, Advance
<1>3. /\ assigned \in SUBSET Rows /\ Unique(assigned)
      /\ \A h \in Range(Hrefs(clean)) : \E r \in assigned : r.id = IdOf(Hrefs(clean))[h] /\ r.href = ToStored(h, home)
  BY <1>1, <1>2, Clients, AssignedRowsProperties
<1> HIDE DEF assigned
<1>4. /\ retargeted \in SUBSET Rows /\ Unique(retargeted)
      /\ \A r \in assigned : \E q \in retargeted :
            q.id = r.id /\ q.href = IF r.href = UrlOf[Own] THEN InternalHref(<<Token>>, Own) ELSE r.href
  BY <1>3, ArticleRows, RetargetedProperties
<1> HIDE DEF retargeted
<1>5. TypeOK' /\ row' \in SUBSET Rows
  <2>1. Unique(row')
    BY <1>2, <1>4 DEF Unique
  <2>2. row' # {} => "assign" \notin failed'
    BY <1>1, <1>2
  <2>3. QED
    BY <1>1, <1>2, <1>4, <2>1, <2>2 DEF TypeOK, Unique
<1>6. ASSUME ok
      PROVE  LinksOK'
  <2>1. ASSUME NEW h \in Range(Hrefs(clean))
        PROVE  \E r \in row' : r.id = IdOf(Hrefs(clean))[h] /\ HeldIn(h, r.href, home, astray', live)
    <3>1. PICK r \in assigned : r.id = IdOf(Hrefs(clean))[h] /\ r.href = ToStored(h, home)
      BY <1>3
    <3>2. PICK q \in retargeted :
             q.id = r.id /\ q.href = IF r.href = UrlOf[Own] THEN InternalHref(<<Token>>, Own) ELSE r.href
      BY <1>4
    <3>3. h \in SafeUrls
      BY <1>1, CleanHrefs
    <3>4. \A a \in Others \ astray' : (a \in live => h # UrlOf[a]) /\ (a \notin live => h # InternalHref(home, a))
      BY <1>2
    <3>5. q.href = IF ToStored(h, home) = UrlOf[Own] THEN InternalHref(<<Token>>, Own) ELSE ToStored(h, home)
      BY <3>1, <3>2
    <3>6. HeldIn(h, q.href, home, astray', live)
      BY <1>1, <3>3, <3>4, <3>5, HeldWhenStored
    <3>7. q \in row'
      BY <1>2, <1>6
    <3>8. QED
      BY <3>1, <3>2, <3>6, <3>7
  <2>2. QED
    BY <1>2, <1>6, <2>1 DEF LinksOK, Held
<1>7. StageOK'
  <2>1. clean' \in Seq(CleanNodes) /\ Embedded(clean)'
    BY <1>1, <1>2 DEF Embedded
  <2>2. "assign" \in failed' => body' = clean' /\ row' = {}
    BY <1>1, <1>2
  <2>3. "assign" \notin failed' => LinksOK'
    BY <1>2, <1>6
  <2>4. QED
    BY <1>1, <1>2, <2>1, <2>2, <2>3 DEF StageOK
<1>8. QED
  BY <1>5, <1>7 DEF IInv

\* A step of another article moves the rows that point at it, and nothing else.
LEMMA OtherArticleStep ==
  ASSUME IInv, NEW a \in Others, NEW old, NEW new \in Urls,
         live' \in {live \cup {a}, live \ {a}}, row' = Retargeted(row, old, new), astray' = astray \ {a},
         UNCHANGED <<client, stage, body, clean, home, failed>>,
         \A h \in SafeUrls : \A s, q :
            home \in ClientUrls /\ HeldIn(h, s, home, astray, live) /\ q = (IF s = old THEN new ELSE s)
               => HeldIn(h, q, home, astray', live')
  PROVE  IInv'
<1>1. TypeOK /\ row \in SUBSET Rows /\ StageOK
  BY DEF IInv
<1>2. client' = client /\ stage' = stage /\ body' = body /\ clean' = clean /\ home' = home /\ failed' = failed
  OBVIOUS
<1>3. /\ row' \in SUBSET Rows /\ Unique(row')
      /\ \A r \in row : \E q \in row' : q.id = r.id /\ q.href = IF r.href = old THEN new ELSE r.href
      /\ row = {} => row' = {}
  <2>1. Unique(row)
    BY <1>1 DEF TypeOK, Unique
  <2>2. QED
    BY <1>1, <2>1, RetargetedProperties
<1>4. TypeOK'
  BY <1>1, <1>2, <1>3 DEF TypeOK, Unique
<1>5. ASSUME stage = "stored", "assign" \notin failed
      PROVE  LinksOK'
  <2>1. LinksOK /\ home \in ClientUrls /\ clean \in Seq(CleanNodes)
    BY <1>1, <1>5 DEF StageOK
  <2>2. ASSUME NEW h \in Range(Hrefs(clean))
        PROVE  \E q \in row' : q.id = IdOf(Hrefs(clean))[h] /\ HeldIn(h, q.href, home, astray', live')
    <3>1. PICK r \in row : r.id = IdOf(Hrefs(clean))[h] /\ HeldIn(h, r.href, home, astray, live)
      BY <2>1 DEF LinksOK, Held
    <3>2. PICK q \in row' : q.id = r.id /\ q.href = IF r.href = old THEN new ELSE r.href
      BY <1>3
    <3>3. h \in SafeUrls
      BY <2>1, CleanHrefs
    <3>4. HeldIn(h, q.href, home, astray', live')
      BY <2>1, <3>1, <3>2, <3>3
    <3>5. QED
      BY <3>1, <3>2, <3>4
  <2>3. /\ Len(Hrefs(clean)) <= Len(OutboundIds) /\ body' = AssignedBody(clean) /\ Hrefs(clean') = Hrefs(clean)
        /\ AssignedBody(clean') = AssignedBody(clean) /\ IdOf(Hrefs(clean')) = IdOf(Hrefs(clean)) /\ home' = home
    BY <1>2, <2>1 DEF LinksOK
  <2>4. \A h \in Range(Hrefs(clean')) : \E r \in row' : r.id = IdOf(Hrefs(clean'))[h] /\ HeldIn(h, r.href, home', astray', live')
    BY <2>2, <2>3
  <2>5. QED
    BY <1>2, <2>3, <2>4 DEF LinksOK, Held
<1>6. StageOK'
  BY <1>1, <1>2, <1>3, <1>5 DEF StageOK, Embedded
<1>7. QED
  BY <1>3, <1>4, <1>6 DEF IInv

LEMMA PublishStep ==
  ASSUME IInv, NEW a \in Others, Publish(a)
  PROVE  IInv'
<1>1. /\ live' = live \cup {a} /\ row' = Retargeted(row, UrlOf[a], InternalHref(<<Token>>, a)) /\ astray' = astray \ {a}
      /\ UNCHANGED <<client, stage, body, clean, home, failed>>
  BY DEF Publish
<1>2. InternalHref(<<Token>>, a) \in Urls
  BY ArticleRows
<1>3. \A h \in SafeUrls : \A s, q :
         home \in ClientUrls /\ HeldIn(h, s, home, astray, live) /\ q = (IF s = UrlOf[a] THEN InternalHref(<<Token>>, a) ELSE s)
            => HeldIn(h, q, home, astray', live')
  BY <1>1, HeldWhenPublished
<1>4. QED
  BY <1>1, <1>2, <1>3, OtherArticleStep

LEMMA DeleteArticleStep ==
  ASSUME IInv, NEW a \in Others, DeleteArticle(a)
  PROVE  IInv'
<1>1. /\ live' = live \ {a} /\ row' = Retargeted(row, InternalHref(<<Token>>, a), UrlOf[a]) /\ astray' = astray \ {a}
      /\ UNCHANGED <<client, stage, body, clean, home, failed>>
  BY DEF DeleteArticle
<1>2. UrlOf[a] \in Urls
  BY ArticleRows
<1>3. \A h \in SafeUrls : \A s, q :
         home \in ClientUrls /\ HeldIn(h, s, home, astray, live) /\ q = (IF s = InternalHref(<<Token>>, a) THEN UrlOf[a] ELSE s)
            => HeldIn(h, q, home, astray', live')
  BY <1>1, HeldWhenDeleted
<1>4. QED
  BY <1>1, <1>2, <1>3, OtherArticleStep

LEMMA MoveStep ==
  ASSUME IInv, NEW c \in ClientUrls, Move(c)
  PROVE  IInv'
<1>1. /\ stage \in {"raw", "stored"} /\ client' = c
      /\ live' = live /\ stage' = stage /\ body' = body /\ row' = row /\ clean' = clean /\ home' = home
      /\ astray' = astray /\ failed' = failed
  BY DEF Move
<1>2. TypeOK'
  BY <1>1 DEF IInv, TypeOK
<1>3. StageOK'
  BY <1>1 DEF IInv, StageOK, Embedded, LinksOK, Held
<1>4. QED
  BY <1>1, <1>2, <1>3 DEF IInv

LEMMA IInvInductive ==
  IInv /\ [Next]_vars => IInv'
<1> SUFFICES ASSUME IInv, [Next]_vars
             PROVE  IInv'
  OBVIOUS
<1>1. ASSUME NEW ok \in BOOLEAN, TreatUrls(ok)
      PROVE  IInv'
  BY <1>1, TreatUrlsStep
<1>2. ASSUME NEW ok \in BOOLEAN, TreatEmbeds(ok)
      PROVE  IInv'
  BY <1>2, TreatEmbedsStep
<1>3. ASSUME NEW ok \in BOOLEAN, Persist(ok)
      PROVE  IInv'
  BY <1>3, PersistStep
<1>4. CASE Clean
  BY <1>4, CleanStep
<1>5. ASSUME NEW a \in Others, Publish(a)
      PROVE  IInv'
  BY <1>5, PublishStep
<1>6. ASSUME NEW a \in Others, DeleteArticle(a)
      PROVE  IInv'
  BY <1>6, DeleteArticleStep
<1>7. ASSUME NEW c \in ClientUrls, Move(c)
      PROVE  IInv'
  BY <1>7, MoveStep
<1>8. CASE UNCHANGED vars
  <2>1. /\ client' = client /\ live' = live /\ stage' = stage /\ body' = body /\ row' = row /\ clean' = clean
        /\ home' = home /\ astray' = astray /\ failed' = failed
    BY <1>8 DEF vars
  <2>2. QED
    BY <2>1 DEF IInv, TypeOK, StageOK, Embedded, LinksOK, Held
<1>9. QED
  BY <1>1, <1>2, <1>3, <1>4, <1>5, <1>6, <1>7, <1>8 DEF Next

----------------------------------------------------------------------------
(* What is served.                                                         *)

LEMMA ExpandType ==
  ASSUME NEW s \in Urls, NEW c \in Urls
  PROVE  Expand(s, c) \in Urls
<1>1. PICK lists : /\ Expand(s, c) = Joined(lists) /\ Len(lists) = Len(s)
                   /\ \A k \in 1 .. Len(s) : lists[k] \in Seq(Texts)
  BY ExpandIs
<1>2. Len(s) \in Nat
  BY LenProperties DEF Urls
<1>3. Joined(lists) \in Seq(Texts)
  BY <1>1, <1>2, JoinedProperties
<1>4. QED
  BY <1>1, <1>3 DEF Urls

\* Each link is served as its row has it, everything else as the sanitiser left it.
LEMMA ServedIs ==
  ASSUME IInv, stage = "stored"
  PROVE  /\ Served \in Seq(Nodes) /\ DOMAIN Served = DOMAIN clean
         /\ \A k \in DOMAIN clean :
              /\ clean[k].tag = "iframe" \/ "assign" \in failed => Served[k] = clean[k]
              /\ clean[k].tag = "a" /\ "assign" \notin failed =>
                    \E r \in row : Held(clean[k].href, r.href) /\ Served[k] = Anchor(Expand(r.href, client))
<1> DEFINE ids == {r.id : r \in row}
<1> DEFINE RowOf(i) == CHOOSE r \in row : r.id = i
<1> DEFINE f == [i \in ids |-> Expand(RowOf(i).href, client)]
<1>1. /\ row \in SUBSET Rows /\ Unique(row) /\ client \in Urls
      /\ clean \in Seq(CleanNodes) /\ clean \in Seq(Nodes) /\ \A k \in DOMAIN clean : clean[k] \in CleanNodes
  BY Clients, CleanHrefs, LenProperties DEF IInv, TypeOK, StageOK, Unique
<1>2. Served = RewriteAnchors(body, f)
  BY DEF Served, Resolve
<1>3. \A r \in row : RowOf(r.id) = r
  BY <1>1 DEF Unique
<1>4. \A r \in row : r.id \in ids /\ r.href \in Urls
  BY <1>1 DEF Rows
<1>5. DOMAIN f = ids /\ \A r \in row : f[r.id] = Expand(r.href, client)
  BY <1>3
<1> HIDE DEF RowOf, f
<1>6. \A i \in ids : f[i] \in Urls
  <2>1. \A r \in row : f[r.id] \in Urls
    BY <1>1, <1>4, <1>5, ExpandType
  <2>2. QED
    BY <2>1
<1>7. CASE "assign" \in failed
  <2>1. body = clean /\ row = {}
    BY <1>7 DEF IInv, StageOK
  <2>2. DOMAIN f = {}
    BY <1>5, <2>1
  <2>3. /\ Served \in Seq(Nodes) /\ DOMAIN Served = DOMAIN clean
        /\ \A k \in DOMAIN clean : /\ clean[k].tag = "a" => Served[k] = Anchor(clean[k].href)
                                   /\ clean[k].tag = "iframe" => Served[k] = clean[k]
    BY <1>1, <1>2, <2>1, <2>2, RewriteProperties
  <2>4. \A k \in DOMAIN clean : Served[k] = clean[k]
    BY <1>1, <2>3, CleanNodeKinds
  <2>5. QED
    BY <1>7, <2>3, <2>4
<1>8. CASE "assign" \notin failed
  <2> DEFINE id == IdOf(Hrefs(clean))
  <2>1. /\ Len(Hrefs(clean)) <= Len(OutboundIds) /\ body = RewriteAnchors(clean, id)
        /\ \A h \in Range(Hrefs(clean)) : \E r \in row : r.id = id[h] /\ Held(h, r.href)
    BY <1>8 DEF IInv, StageOK, LinksOK, AssignedBody
  <2>2. /\ Hrefs(clean) \in Seq(Urls)
        /\ \A k \in DOMAIN clean : clean[k].tag = "a" /\ clean[k].href # <<>> => clean[k].href \in Range(Hrefs(clean))
    BY <1>1, HrefsProperties
  <2>3. DOMAIN id = Range(Hrefs(clean)) /\ \A h \in DOMAIN id : id[h] \in Urls
    BY <2>1, <2>2, IdOfProperties
  <2> HIDE DEF id
  <2>4. /\ body \in Seq(Nodes) /\ DOMAIN body = DOMAIN clean
        /\ \A k \in DOMAIN clean :
             /\ clean[k].tag = "a" => body[k] = Anchor(IF clean[k].href \in DOMAIN id THEN id[clean[k].href] ELSE clean[k].href)
             /\ clean[k].tag = "iframe" => body[k] = clean[k]
             /\ body[k].tag = clean[k].tag
    BY <1>1, <2>1, <2>3, RewriteProperties
  <2>5. /\ Served \in Seq(Nodes) /\ DOMAIN Served = DOMAIN body
        /\ \A k \in DOMAIN body :
             /\ body[k].tag = "a" => Served[k] = Anchor(IF body[k].href \in DOMAIN f THEN f[body[k].href] ELSE body[k].href)
             /\ body[k].tag = "iframe" => Served[k] = body[k]
    BY <1>2, <1>5, <1>6, <2>4, RewriteProperties
  <2>6. ASSUME NEW k \in DOMAIN clean, clean[k].tag = "a"
        PROVE  \E r \in row : Held(clean[k].href, r.href) /\ Served[k] = Anchor(Expand(r.href, client))
    <3>1. clean[k].href \in SafeUrls /\ clean[k].href # <<>>
      BY <1>1, <2>6, CleanNodeKinds DEF SafeUrls
    <3>2. clean[k].href \in Range(Hrefs(clean))
      BY <2>2, <2>6, <3>1
    <3>3. PICK r \in row : r.id = id[clean[k].href] /\ Held(clean[k].href, r.href)
      BY <2>1, <3>2
    <3>4. body[k] = Anchor(r.id)
      BY <2>3, <2>4, <2>6, <3>2, <3>3
    <3>5. body[k].tag = "a" /\ body[k].href = r.id
      BY <3>4 DEF Anchor
    <3>6. Served[k] = Anchor(Expand(r.href, client))
      BY <1>4, <1>5, <2>4, <2>5, <3>5
    <3>7. QED
      BY <3>3, <3>6
  <2>7. QED
    BY <1>8, <2>4, <2>5, <2>6
<1>9. QED
  BY <1>7, <1>8

\* What a row holds leads where it should.
LEMMA HeldLeads ==
  ASSUME home \in ClientUrls, client \in ClientUrls, NEW h \in SafeUrls, NEW s, Held(h, s), Promised(h)
  PROVE  Expand(s, client) = LeadsTo(h)
<1>0. NoTokens /\ Token \notin Range(h) /\ Plain(h, home)
  <2>1. \A a \in {Own} \cup Others : UrlOf[a] \in Range(UrlOf)
    BY ArticleBodyAssumption DEF Range
  <2>2. QED
    BY <2>1 DEF Promised, NoTokens, Plain, Ours, WasOurs
<1>1. /\ \A a \in Others : h \in {UrlOf[a], InternalHref(home, a)} => a \notin astray
      /\ h = UrlOf[Own] => s = InternalHref(<<Token>>, Own)
      /\ \A a \in Others : h \in {UrlOf[a], InternalHref(home, a)} =>
            /\ s \in {UrlOf[a], InternalHref(<<Token>>, a)}
            /\ a \notin astray => (a \in live <=> s = InternalHref(<<Token>>, a))
      /\ h # UrlOf[Own] /\ (\A a \in Others : h \notin {UrlOf[a], InternalHref(home, a)}) => s = ToStored(h, home)
  BY <1>0 DEF Held, HeldIn, Promised
<1>2. client \in Urls /\ home \in Urls /\ h \in Urls
  BY Clients DEF SafeUrls
<1>3. ASSUME NEW a \in {Own} \cup Others
      PROVE  /\ Expand(InternalHref(<<Token>>, a), client) = InternalHref(client, a)
             /\ Expand(UrlOf[a], client) = UrlOf[a]
  <2> DEFINE page == <<"/articles/", a>>
  <2>1. a \in Texts /\ "/articles/" \in Texts /\ a # Token
    BY Articles, ArticleBodyAssumption
  <2>2. page \in Urls
    <3>1. page \in Seq(Texts)
      BY <2>1
    <3>2. QED
      BY <3>1 DEF Urls
  <2>3. Token \notin Range(page)
    <3>1. "/articles/" # Token
      BY DEF Token
    <3>2. DOMAIN page = {1, 2} /\ page[1] = "/articles/" /\ page[2] = a
      OBVIOUS
    <3> HIDE DEF page
    <3>3. QED
      BY <2>1, <3>1, <3>2 DEF Range
  <2>4. InternalHref(<<Token>>, a) = <<Token>> \o page /\ InternalHref(client, a) = client \o page
    BY DEF InternalHref
  <2> HIDE DEF page
  <2>5. Expand(<<Token>> \o page, client) = client \o page
    BY <1>2, <2>2, <2>3, ExpandOurs
  <2>6. Expand(UrlOf[a], client) = UrlOf[a]
    <3>1. UrlOf[a] \in Urls /\ Token \notin Range(UrlOf[a])
      BY <1>0, Articles DEF NoTokens
    <3>2. QED
      BY <1>2, <3>1, ExpandPlain
  <2>7. QED
    BY <2>4, <2>5, <2>6
<1>4. CASE h = UrlOf[Own]
  <2>1. \A a \in Others : h \notin {UrlOf[a], InternalHref(home, a)}
    BY <1>0, <1>4, Articles, UrlOrPage
  <2>2. LeadsTo(h) = InternalHref(client, Own)
    BY <1>4, <2>1 DEF LeadsTo
  <2>3. QED
    BY <1>1, <1>3, <1>4, <2>2
<1>5. ASSUME NEW a \in Others, h \in {UrlOf[a], InternalHref(home, a)}
      PROVE  Expand(s, client) = LeadsTo(h)
  <2>1. h # UrlOf[Own]
    BY <1>0, <1>5, Articles, UrlOrPage
  <2>2. \A o \in Others : h \in {UrlOf[o], InternalHref(home, o)} => o = a
    <3>1. \A o, u \in Others : ~(h = UrlOf[o] /\ h = InternalHref(home, u))
      BY <1>0, UrlOrPage
    <3>2. \A o \in Others : InternalHref(home, o) = InternalHref(home, a) => o = a
      BY <1>2, Articles, InternalProperties
    <3>3. QED
      BY <1>5, <3>1, <3>2, Articles
  <2>3. (CHOOSE o \in Others : h \in {UrlOf[o], InternalHref(home, o)}) = a
    BY <1>5, <2>2
  <2>4. ~(WasOurs(h) /\ h # UrlOf[Own] /\ \A o \in Others : h # InternalHref(home, o))
    <3>1. h = UrlOf[a] => ~WasOurs(h)
      BY <1>0 DEF Plain, Ours, WasOurs
    <3>2. QED
      BY <1>5, <3>1
  <2>5. LeadsTo(h) = IF a \in live THEN InternalHref(client, a) ELSE UrlOf[a]
    BY <1>5, <2>1, <2>3, <2>4 DEF LeadsTo
  <2>6. s = IF a \in live THEN InternalHref(<<Token>>, a) ELSE UrlOf[a]
    BY <1>1, <1>5
  <2>7. QED
    BY <1>3, <2>5, <2>6
<1>6. CASE h # UrlOf[Own] /\ \A a \in Others : h \notin {UrlOf[a], InternalHref(home, a)}
  <2>1. s = ToStored(h, home)
    BY <1>1, <1>6
  <2>2. CASE WasOurs(h)
    <3>1. home # <<>> /\ HasPrefix(h, home) /\ s = <<Token>> \o Rest(h, home)
      BY <2>1, <2>2 DEF WasOurs, ToStored
    <3>2. Rest(h, home) \in Urls /\ Token \notin Range(Rest(h, home))
      BY <1>0, <1>2, RestType
    <3>3. Expand(s, client) = client \o Rest(h, home)
      BY <1>2, <3>1, <3>2, ExpandOurs
    <3>4. LeadsTo(h) = client \o Rest(h, home)
      BY <1>6, <2>2 DEF LeadsTo
    <3>5. QED
      BY <3>3, <3>4
  <2>3. CASE ~WasOurs(h)
    <3>1. s = h
      BY <2>1, <2>3 DEF WasOurs, ToStored
    <3>2. LeadsTo(h) = h
      BY <1>6, <2>3 DEF LeadsTo
    <3>3. QED
      BY <1>0, <1>2, <3>1, <3>2, ExpandPlain
  <2>4. QED
    BY <2>2, <2>3
<1>7. QED
  BY <1>4, <1>5, <1>6

LEMMA LinksLeadHomeFollows ==
  ASSUME IInv
  PROVE  LinksLeadHome
<1> SUFFICES ASSUME stage = "stored"
             PROVE  /\ DOMAIN Served = DOMAIN clean
                    /\ \A k \in DOMAIN clean : clean[k].tag = "a" =>
                          IF "assign" \in failed
                          THEN Served[k] = clean[k]
                          ELSE Promised(clean[k].href) => Served[k] = Anchor(LeadsTo(clean[k].href))
  BY DEF LinksLeadHome
<1>1. DOMAIN Served = DOMAIN clean
  BY ServedIs
<1>2. home \in ClientUrls /\ client \in ClientUrls /\ \A k \in DOMAIN clean : clean[k] \in CleanNodes
  BY LenProperties DEF IInv, TypeOK, StageOK
<1>3. ASSUME NEW k \in DOMAIN clean, clean[k].tag = "a", "assign" \notin failed, Promised(clean[k].href)
      PROVE  Served[k] = Anchor(LeadsTo(clean[k].href))
  <2>1. PICK r \in row : Held(clean[k].href, r.href) /\ Served[k] = Anchor(Expand(r.href, client))
    BY <1>3, ServedIs
  <2>2. clean[k].href \in SafeUrls
    BY <1>2, <1>3, CleanNodeKinds
  <2>3. Expand(r.href, client) = LeadsTo(clean[k].href)
    BY <1>2, <1>3, <2>1, <2>2, HeldLeads
  <2>4. QED
    BY <2>1, <2>3
<1>4. QED
  BY <1>1, <1>3, ServedIs

LEMMA EmbedsAreSafeFollows ==
  ASSUME IInv
  PROVE  EmbedsAreSafe
<1> SUFFICES ASSUME stage = "stored", NEW k \in DOMAIN Served
             PROVE  \/ Served[k].tag = "a"
                    \/ /\ Served[k].tag = "iframe" /\ EmbedAllowed(Served[k])
                       /\ Served[k].host # "www.youtube.com" /\ HostOf[home] # "" /\ "embeds" \notin failed
                            => Served[k].parent = <<HostOf[home]>>
  BY DEF EmbedsAreSafe
<1>1. Embedded(clean) /\ \A i \in DOMAIN clean : clean[i] \in CleanNodes
  BY LenProperties DEF IInv, StageOK
<1>2. k \in DOMAIN clean
  BY ServedIs
<1>3. CASE clean[k].tag = "iframe"
  <2>1. Served[k] = clean[k] /\ EmbedAllowed(clean[k])
    BY <1>1, <1>2, <1>3, CleanNodeKinds, ServedIs
  <2>2. clean[k].host # "www.youtube.com" => clean[k].host \in Twitch
    BY <2>1 DEF EmbedAllowed, Twitch
  <2>3. QED
    BY <1>1, <1>2, <1>3, <2>1, <2>2 DEF Embedded
<1>4. CASE clean[k].tag = "a"
  <2>1. "assign" \in failed => Served[k] = clean[k]
    BY <1>2, ServedIs
  <2>2. "assign" \notin failed => \E r \in row : Served[k] = Anchor(Expand(r.href, client))
    BY <1>2, <1>4, ServedIs
  <2>3. \A u : Anchor(u).tag = "a"
    BY DEF Anchor
  <2>4. QED
    BY <1>4, <2>1, <2>2, <2>3
<1>5. QED
  BY <1>1, <1>2, <1>3, <1>4, CleanNodeKinds

LEMMA TranslationKeepsBodyFollows ==
  ASSUME IInv
  PROVE  TranslationKeepsBody
<1> SUFFICES ASSUME stage = "stored", client # <<>>, \A a \in Others \ live : SafeUrl(UrlOf[a]) = <<UrlOf[a]>>
             PROVE  Translated = Served
  BY DEF TranslationKeepsBody
<1>1. Absolute(client) /\ \A i \in DOMAIN clean : clean[i] \in CleanNodes
  BY Clients, LenProperties DEF IInv, TypeOK, StageOK
<1>2. Served \in Seq(Nodes) /\ DOMAIN Served = DOMAIN clean
  BY ServedIs
<1>3. ASSUME NEW k \in DOMAIN clean
      PROVE  Served[k] \in CleanNodes
  <2>1. CASE clean[k].tag = "iframe" \/ "assign" \in failed
    BY <1>1, <2>1, ServedIs
  <2>2. CASE clean[k].tag = "a" /\ "assign" \notin failed
    <3>1. PICK r \in row : Held(clean[k].href, r.href) /\ Served[k] = Anchor(Expand(r.href, client))
      BY <2>2, ServedIs
    <3>2. r.href \in StoredUrls
      <4>1. ASSUME NEW a \in Others \ live, r.href = UrlOf[a]
            PROVE  r.href \in StoredUrls
        <5>1. UrlOf[a] \in Urls /\ SafeUrl(UrlOf[a]) = <<UrlOf[a]>> /\ <<UrlOf[a]>> # <<>>
          BY Articles
        <5>2. PICK t \in SafeUrls : <<UrlOf[a]>> = <<t>>
          BY <5>1, SafeUrlProperties
        <5>3. UrlOf[a] = t
          BY <5>2
        <5>4. QED
          BY <4>1, <5>3 DEF SafeUrls, StoredUrls
      <4>2. QED
        BY <3>1, <4>1 DEF Held, HeldIn
    <3>3. Expand(r.href, client) \in SafeUrls
      BY <1>1, <3>2, ExpandSafe
    <3>4. QED
      BY <3>1, <3>3, CleanNodeKinds
  <2>3. QED
    BY <1>1, <2>1, <2>2, CleanNodeKinds
<1>4. Served \in Seq(CleanNodes)
  <2>1. DOMAIN Served = 1 .. Len(Served) /\ Len(Served) \in Nat /\ Served = [k \in DOMAIN Served |-> Served[k]]
    BY <1>2, LenProperties
  <2> DEFINE s == Served
  <2> HIDE DEF s
  <2>2. s \in [1 .. Len(s) -> CleanNodes]
    BY <1>2, <1>3, <2>1 DEF s
  <2>3. s \in Seq(CleanNodes)
    BY <2>1, <2>2, ListOf DEF s
  <2>4. QED
    BY <2>3 DEF s
<1>5. QED
  BY <1>2, <1>4, SanitizeProperties DEF Translated

----------------------------------------------------------------------------
(* The theorems.                                                           *)

THEOREM Invariant == Spec => []IInv
<1>1. Init => IInv
  BY Initially
<1>2. QED
  BY <1>1, IInvInductive, PTL DEF Spec

\* Every variable holds a value of its type, rows exist for stored bodies only
\* (persist), and no two rows have an id.
THEOREM TypeCorrect == Spec => []TypeOK
<1>1. IInv => TypeOK
  BY DEF IInv
<1>2. QED
  BY <1>1, Invariant, PTL

\* Whatever is stored, removed and moved after an article was stored, and whatever links
\* the feeds brought, each of its links leads where it should (outboundlinks.Assign,
\* Retarget and Resolve), but for those of which Promised says that nothing is promised.
THEOREM LinksAlwaysLeadHome == Spec => []LinksLeadHome
<1>1. IInv => LinksLeadHome
  BY LinksLeadHomeFollows
<1>2. QED
  BY <1>1, Invariant, PTL

\* Whatever a feed brings and whichever best-effort step fails, readers get links
\* and allowlisted players (sanitize, and the treatments before it).
THEOREM EmbedsAlwaysSafe == Spec => []EmbedsAreSafe
<1>1. IInv => EmbedsAreSafe
  BY EmbedsAreSafeFollows
<1>2. QED
  BY <1>1, Invariant, PTL

\* Sanitising what a reader gets changes nothing of it (TranslateArticle), where a client
\* is configured and no removed article has a URL the sanitiser takes away.
THEOREM TranslationsKeepBody == Spec => []TranslationKeepsBody
<1>1. IInv => TranslationKeepsBody
  BY TranslationKeepsBodyFollows
<1>2. QED
  BY <1>1, Invariant, PTL
=============================================================================
