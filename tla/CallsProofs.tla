----------------------------- MODULE CallsProofs -----------------------------
(***************************************************************************)
(* Proofs about Calls, for every retry limit the code has, every time-out, *)
(* budget, reply, feed, page and set of addresses.                         *)
(*                                                                         *)
(* Each of these is inductive with the types: what a call has spent when   *)
(* it waits or pauses in its n-th attempt (TimeOK); that nothing was       *)
(* answered to a call that goes on (AnswersOK); what the probes and the    *)
(* validation have left to do and have found (ProbingOK, ValidatingOK),    *)
(* with what they add up to (SearchIsSound); and that an answer is within  *)
(* its rules, which a reply's parser establishes at once (RepliesAreSane). *)
(***************************************************************************)
EXTENDS Calls, ListsProofs, TLAPS

\* Only the search has a page, probes and candidates; only the others an attempt.
PhasesOK ==
    /\ kind = "discover" => phase \notin {"waiting", "pause"}
    /\ kind # "discover" => phase \notin {"page", "probe", "validate"}
    /\ phase = "idle" => now = 0 /\ tries = 0 /\ answers = 0

\* What precedes the n-th attempt: n - 1 time-outs and the pauses after them.
Before(n) == (n - 1) * AttemptTimeout + 2 ^ (n - 1) - 1

TimeOK ==
    /\ phase \in {"waiting", "pause"} => tries \in 1 .. MaxRetries + 1
    /\ phase = "waiting" => since <= Before(tries) /\ now <= since + AttemptTimeout
    /\ phase = "pause"   => /\ tries <= MaxRetries
                            /\ since <= Before(tries) + AttemptTimeout
                            /\ now <= since + Backoff(tries)
    /\ CallsEndInTime

AnswersOK == phase # "done" => answers = 0

SearchTypes == found \in Seq(STRING) /\ valid \in Seq(STRING)

\* Until the candidates are known nothing is validated.  A common path is a
\* candidate, still asked, no feed, or lost.
ProbingOK ==
    /\ phase \in {"idle", "page", "probe"} => valid = <<>>
    /\ phase \in {"idle", "page"} => found = <<>>
    /\ phase = "probe" =>
        /\ pending \subseteq CommonPaths /\ Range(found) \cap pending = {}
        /\ IsInjective(found)
        /\ ~lost => feeds \cap CommonPaths \subseteq Range(found) \cup pending

\* The candidates before the k-th.
Earlier(k) == {found[j] : j \in 1 .. k - 1}

\* What is kept of the candidates before the k-th is those that are feeds.
Sifted(k, kept, missed) ==
    /\ kept \in Seq(STRING) /\ IsInjective(kept)
    /\ Range(kept) \subseteq feeds \cap Earlier(k)
    /\ ~missed => feeds \cap Earlier(k) \subseteq Range(kept)

Covered(missed) == probed /\ ~missed => feeds \cap CommonPaths \subseteq Range(found)

ValidatingOK ==
    phase = "validate" =>
        /\ IsInjective(found) /\ Covered(lost)
        /\ \E k \in 1 .. Len(found) : pending = {found[k]} /\ Sifted(k, valid, lost)

----------------------------------------------------------------------------
(* What the parsers and filters return.                                    *)

Links == [href : STRING, typeFirst : BOOLEAN]

\* The words of a reply become distinct words, trimmed, lower-case and not blank, and
\* lose nothing else.
LEMMA CanonicalProperties ==
  ASSUME NEW words \in Seq([word : Texts])
  PROVE  /\ Canonical(words) \in Seq(STRING)
         /\ IsInjective(Canonical(words))
         /\ Range(Canonical(words)) = {Lower[Trim[words[k].word]] : k \in DOMAIN words} \ {""}
         /\ \A w \in Range(Canonical(words)) : Lower[w] = w /\ Trim[w] = w
<1> DEFINE list == [k \in DOMAIN words |-> Lower[Trim[words[k].word]]]
<1>0. DOMAIN words = 1 .. Len(words) /\ Len(words) \in Nat /\ \A k \in 1 .. Len(words) : words[k].word \in Texts
  <2>1. DOMAIN words = 1 .. Len(words) /\ Len(words) \in Nat /\ \A k \in 1 .. Len(words) : words[k] \in [word : Texts]
    BY LenProperties, ElementOfSeq
  <2>2. QED
    BY <2>1
<1>1. list \in Seq(STRING) /\ Range(list) = {Lower[Trim[words[k].word]] : k \in DOMAIN words}
  <2>1. DOMAIN words = 1 .. Len(words) /\ Len(words) \in Nat
    BY <1>0
  <2>2. \A k \in 1 .. Len(words) : Lower[Trim[words[k].word]] \in STRING
    BY <1>0, CallsAssumption
  <2>3. QED
    BY <2>1, <2>2, IsASeq DEF Range
<1> HIDE DEF list
<1>2. /\ Kept(list, Range(list) \ {""}) \in Seq(STRING)
      /\ Range(Kept(list, Range(list) \ {""})) = Range(list) \ {""}
  <2> DEFINE spelled == Range(list) \ {""}
  <2>1. Kept(list, spelled) \in Seq(STRING) /\ Range(Kept(list, spelled)) = Range(list) \cap spelled
    <3> HIDE DEF spelled
    <3>1. QED
      BY <1>1, KeptProperties
  <2>2. QED
    BY <2>1
<1>3. ASSUME NEW w \in Texts
      PROVE  Lower[Lower[Trim[w]]] = Lower[Trim[w]] /\ Trim[Lower[Trim[w]]] = Lower[Trim[w]]
  <2>1. Trim[w] \in Texts /\ Trim[Trim[w]] = Trim[w]
    BY CallsAssumption
  <2>2. Trim[Lower[Trim[w]]] = Lower[Trim[Trim[w]]] /\ Lower[Lower[Trim[w]]] = Lower[Trim[w]]
    BY <2>1, CallsAssumption
  <2>3. QED
    BY <2>1, <2>2
<1>4. \A w \in Range(list) : Lower[w] = w /\ Trim[w] = w
  BY <1>0, <1>1, <1>3
<1>5. QED
  BY <1>1, <1>2, <1>4, OnceProperties DEF Canonical, list

\* A page's links keep their places as candidates, each once, none lost.
LEMMA HrefsProperties ==
  ASSUME NEW links \in Seq(Links)
  PROVE  /\ Hrefs(links) \in Seq(STRING) /\ IsInjective(Hrefs(links))
         /\ Range(Hrefs(links)) = {l.href : l \in Range(links)}
<1> DEFINE typed    == Kept(links, {l \in Range(links) : l.typeFirst})
<1> DEFINE untyped  == Kept(links, {l \in Range(links) : ~l.typeFirst})
<1> DEFINE inOrder  == typed \o untyped
<1> DEFINE hrefs    == [k \in DOMAIN inOrder |-> inOrder[k].href]
<1>1. /\ typed \in Seq(Links) /\ untyped \in Seq(Links)
      /\ Range(typed) \cup Range(untyped) = Range(links)
  <2> DEFINE some(S) == Kept(links, S)
  <2>1. \A S : some(S) \in Seq(Links) /\ Range(some(S)) = Range(links) \cap S
    BY KeptProperties
  <2> HIDE DEF some
  <2>2. /\ some({l \in Range(links) : l.typeFirst}) \in Seq(Links)
        /\ some({l \in Range(links) : ~l.typeFirst}) \in Seq(Links)
        /\ Range(some({l \in Range(links) : l.typeFirst})) = {l \in Range(links) : l.typeFirst}
        /\ Range(some({l \in Range(links) : ~l.typeFirst})) = {l \in Range(links) : ~l.typeFirst}
    BY <2>1
  <2>3. QED
    BY <2>2 DEF some
<1> HIDE DEF typed, untyped
<1>2. inOrder \in Seq(Links) /\ Range(inOrder) = Range(links)
  <2>1. inOrder \in Seq(Links)
    BY <1>1, ConcatProperties
  <2>2. Range(inOrder) = Range(typed) \cup Range(untyped)
    BY <1>1, RangeConcatenation
  <2>3. QED
    BY <1>1, <2>1, <2>2
<1> HIDE DEF inOrder
<1>3. hrefs \in Seq(STRING) /\ Range(hrefs) = {l.href : l \in Range(inOrder)}
  <2>1. DOMAIN inOrder = 1 .. Len(inOrder) /\ Len(inOrder) \in Nat /\ \A k \in 1 .. Len(inOrder) : inOrder[k] \in Links
    BY <1>2, LenProperties, ElementOfSeq
  <2>2. \A k \in 1 .. Len(inOrder) : inOrder[k].href \in STRING
    BY <2>1 DEF Links
  <2>3. QED
    BY <2>1, <2>2, IsASeq DEF Range
<1> HIDE DEF hrefs
<1>4. QED
  BY <1>2, <1>3, OnceProperties DEF Hrefs, hrefs, inOrder, typed, untyped

\* What the dry run keeps of a feed is not stored, and recent or undated.
LEMMA FreshProperties ==
  ASSUME NEW items \in FeedItems, NEW k \in DOMAIN Fresh(items)
  PROVE  Fresh(items)[k].url \notin Stored /\ Fresh(items)[k].published \notin 1 .. Since
<1> DEFINE Item == [url : STRING, published : Nat]
<1>1. items \in Seq(Item)
  BY CallsAssumption
<1>2. /\ Recent(items) \in Seq(Item)
      /\ Range(Recent(items)) = Range(items) \cap {i \in Range(items) : i.published = 0 \/ i.published > Since}
  <2> HIDE DEF Item
  <2>1. QED
    BY <1>1, KeptProperties DEF Recent
<1>3. Range(Fresh(items)) = Range(Recent(items)) \cap {i \in Range(items) : i.url \notin Stored}
  <2> HIDE DEF Item
  <2>1. QED
    BY <1>2, KeptProperties DEF Fresh
<1>4. PICK i \in Range(items) : i = Fresh(items)[k] /\ i.url \notin Stored /\ (i.published = 0 \/ i.published > Since)
  BY <1>2, <1>3 DEF Range
<1>5. i.published \in Nat
  <2>1. PICK j \in 1 .. Len(items) : i = items[j]
    BY <1>1, LenProperties DEF Range
  <2>2. items[j] \in Item
    BY <1>1, <2>1, ElementOfSeq
  <2>3. QED
    BY <2>1, <2>2
<1>6. QED
  BY <1>4, <1>5, CallsAssumption

\* Whatever the reply, its parser returns an error or a value within the rules.
LEMMA ParsersAreSane ==
  ASSUME NEW r \in Replies
  PROVE  /\ ParseKeywords(r).ok =>
              /\ Len(ParseKeywords(r).value) \in KeywordsMin .. KeywordsMax
              /\ IsInjective(ParseKeywords(r).value) /\ "" \notin Range(ParseKeywords(r).value)
              /\ \A w \in Range(ParseKeywords(r).value) : Lower[w] = w /\ Trim[w] = w
         /\ ParseScore(r).ok => ParseScore(r).value \in 0 .. 100
         /\ ParseTranslation(r).ok =>
              Len(ParseTranslation(r).value) = 2 /\ "" \notin Range(ParseTranslation(r).value)
         /\ {ParseKeywords(r).ok, ParseScore(r).ok, ParseTranslation(r).ok} \subseteq BOOLEAN
<1>1. r.words \in Seq([word : Texts])
  BY CallsAssumption
<1>2. ASSUME ParseKeywords(r).ok
      PROVE  /\ ParseKeywords(r).value = Canonical(r.words)
             /\ Len(Canonical(r.words)) \in KeywordsMin .. KeywordsMax
  BY <1>2 DEF ParseKeywords, DecodeKeywordList, Ok, Failed
<1>3. /\ IsInjective(Canonical(r.words)) /\ "" \notin Range(Canonical(r.words))
      /\ \A w \in Range(Canonical(r.words)) : Lower[w] = w /\ Trim[w] = w
  BY <1>1, CanonicalProperties
<1>4. ParseScore(r).ok => ParseScore(r).value \in 0 .. 100
  BY DEF ParseScore, Ok, Failed
<1>5. ASSUME ParseTranslation(r).ok
      PROVE  Len(ParseTranslation(r).value) = 2 /\ "" \notin Range(ParseTranslation(r).value)
  <2>1. r.shape = "object" /\ Len(r.words) = 2 /\ \A k \in 1 .. 2 : Trim[r.words[k].word] # ""
    BY <1>5 DEF ParseTranslation, Failed
  <2>2. ParseTranslation(r).value = <<Trim[r.words[1].word], Trim[r.words[2].word]>>
    BY <2>1 DEF ParseTranslation, Ok
  <2>3. 1 \in 1 .. 2 /\ 2 \in 1 .. 2
    OBVIOUS
  <2>4. Trim[r.words[1].word] # "" /\ Trim[r.words[2].word] # ""
    BY <2>1, <2>3
  <2>5. ASSUME NEW a, NEW b, a # "", b # ""
        PROVE  Len(<<a, b>>) = 2 /\ "" \notin Range(<<a, b>>)
    <3>1. Len(<<a, b>>) = 2 /\ DOMAIN <<a, b>> = 1 .. 2
      OBVIOUS
    <3>2. \A k \in 1 .. 2 : <<a, b>>[k] \in {a, b}
      OBVIOUS
    <3> DEFINE pair == <<a, b>>
    <3>3. Range(pair) \subseteq {a, b}
      <4>1. DOMAIN pair = 1 .. 2 /\ \A k \in 1 .. 2 : pair[k] \in {a, b}
        BY <3>1, <3>2
      <4> HIDE DEF pair
      <4>2. QED
        BY <4>1 DEF Range
    <3>4. QED
      BY <2>5, <3>1, <3>3
  <2> DEFINE title   == Trim[r.words[1].word]
  <2> DEFINE content == Trim[r.words[2].word]
  <2>6. Len(<<title, content>>) = 2 /\ "" \notin Range(<<title, content>>)
    <3> HIDE DEF title, content
    <3>1. title # "" /\ content # ""
      BY <2>4 DEF title, content
    <3>2. QED
      BY <2>5, <3>1
  <2>7. QED
    BY <2>2, <2>6
<1>6. {ParseKeywords(r).ok, ParseScore(r).ok, ParseTranslation(r).ok} \subseteq BOOLEAN
  BY DEF ParseKeywords, ParseScore, ParseTranslation, Ok, Failed
<1>7. QED
  BY <1>2, <1>3, <1>4, <1>5, <1>6

\* So what the parser of the kind asked for returns is an error or a value, never neither.
LEMMA ParsedIsAnswer ==
  ASSUME NEW r \in Replies, kind \in AIKinds
  PROVE  Parsed(r).ok \in BOOLEAN
<1>1. {ParseKeywords(r).ok, ParseScore(r).ok, ParseTranslation(r).ok} \subseteq BOOLEAN
  BY ParsersAreSane
<1>2. Parsed(r) \in {ParseKeywords(r), ParseScore(r), ParseTranslation(r)}
  BY DEF Parsed, AIKinds
<1>3. QED
  BY <1>1, <1>2

----------------------------------------------------------------------------
(* Types, and which part of the machine a call is in.                      *)

Typed == TypeOK /\ PhasesOK

LEMMA InitTyped == Init => Typed
<1> SUFFICES ASSUME Init
             PROVE  Typed
  OBVIOUS
<1>1. result.ok \in BOOLEAN
  BY DEF Init, Failed
<1>2. phase = "idle" /\ pending = {} /\ now = 0 /\ since = 0 /\ tries = 0 /\ answers = 0
  BY DEF Init
<1>3. QED
  <2>1. kind \in Kinds /\ lost = FALSE /\ probed = FALSE
    BY DEF Init
  <2>2. since \in 0 .. now /\ now \in Nat /\ tries \in Nat /\ answers \in Nat
    BY <1>2
  <2>3. (pending # {}) = (phase \in {"page", "validate"})
    BY <1>2
  <2>4. PhasesOK
    BY <1>2 DEF PhasesOK
  <2>5. phase \in {"idle", "waiting", "pause", "page", "probe", "validate", "done"}
    BY <1>2
  <2>6. QED
    BY <1>1, <2>1, <2>2, <2>3, <2>4, <2>5 DEF Typed, TypeOK

LEMMA DueIsLater ==
  ASSUME Typed
  PROVE  /\ phase = "pause" => Due = since + Backoff(tries)
         /\ phase = "waiting" => Due = since + AttemptTimeout
         /\ phase \in {"page", "probe", "validate"} => Due <= Budget
<1>1. AttemptTimeout \in Nat /\ Budget \in Nat /\ since \in Nat
  BY CallsAssumption DEF Typed, TypeOK
<1>2. QED
  BY <1>1 DEF Due

LEMMA NextTyped ==
  ASSUME Typed, [Next]_vars
  PROVE  Typed'
<1> USE DEF Typed, TypeOK, PhasesOK
<1>0. /\ \A v : Ok(v).ok \in BOOLEAN
      /\ Failed.ok \in BOOLEAN
  BY DEF Ok, Failed
<1>1. CASE UNCHANGED vars
  BY <1>1 DEF vars, retrying, search
<1>2. CASE Call
  <2>1. CASE Attempt /\ UNCHANGED result
    BY <1>2, <2>1 DEF Call, Attempt, search
  <2>2. CASE End(Failed) /\ UNCHANGED <<since, tries>>
    BY <1>0, <1>2, <2>2 DEF Call, End, search
  <2>3. QED
    BY <1>2, <2>1, <2>2 DEF Call
<1>3. CASE AttemptFails
  <2>1. CASE tries <= MaxRetries
    BY <1>3, <2>1 DEF AttemptFails, search
  <2>2. CASE ~(tries <= MaxRetries)
    BY <1>0, <1>3, <2>2 DEF AttemptFails, End, search
  <2>3. QED
    BY <2>1, <2>2
<1>4. CASE Retry
  BY <1>4 DEF Retry, Attempt, search
<1>5. CASE Tick
  BY <1>5 DEF Tick, retrying, search
<1>6. ASSUME NEW r \in Replies, Reply(r)
      PROVE  Typed'
  <2>1. Parsed(r).ok \in BOOLEAN
    BY <1>6, ParsedIsAnswer DEF Reply
  <2>2. QED
    BY <1>6, <2>1 DEF Reply, End, search
<1>7. ASSUME NEW items \in FeedItems, NEW ok \in BOOLEAN, Feed(items, ok)
      PROVE  Typed'
  BY <1>0, <1>7 DEF Feed, DryRun, End, search
<1>8. CASE Discover
  <2>1. CASE phase' = "page" /\ pending' = {Site} /\ since' = now /\ UNCHANGED result
    BY <1>8, <2>1 DEF Discover, retrying
  <2>2. CASE End(Failed) /\ UNCHANGED <<pending, since>>
    BY <1>0, <1>8, <2>2 DEF Discover, End, retrying
  <2>3. QED
    BY <1>8, <2>1, <2>2 DEF Discover
<1>9. ASSUME NEW links, AfterPage(links), phase = "page",
             UNCHANGED <<kind, now, result, feeds, retrying, valid, lost>>
      PROVE  Typed'
  <2>1. kind' = "discover" /\ kind' \in Kinds
    BY <1>9
  <2>2. \/ phase' = "validate" /\ pending' = {Head(Hrefs(links))}
        \/ phase' = "probe"
    BY <1>9 DEF AfterPage
  <2>3. probed' \in BOOLEAN /\ lost' \in BOOLEAN /\ result'.ok \in BOOLEAN
    BY <1>9 DEF AfterPage
  <2>4. now' \in Nat /\ since' \in 0 .. now' /\ tries' \in Nat /\ answers' \in Nat
    BY <1>9 DEF AfterPage, retrying
  <2>5. QED
    BY <2>1, <2>2, <2>3, <2>4
<1>10. CASE PageFails
  BY <1>9, <1>10 DEF PageFails
<1>11. ASSUME NEW links \in Pages, Page(links)
       PROVE  Typed'
  BY <1>9, <1>11 DEF Page
<1>12. CASE ProbesEnd
  <2>1. CASE found = <<>>
    BY <1>0, <1>12, <2>1 DEF ProbesEnd, End, retrying
  <2>2. CASE found # <<>>
    BY <1>12, <2>2 DEF ProbesEnd, retrying
  <2>3. QED
    BY <2>1, <2>2
<1>13. ASSUME NEW u \in pending, Probe(u) \/ ProbeFails(u)
       PROVE  Typed'
  BY <1>13 DEF Probe, ProbeFails, retrying
<1>14. ASSUME NEW u \in pending, NEW kept, NextCandidate(u, kept), phase = "validate",
              lost' \in BOOLEAN, UNCHANGED <<kind, now, feeds, retrying, found, probed>>
       PROVE  Typed'
  <2> DEFINE at == CHOOSE k \in DOMAIN found : found[k] = u
  <2>1. CASE at = Len(found)
    BY <1>0, <1>14, <2>1 DEF NextCandidate, End, retrying
  <2>2. CASE at # Len(found)
    <3>1. pending' = {found[at + 1]} /\ since' = now /\ UNCHANGED <<phase, result>>
      BY <1>14, <2>2 DEF NextCandidate
    <3>2. pending' # {} /\ UNCHANGED <<tries, answers>>
      BY <1>14, <3>1 DEF retrying
    <3> HIDE DEF at
    <3>3. QED
      BY <1>14, <3>1, <3>2
  <2>3. QED
    BY <2>1, <2>2
<1>15. ASSUME NEW u \in pending, Validate(u) \/ ValidateFails(u)
       PROVE  Typed'
  BY <1>14, <1>15 DEF Validate, ValidateFails
<1>16. QED
  BY <1>1, <1>2, <1>3, <1>4, <1>5, <1>6, <1>7, <1>8, <1>10, <1>11, <1>12, <1>13, <1>15 DEF Next

\* Every variable holds a value of its type, whatever is asked, answered or lost.
THEOREM TypeCorrect == Spec => []TypeOK
<1>1. Typed /\ [Next]_vars => Typed'
  BY NextTyped
<1>2. Typed => TypeOK
  BY DEF Typed
<1>3. QED
  BY InitTyped, <1>1, <1>2, PTL DEF Spec

----------------------------------------------------------------------------
(* A model's reply ends the call.                                          *)

\* Of all the attempts of a call one is answered in full at most (openaicompat.go
\* and gemini.go parse after retry.Do).
THEOREM OnePurchase == Spec => []NoSecondPurchase
<1>1. Init => Typed /\ AnswersOK /\ NoSecondPurchase
  BY InitTyped DEF Init, AnswersOK, NoSecondPurchase
<1>2. ASSUME Typed, AnswersOK, NoSecondPurchase, [Next]_vars
      PROVE  (AnswersOK /\ NoSecondPurchase)'
  <2> USE <1>2 DEF AnswersOK, NoSecondPurchase
  <2>1. CASE UNCHANGED answers /\ phase # "done"
    BY <2>1
  <2>2. CASE UNCHANGED <<phase, answers>>
    BY <2>2
  <2>3. ASSUME NEW r \in Replies, Reply(r)
        PROVE  (AnswersOK /\ NoSecondPurchase)'
    BY <2>3 DEF Reply, End
  <2>4. ASSUME NEW items \in FeedItems, NEW ok \in BOOLEAN, Feed(items, ok)
        PROVE  (AnswersOK /\ NoSecondPurchase)'
    BY <2>4 DEF Feed, End
  <2>5. UNCHANGED vars \/ Tick => UNCHANGED <<phase, answers>>
    BY DEF vars, Tick, retrying
  <2>6. Call \/ AttemptFails \/ Retry => UNCHANGED answers /\ phase # "done"
    BY DEF Call, AttemptFails, Retry
  <2>7. Discover \/ PageFails \/ ProbesEnd => UNCHANGED answers /\ phase # "done"
    BY DEF Discover, PageFails, ProbesEnd, retrying
  <2>8. \A links : Page(links) => UNCHANGED answers /\ phase # "done"
    BY DEF Page, retrying
  <2>9. \A u : Probe(u) \/ ProbeFails(u) \/ Validate(u) \/ ValidateFails(u) => UNCHANGED answers /\ phase # "done"
    BY DEF Probe, ProbeFails, Validate, ValidateFails, retrying
  <2>10. QED
    BY <2>1, <2>2, <2>3, <2>4, <2>5, <2>6, <2>7, <2>8, <2>9 DEF Next
<1>3. Typed /\ [Next]_vars => Typed'
  BY NextTyped
<1>4. QED
  BY <1>1, <1>2, <1>3, PTL DEF Spec

----------------------------------------------------------------------------
(* Time.                                                                   *)

\* What is spent before each of the attempts a call can make.
LEMMA Spent ==
  /\ Before(1) = 0
  /\ Before(2) = AttemptTimeout + 1
  /\ Before(3) = 2 * AttemptTimeout + 3
  /\ Before(4) = 3 * AttemptTimeout + 7
  /\ Backoff(1) = 1 /\ Backoff(2) = 2 /\ Backoff(3) = 4 /\ Backoff(4) = 8
<1>1. AttemptTimeout \in Nat
  BY CallsAssumption
<1>2. 2 ^ 0 = 1 /\ 2 ^ 1 = 2 /\ 2 ^ 2 = 4 /\ 2 ^ 3 = 8
  OBVIOUS
<1>3. QED
  BY <1>1, <1>2 DEF Before, Backoff

\* An attempt that times out and the pause after it lead to the next one; the last
\* one leads to the end.
LEMMA Spending ==
  /\ \A n \in 1 .. MaxRetries : Before(n) + AttemptTimeout + Backoff(n) = Before(n + 1)
  /\ \A n \in 1 .. MaxRetries + 1 :
        /\ Before(n) \in Nat /\ Backoff(n) \in Nat
        /\ Before(n) + AttemptTimeout <= (MaxRetries + 1) * AttemptTimeout + Backoff(MaxRetries + 1) - 1
<1>1. AttemptTimeout \in Nat
  BY CallsAssumption
<1>2. CASE MaxRetries = 2
  <2>1. \A n \in 1 .. MaxRetries : n = 1 \/ n = 2
    BY <1>2
  <2>2. \A n \in 1 .. MaxRetries + 1 : n = 1 \/ n = 2 \/ n = 3
    BY <1>2
  <2>3. (MaxRetries + 1) * AttemptTimeout + Backoff(MaxRetries + 1) - 1 = 3 * AttemptTimeout + 3
    BY <1>1, <1>2, Spent
  <2>4. \A n \in 1 .. MaxRetries : Before(n) + AttemptTimeout + Backoff(n) = Before(n + 1)
    BY <1>1, <2>1, Spent
  <2>5. QED
    BY <1>1, <2>2, <2>3, <2>4, Spent
<1>3. CASE MaxRetries = 3
  <2>1. \A n \in 1 .. MaxRetries : n = 1 \/ n = 2 \/ n = 3
    BY <1>3
  <2>2. \A n \in 1 .. MaxRetries + 1 : n = 1 \/ n = 2 \/ n = 3 \/ n = 4
    BY <1>3
  <2>3. (MaxRetries + 1) * AttemptTimeout + Backoff(MaxRetries + 1) - 1 = 4 * AttemptTimeout + 7
    BY <1>1, <1>3, Spent
  <2>4. \A n \in 1 .. MaxRetries : Before(n) + AttemptTimeout + Backoff(n) = Before(n + 1)
    BY <1>1, <2>1, Spent
  <2>5. QED
    BY <1>1, <2>2, <2>3, <2>4, Spent
<1>4. QED
  BY <1>2, <1>3 DEF MaxRetries

LEMMA InitTime == Init => TimeOK
<1> SUFFICES ASSUME Init
             PROVE  TimeOK
  OBVIOUS
<1>1. phase = "idle" /\ now = 0
  BY DEF Init
<1>2. now <= Budget
  BY <1>1, CallsAssumption
<1>3. now <= (MaxRetries + 1) * AttemptTimeout + Backoff(MaxRetries + 1) - 1
  <2>1. MaxRetries \in 2 .. 3
    BY DEF MaxRetries
  <2>2. /\ Before(MaxRetries + 1) \in Nat
        /\ Before(MaxRetries + 1) + AttemptTimeout <= (MaxRetries + 1) * AttemptTimeout + Backoff(MaxRetries + 1) - 1
    BY <2>1, Spending
  <2>3. Backoff(MaxRetries + 1) \in Nat
    BY <2>1, Spending
  <2>4. AttemptTimeout \in Nat
    BY CallsAssumption
  <2> DEFINE total == (MaxRetries + 1) * AttemptTimeout + Backoff(MaxRetries + 1) - 1
  <2>5. total \in Int
    BY <2>1, <2>3, <2>4
  <2> HIDE DEF total
  <2>6. total >= 0
    BY <2>2, <2>4, <2>5 DEF total
  <2>7. QED
    BY <1>1, <2>5, <2>6 DEF total
<1>4. QED
  BY <1>1, <1>2, <1>3 DEF TimeOK, CallsEndInTime

LEMMA NextTime ==
  ASSUME Typed, TimeOK, [Next]_vars
  PROVE  TimeOK'
<1> USE DEF TimeOK
<1>1. Typed' /\ AttemptTimeout \in Nat \ {0} /\ Budget \in Nat
  BY NextTyped, CallsAssumption
<1>2. /\ now \in Nat /\ since \in 0 .. now /\ tries \in Nat
      /\ now' \in Nat /\ since' \in 0 .. now' /\ tries' \in Nat
      /\ kind = "discover" => phase \notin {"waiting", "pause"}
      /\ kind # "discover" => phase \notin {"page", "probe", "validate"}
  BY <1>1 DEF Typed, TypeOK, PhasesOK
<1>3. MaxRetries \in 2 .. 3
  BY DEF MaxRetries
\* The time does not pass, and no attempt begins or is given up.
<1>4. ASSUME UNCHANGED <<kind, now, tries>>, phase' \notin {"waiting", "pause"}
      PROVE  TimeOK'
  BY <1>4 DEF CallsEndInTime, MaxRetries, Backoff
<1>5. CASE UNCHANGED vars
  BY <1>5 DEF vars, retrying, CallsEndInTime, MaxRetries, Backoff, Before
<1>6. CASE Call
  <2>1. CASE Attempt
    <3>1. tries' = 1 /\ phase' = "waiting" /\ since' = now /\ now' = now /\ now = 0 /\ kind' = kind
      BY <1>6, <2>1 DEF Call, Attempt, Typed, PhasesOK
    <3>2. Before(tries') = 0
      BY <3>1, Spent
    <3>3. CallsEndInTime'
      BY <3>1 DEF CallsEndInTime, MaxRetries, Backoff
    <3>4. since' <= Before(tries') /\ now' <= since' + AttemptTimeout /\ tries' \in 1 .. MaxRetries' + 1
      BY <1>1, <1>3, <3>1, <3>2 DEF MaxRetries
    <3>5. QED
      BY <3>1, <3>3, <3>4 DEF Before
  <2>2. CASE End(Failed) /\ UNCHANGED <<since, tries>>
    BY <1>4, <1>6, <2>2 DEF Call, End
  <2>3. QED
    BY <1>6, <2>1, <2>2 DEF Call
<1>7. CASE AttemptFails
  <2>1. CASE tries <= MaxRetries
    <3>1. phase' = "pause" /\ since' = now /\ UNCHANGED <<kind, now, tries>>
      BY <1>7, <2>1 DEF AttemptFails
    <3>2. since <= Before(tries) /\ now <= since + AttemptTimeout /\ tries \in 1 .. MaxRetries + 1
      BY <1>7 DEF AttemptFails
    <3>3. Before(tries) \in Nat /\ Backoff(tries) \in Nat
      BY <3>2, Spending
    <3>4. since' <= Before(tries) + AttemptTimeout /\ now' <= since' + Backoff(tries)
      BY <1>1, <1>2, <3>1, <3>2, <3>3
    <3>5. CallsEndInTime'
      BY <3>1 DEF CallsEndInTime, MaxRetries, Backoff
    <3>6. Before(tries)' = Before(tries) /\ Backoff(tries)' = Backoff(tries) /\ MaxRetries' = MaxRetries
      BY <3>1 DEF Before, Backoff, MaxRetries
    <3>7. QED
      BY <2>1, <3>1, <3>2, <3>4, <3>5, <3>6
  <2>2. CASE ~(tries <= MaxRetries)
    BY <1>4, <1>7, <2>2 DEF AttemptFails, End
  <2>3. QED
    BY <2>1, <2>2
<1>8. CASE Retry
  <2>1. /\ phase = "pause" /\ now = since + Backoff(tries)
        /\ phase' = "waiting" /\ since' = now /\ tries' = tries + 1 /\ UNCHANGED <<kind, now>>
    BY <1>8 DEF Retry, Attempt
  <2>2. tries \in 1 .. MaxRetries /\ since <= Before(tries) + AttemptTimeout
    BY <1>2, <1>3, <2>1
  <2>3. /\ Before(tries) + AttemptTimeout + Backoff(tries) = Before(tries + 1)
        /\ Before(tries) \in Nat /\ Backoff(tries) \in Nat
    BY <1>3, <2>2, Spending
  <2>4. since' <= Before(tries + 1) /\ now' <= since' + AttemptTimeout
    BY <1>1, <1>2, <2>1, <2>2, <2>3
  <2>5. CallsEndInTime'
    BY <2>1 DEF CallsEndInTime, MaxRetries, Backoff
  <2>6. Before(tries)' = Before(tries + 1) /\ MaxRetries' = MaxRetries
    BY <2>1 DEF Before, MaxRetries
  <2>7. tries' \in 1 .. MaxRetries' + 1
    BY <1>3, <2>1, <2>2, <2>6
  <2>8. QED
    BY <2>1, <2>4, <2>5, <2>6, <2>7
<1>9. CASE Tick
  <2>1. now' = now + 1 /\ now < Due /\ UNCHANGED <<kind, phase, since, tries>> /\ phase \notin {"idle", "done"}
    BY <1>9 DEF Tick, retrying
  <2>2. MaxRetries' = MaxRetries /\ Before(tries)' = Before(tries) /\ Backoff(tries)' = Backoff(tries)
    BY <2>1 DEF MaxRetries, Before, Backoff
  <2>3. CASE phase = "waiting"
    <3>1. now' <= since + AttemptTimeout /\ since <= Before(tries) /\ tries \in 1 .. MaxRetries + 1 /\ kind # "discover"
      BY <1>1, <1>2, <2>1, <2>3, DueIsLater
    <3>2. /\ Before(tries) \in Nat
          /\ Before(tries) + AttemptTimeout <= (MaxRetries + 1) * AttemptTimeout + Backoff(MaxRetries + 1) - 1
      BY <3>1, Spending
    <3>3. Backoff(MaxRetries + 1) \in Nat
      BY <1>3, Spending
    <3> DEFINE total == (MaxRetries + 1) * AttemptTimeout + Backoff(MaxRetries + 1) - 1
    <3>4. total \in Int
      BY <1>1, <1>3, <3>3
    <3>5. now' <= total
      <4>1. Before(tries) + AttemptTimeout <= total
        BY <3>2
      <4> HIDE DEF total
      <4>2. QED
        BY <1>1, <1>2, <3>1, <3>2, <3>4, <4>1
    <3>6. CallsEndInTime'
      BY <2>1, <3>1, <3>5 DEF CallsEndInTime, MaxRetries, Backoff
    <3>7. QED
      BY <2>1, <2>2, <2>3, <3>1, <3>6
  <2>4. CASE phase = "pause"
    <3>1. /\ tries \in 1 .. MaxRetries /\ since <= Before(tries) + AttemptTimeout /\ kind # "discover"
          /\ now < since + Backoff(tries)
      BY <1>2, <1>3, <2>1, <2>4, DueIsLater
    <3>2. /\ Before(tries) + AttemptTimeout + Backoff(tries) = Before(tries + 1)
          /\ Before(tries) \in Nat /\ Backoff(tries) \in Nat
          /\ Before(tries + 1) + AttemptTimeout <= (MaxRetries + 1) * AttemptTimeout + Backoff(MaxRetries + 1) - 1
          /\ Before(tries + 1) \in Nat
      BY <1>3, <3>1, Spending
    <3>3. Backoff(MaxRetries + 1) \in Nat
      BY <1>3, Spending
    <3>4. now' <= since + Backoff(tries) /\ now' <= Before(tries + 1)
      BY <1>1, <1>2, <2>1, <3>1, <3>2
    <3> DEFINE total == (MaxRetries + 1) * AttemptTimeout + Backoff(MaxRetries + 1) - 1
    <3>5. total \in Int
      BY <1>1, <1>3, <3>3
    <3>6. now' <= total
      <4>1. Before(tries + 1) + AttemptTimeout <= total
        BY <3>2
      <4> HIDE DEF total
      <4>2. QED
        BY <1>1, <1>2, <3>2, <3>4, <3>5, <4>1
    <3>7. CallsEndInTime'
      BY <2>1, <3>1, <3>6 DEF CallsEndInTime, MaxRetries, Backoff
    <3>8. QED
      BY <1>3, <2>1, <2>2, <2>4, <3>1, <3>4, <3>7
  <2>5. CASE phase \in {"page", "probe", "validate"}
    <3>1. now' <= Budget /\ kind = "discover"
      <4>1. Due <= Budget /\ now < Due /\ kind = "discover"
        BY <1>2, <2>1, <2>5, DueIsLater
      <4>2. Due \in Int
        BY <1>1, <1>2, <2>5 DEF Due
      <4>3. QED
        BY <1>1, <1>2, <2>1, <4>1, <4>2
    <3>2. QED
      BY <2>1, <2>5, <3>1 DEF CallsEndInTime
  <2>6. QED
    BY <2>1, <2>3, <2>4, <2>5 DEF Typed, TypeOK
<1>10. ASSUME NEW r, Reply(r)
       PROVE  TimeOK'
  BY <1>4, <1>10 DEF Reply, End
<1>11. ASSUME NEW items, NEW ok, Feed(items, ok)
       PROVE  TimeOK'
  BY <1>4, <1>11 DEF Feed, End
<1>12. CASE Discover
  BY <1>4, <1>12 DEF Discover, End, retrying
<1>13. ASSUME NEW links, Page(links) \/ PageFails
       PROVE  TimeOK'
  BY <1>4, <1>13 DEF Page, PageFails, AfterPage, retrying
<1>14. CASE ProbesEnd
  BY <1>4, <1>14 DEF ProbesEnd, End, retrying
<1>15. ASSUME NEW u, Probe(u) \/ ProbeFails(u)
       PROVE  TimeOK'
  BY <1>4, <1>15 DEF Probe, ProbeFails, retrying
<1>16. ASSUME NEW u, Validate(u) \/ ValidateFails(u)
       PROVE  TimeOK'
  <2>1. phase' \in {"done", "validate"}
    BY <1>16 DEF Validate, ValidateFails, NextCandidate, End
  <2>2. UNCHANGED <<kind, now, tries>>
    BY <1>16 DEF Validate, ValidateFails, retrying
  <2>3. QED
    BY <1>4, <2>1, <2>2
<1>17. QED
  BY <1>5, <1>6, <1>7, <1>8, <1>9, <1>10, <1>11, <1>12, <1>13, <1>14, <1>15, <1>16 DEF Next

\* No call outlasts its attempts and pauses, no search its budget, whoever does not
\* answer (retry.Do; rss_discovery.go's budget).
THEOREM EndsInTime == Spec => []CallsEndInTime
<1>1. Init => Typed /\ TimeOK
  BY InitTyped, InitTime
<1>2. Typed /\ TimeOK /\ [Next]_vars => (Typed /\ TimeOK)'
  BY NextTyped, NextTime
<1>3. TimeOK => CallsEndInTime
  BY DEF TimeOK
<1>4. QED
  BY <1>1, <1>2, <1>3, PTL DEF Spec

----------------------------------------------------------------------------
(* What a caller gets of a model or a feed.                                *)

\* A call is answered by a model's reply, a feed, the search, or by an error.
LEMMA Answering ==
  ASSUME Typed, [Next]_vars
  PROVE  \/ UNCHANGED <<kind, phase, result>>
         \/ kind' = kind /\ phase' # "done"
         \/ kind' = kind /\ result' = Failed
         \/ kind' = kind /\ kind = "discover"
         \/ kind' = kind /\ kind \in AIKinds /\ \E r \in Replies : result' = Parsed(r)
         \/ kind' = kind /\ kind = "fetch" /\ \E items \in FeedItems : result' = Ok(Fresh(items))
<1>1. CASE UNCHANGED vars
  BY <1>1 DEF vars
<1>2. CASE Call
  BY <1>2 DEF Call, Attempt, End
<1>3. CASE AttemptFails
  BY <1>3 DEF AttemptFails, End
<1>4. CASE Retry
  BY <1>4 DEF Retry, Attempt
<1>5. CASE Tick
  BY <1>5 DEF Tick
<1>6. ASSUME NEW r \in Replies, Reply(r)
      PROVE  kind' = kind /\ kind \in AIKinds /\ result' = Parsed(r)
  BY <1>6 DEF Reply, End
<1>7. ASSUME NEW items \in FeedItems, NEW ok \in BOOLEAN, Feed(items, ok)
      PROVE  kind' = kind /\ kind = "fetch" /\ result' \in {Failed, Ok(Fresh(items))}
  BY <1>7 DEF Feed, DryRun, End
<1>8. CASE phase \in {"page", "probe", "validate"}
  <2>1. kind = "discover"
    BY <1>8 DEF Typed, PhasesOK
  <2>2. kind' = kind
    BY <1>1, <1>2, <1>3, <1>4, <1>5, <1>6, <1>7
       DEF vars, Next, Discover, PageFails, Page, ProbesEnd, Probe, ProbeFails, Validate, ValidateFails
  <2>3. QED
    BY <2>1, <2>2
<1>9. CASE Discover
  BY <1>9 DEF Discover
<1>10. QED
  BY <1>1, <1>2, <1>3, <1>4, <1>5, <1>6, <1>7, <1>8, <1>9
     DEF Next, Page, PageFails, ProbesEnd, Probe, ProbeFails, Validate, ValidateFails

\* Whatever a model replies or a feed holds, the caller gets an error or a value
\* within the rules of what it asked for (keywords.go, judgement.go, translation.go and
\* article_discovery.go's filter).
THEOREM AnswersAreSane == Spec => []RepliesAreSane
<1>1. Init => Typed /\ RepliesAreSane
  BY InitTyped DEF Init, RepliesAreSane
<1>2. ASSUME Typed, RepliesAreSane, [Next]_vars
      PROVE  RepliesAreSane'
  <2>1. CASE UNCHANGED <<kind, phase, result>>
    BY <1>2, <2>1 DEF RepliesAreSane
  <2>2. CASE kind' = kind /\ phase' # "done"
    BY <2>2 DEF RepliesAreSane
  <2>3. CASE kind' = kind /\ result' = Failed
    BY <2>3 DEF RepliesAreSane, Failed
  <2>4. CASE kind' = kind /\ kind = "discover"
    BY <2>4 DEF RepliesAreSane
  <2>5. ASSUME NEW r \in Replies, kind' = kind, kind \in AIKinds, result' = Parsed(r)
        PROVE  RepliesAreSane'
    <3>1. CASE kind = "keywords"
      BY <2>5, <3>1, ParsersAreSane DEF RepliesAreSane, Parsed
    <3>2. CASE kind = "judge"
      BY <2>5, <3>2, ParsersAreSane DEF RepliesAreSane, Parsed
    <3>3. CASE kind = "translate"
      BY <2>5, <3>3, ParsersAreSane DEF RepliesAreSane, Parsed
    <3>4. QED
      BY <2>5, <3>1, <3>2, <3>3 DEF AIKinds
  <2>6. ASSUME NEW items \in FeedItems, kind' = kind, kind = "fetch", result' = Ok(Fresh(items))
        PROVE  RepliesAreSane'
    <3>1. result'.value = Fresh(items)
      BY <2>6 DEF Ok
    <3>2. QED
      BY <2>6, <3>1, FreshProperties DEF RepliesAreSane
  <2>7. QED
    BY <1>2, <2>1, <2>2, <2>3, <2>4, <2>5, <2>6, Answering
<1>3. Typed /\ [Next]_vars => Typed'
  BY NextTyped
<1>4. QED
  BY <1>1, <1>2, <1>3, PTL DEF Spec

----------------------------------------------------------------------------
(* The search for feeds.                                                   *)

SearchInv == SearchTypes /\ ProbingOK /\ ValidatingOK /\ SearchIsSound

LEMMA NothingFound ==
  ASSUME NEW missed
  PROVE  /\ <<>> \in Seq(STRING) /\ IsInjective(<<>>) /\ Range(<<>>) = {}
         /\ Earlier(1) = {}
         /\ Sifted(1, <<>>, missed)
<1>1. <<>> \in Seq(STRING)
  BY EmptySeq
<1>2. IsInjective(<<>>) /\ Range(<<>>) = {}
  BY DEF IsInjective, Range
<1>3. Earlier(1) = {}
  BY DEF Earlier
<1>4. QED
  BY <1>1, <1>2, <1>3 DEF Sifted

LEMMA InitSearch == Init => SearchInv
<1> SUFFICES ASSUME Init
             PROVE  SearchInv
  OBVIOUS
<1>1. phase = "idle" /\ found = <<>> /\ valid = <<>> /\ dialed = {}
  BY DEF Init
<1>2. QED
  BY <1>1, NothingFound DEF SearchInv, SearchTypes, ProbingOK, ValidatingOK, SearchIsSound

\* A connection is opened to public addresses only.
LEMMA ConnectsInPublic ==
  ASSUME NEW u, Connect(u), dialed \subseteq Public
  PROVE  dialed' \subseteq Public
  BY DEF Connect, MayDial

\* The page, or its absence, leads to its links or to the common paths.
LEMMA PageStarts ==
  ASSUME SearchInv, NEW links \in Seq(Links), AfterPage(links), phase = "page",
         UNCHANGED <<feeds, valid>>, dialed' \subseteq Public
  PROVE  SearchInv'
<1>1. found' = Hrefs(links) /\ found' \in Seq(STRING) /\ IsInjective(found')
  BY HrefsProperties DEF AfterPage
<1>2. valid' = <<>> /\ feeds' = feeds
  BY DEF SearchInv, ProbingOK
<1>3. SearchTypes'
  BY <1>1, <1>2, NothingFound DEF SearchTypes
<1>4. CASE found' # <<>>
  <2>1. phase' = "validate" /\ pending' = {Head(found')} /\ probed' = FALSE
    BY <1>1, <1>4 DEF AfterPage
  <2>2. 1 \in 1 .. Len(found') /\ Head(found') = found'[1]
    BY <1>1, <1>4, EmptySeq, LenProperties, HeadTailProperties
  <2>3. Sifted(1, valid, lost)'
    <3>1. Earlier(1)' = {}
      BY DEF Earlier
    <3>2. QED
      BY <1>2, <3>1, NothingFound DEF Sifted
  <2>4. ValidatingOK'
    BY <1>1, <2>1, <2>2, <2>3 DEF ValidatingOK, Covered
  <2>5. QED
    BY <1>3, <2>1, <2>4 DEF SearchInv, ProbingOK, SearchIsSound
<1>5. CASE found' = <<>>
  <2>1. phase' = "probe" /\ pending' = CommonPaths
    BY <1>1, <1>5 DEF AfterPage
  <2>2. ProbingOK'
    BY <1>1, <1>2, <1>5, <2>1, NothingFound DEF ProbingOK
  <2>3. QED
    BY <1>3, <2>1, <2>2 DEF SearchInv, ValidatingOK, SearchIsSound
<1>6. QED
  BY <1>4, <1>5

\* A probe that is answered makes its path a candidate.
LEMMA ProbeAdds ==
  ASSUME SearchInv, NEW u \in pending, Probe(u)
  PROVE  SearchInv'
<1>1. /\ phase = "probe" /\ Connect(u) /\ pending' = pending \ {u} /\ found' = Append(found, u)
      /\ UNCHANGED <<kind, phase, result, feeds, valid, probed, lost>>
  BY DEF Probe
<1>2. /\ valid = <<>> /\ found \in Seq(STRING) /\ valid \in Seq(STRING)
      /\ pending \subseteq CommonPaths /\ Range(found) \cap pending = {} /\ IsInjective(found)
      /\ ~lost => feeds \cap CommonPaths \subseteq Range(found) \cup pending
      /\ dialed \subseteq Public
  BY <1>1 DEF SearchInv, SearchTypes, ProbingOK, SearchIsSound
<1>3. u \in STRING /\ u \notin Range(found)
  BY <1>2, CallsAssumption
<1>4. found' \in Seq(STRING) /\ Range(found') = Range(found) \cup {u} /\ IsInjective(found')
  BY <1>1, <1>2, <1>3, AppendOne
<1>5. dialed' \subseteq Public
  BY <1>1, <1>2, ConnectsInPublic
<1>6. QED
  BY <1>1, <1>2, <1>4, <1>5 DEF SearchInv, SearchTypes, ProbingOK, ValidatingOK, SearchIsSound

LEMMA ProbeLoses ==
  ASSUME SearchInv, NEW u \in pending, ProbeFails(u)
  PROVE  SearchInv'
<1>1. /\ phase = "probe" /\ pending' = pending \ {u} /\ lost' = (lost \/ u \in feeds)
      /\ UNCHANGED <<kind, phase, result, feeds, found, valid, dialed, probed>>
  BY DEF ProbeFails
<1>2. ~lost' => ~lost /\ u \notin feeds
  BY <1>1
<1>3. QED
  BY <1>1, <1>2 DEF SearchInv, SearchTypes, ProbingOK, ValidatingOK, SearchIsSound

\* When no probe is left, what was found is validated.
LEMMA ProbesHaveEnded ==
  ASSUME SearchInv, ProbesEnd
  PROVE  SearchInv'
<1>1. phase = "probe" /\ pending = {} /\ UNCHANGED <<kind, feeds, found, valid, dialed, probed, lost>>
  BY DEF ProbesEnd
<1>2. /\ valid = <<>> /\ found \in Seq(STRING) /\ IsInjective(found)
      /\ ~lost => feeds \cap CommonPaths \subseteq Range(found)
      /\ dialed \subseteq Public
  BY <1>1 DEF SearchInv, SearchTypes, ProbingOK, SearchIsSound
<1>3. SearchTypes'
  BY <1>1 DEF SearchInv, SearchTypes
<1>4. CASE found = <<>>
  <2>1. phase' = "done" /\ result' = Ok(<<>>)
    BY <1>4 DEF ProbesEnd, End
  <2>2. result'.value = <<>>
    BY <2>1 DEF Ok
  <2>3. SearchIsSound'
    BY <1>1, <1>2, <1>4, <2>1, <2>2, NothingFound DEF SearchIsSound
  <2>4. QED
    BY <1>3, <2>1, <2>3 DEF SearchInv, ProbingOK, ValidatingOK
<1>5. CASE found # <<>>
  <2>1. phase' = "validate" /\ pending' = {Head(found)}
    BY <1>5 DEF ProbesEnd
  <2>2. 1 \in 1 .. Len(found) /\ Head(found) = found[1]
    BY <1>2, <1>5, EmptySeq, LenProperties, HeadTailProperties
  <2>3. Sifted(1, valid, lost)'
    <3>1. Earlier(1)' = {}
      BY DEF Earlier
    <3>2. QED
      BY <1>1, <1>2, <3>1, NothingFound DEF Sifted
  <2>4. Covered(lost)'
    BY <1>1, <1>2 DEF Covered
  <2>5. ValidatingOK'
    BY <1>1, <1>2, <2>1, <2>2, <2>3, <2>4 DEF ValidatingOK
  <2>6. QED
    BY <1>1, <1>2, <1>3, <2>1, <2>5 DEF SearchInv, ProbingOK, SearchIsSound
<1>6. QED
  BY <1>4, <1>5

\* One candidate after the other is kept or dropped.
LEMMA CandidateSifted ==
  ASSUME SearchInv, phase = "validate", NEW u \in pending, NEW kept, NextCandidate(u, kept),
         UNCHANGED <<kind, feeds, found, probed>>, dialed' \subseteq Public,
         ~lost' => ~lost,
         \A k \in 1 .. Len(found) :
            found[k] = u /\ Sifted(k, valid, lost) => Sifted(k + 1, kept, lost')
  PROVE  SearchInv'
<1>1. /\ found \in Seq(STRING) /\ IsInjective(found) /\ Covered(lost)
  BY DEF SearchInv, SearchTypes, ValidatingOK
<1>2. PICK k \in 1 .. Len(found) : pending = {found[k]} /\ Sifted(k, valid, lost)
  BY DEF SearchInv, ValidatingOK
<1>3. Len(found) \in Nat /\ DOMAIN found = 1 .. Len(found)
  BY <1>1, LenProperties
<1>4. (CHOOSE i \in DOMAIN found : found[i] = u) = k
  BY <1>1, <1>2, <1>3 DEF IsInjective
<1>5. Sifted(k + 1, kept, lost')
  BY <1>2
<1>6. /\ valid' = kept
      /\ k = Len(found) => End(Ok(kept))
      /\ k # Len(found) => pending' = {found[k + 1]} /\ UNCHANGED phase
  BY <1>4 DEF NextCandidate
<1>7. SearchTypes'
  BY <1>1, <1>5, <1>6 DEF SearchTypes, Sifted
<1>8. Covered(lost')
  BY <1>1 DEF Covered
<1>9. CASE k = Len(found)
  <2>1. phase' = "done" /\ result' = Ok(kept)
    BY <1>6, <1>9 DEF End
  <2>2. result'.value = kept
    BY <2>1 DEF Ok
  <2>3. Earlier(k + 1) = Range(found)
    BY <1>3, <1>9 DEF Earlier, Range
  <2>4. /\ Range(kept) \subseteq feeds \cap Range(found) /\ IsInjective(kept)
        /\ ~lost' => feeds \cap Range(found) \subseteq Range(kept)
    BY <1>5, <2>3 DEF Sifted
  <2>5. probed /\ ~lost' => feeds \cap CommonPaths \subseteq Range(found)
    BY <1>8 DEF Covered
  <2>6. SearchIsSound'
    BY <2>1, <2>2, <2>4, <2>5 DEF SearchIsSound
  <2>7. QED
    BY <1>7, <2>1, <2>6 DEF SearchInv, ProbingOK, ValidatingOK
<1>10. CASE k # Len(found)
  <2>1. k + 1 \in 1 .. Len(found)
    <3>1. \A n \in Nat : \A i \in 1 .. n : i # n => i + 1 \in 1 .. n
      OBVIOUS
    <3>2. QED
      BY <1>3, <1>10, <3>1
  <2>2. pending' = {found'[k + 1]} /\ phase' = "validate"
    BY <1>6, <1>10
  <2>3. Sifted(k + 1, valid, lost)'
    BY <1>5, <1>6 DEF Sifted, Earlier
  <2>4. ValidatingOK'
    BY <1>1, <1>8, <2>1, <2>2, <2>3 DEF ValidatingOK, Covered
  <2>5. QED
    BY <1>7, <2>2, <2>4 DEF SearchInv, ProbingOK, SearchIsSound
<1>11. QED
  BY <1>9, <1>10

LEMMA OneMoreEarlier ==
  ASSUME NEW k \in 1 .. Len(found), found \in Seq(STRING)
  PROVE  Earlier(k + 1) = Earlier(k) \cup {found[k]}
<1>1. Len(found) \in Nat
  BY LenProperties
<1>2. 1 .. (k + 1) - 1 = (1 .. k - 1) \cup {k}
  BY <1>1
<1>3. QED
  BY <1>2 DEF Earlier

LEMMA CandidateKept ==
  ASSUME SearchInv, phase = "validate", NEW u \in pending, Validate(u)
  PROVE  SearchInv'
<1> DEFINE kept == IF u \in feeds THEN Append(valid, u) ELSE valid
<1>1. NextCandidate(u, kept) /\ Connect(u) /\ UNCHANGED <<kind, feeds, found, probed, lost>>
  BY DEF Validate
<1>2. dialed' \subseteq Public /\ found \in Seq(STRING)
  BY <1>1, ConnectsInPublic DEF SearchInv, SearchIsSound, SearchTypes
<1>3. IsInjective(found)
  BY DEF SearchInv, ValidatingOK
<1>4. ASSUME NEW k \in 1 .. Len(found), found[k] = u, Sifted(k, valid, lost)
      PROVE  Sifted(k + 1, kept, lost')
  <2>1. Earlier(k + 1) = Earlier(k) \cup {u}
    BY <1>2, <1>4, OneMoreEarlier
  <2>2. u \notin Earlier(k)
    <3>1. Len(found) \in Nat /\ DOMAIN found = 1 .. Len(found)
      BY <1>2, LenProperties
    <3>2. QED
      BY <1>3, <1>4, <3>1 DEF Earlier, IsInjective
  <2>3. u \in STRING
    BY <1>2, <1>4, ElementOfSeq
  <2>4. CASE u \in feeds
    <3>1. /\ Append(valid, u) \in Seq(STRING)
          /\ Range(Append(valid, u)) = Range(valid) \cup {u}
          /\ IsInjective(Append(valid, u))
      BY <1>4, <2>2, <2>3, AppendOne DEF Sifted
    <3>2. kept = Append(valid, u) /\ lost' = lost
      BY <1>1, <2>4
    <3> HIDE DEF kept
    <3>3. QED
      BY <1>4, <2>1, <2>4, <3>1, <3>2 DEF Sifted
  <2>5. CASE u \notin feeds
    BY <1>1, <1>4, <2>1, <2>5 DEF Sifted
  <2>6. QED
    BY <2>4, <2>5
<1>5. QED
  <2> HIDE DEF kept
  <2>1. QED
    BY <1>1, <1>2, <1>4, CandidateSifted

LEMMA CandidateLost ==
  ASSUME SearchInv, phase = "validate", NEW u \in pending, ValidateFails(u)
  PROVE  SearchInv'
<1>1. /\ NextCandidate(u, valid) /\ UNCHANGED <<kind, feeds, found, dialed, probed>>
      /\ lost' = (lost \/ u \in feeds)
  BY DEF ValidateFails
<1>2. dialed' \subseteq Public /\ found \in Seq(STRING)
  BY <1>1 DEF SearchInv, SearchIsSound, SearchTypes
<1>3. ~lost' => ~lost /\ u \notin feeds
  BY <1>1
<1>4. ASSUME NEW k \in 1 .. Len(found), found[k] = u, Sifted(k, valid, lost)
      PROVE  Sifted(k + 1, valid, lost')
  <2>1. Earlier(k + 1) = Earlier(k) \cup {u}
    BY <1>2, <1>4, OneMoreEarlier
  <2>2. QED
    BY <1>3, <1>4, <2>1 DEF Sifted
<1>5. QED
  BY <1>1, <1>2, <1>3, <1>4, CandidateSifted

LEMMA NextSearch ==
  ASSUME Typed, SearchInv, [Next]_vars
  PROVE  SearchInv'
<1> DEFINE Same == UNCHANGED <<found, valid, feeds, dialed, pending, probed, lost>>
<1>1. ASSUME UNCHANGED <<kind, phase, result>>, Same
      PROVE  SearchInv'
  BY <1>1 DEF SearchInv, SearchTypes, ProbingOK, ValidatingOK, SearchIsSound, Sifted, Earlier, Covered
\* Calls that are no search leave it alone, and so does one that is refused.
<1>2. ASSUME UNCHANGED kind, Same, phase' \in {"waiting", "pause", "done"},
             kind = "discover" => phase' # "done" \/ ~result'.ok
      PROVE  SearchInv'
  BY <1>2 DEF SearchInv, SearchTypes, ProbingOK, ValidatingOK, SearchIsSound
<1>3. phase \in {"waiting", "pause"} => kind # "discover"
  BY DEF Typed, PhasesOK
<1>4. UNCHANGED vars \/ Tick => SearchInv'
  BY <1>1 DEF vars, Tick, search
<1>5. CASE Call
  <2>1. Same /\ UNCHANGED kind /\ kind # "discover" /\ phase' \in {"waiting", "done"}
    BY <1>5 DEF Call, Attempt, End, search
  <2>2. QED
    BY <1>2, <2>1
<1>6. CASE AttemptFails
  <2>1. Same /\ UNCHANGED kind /\ kind # "discover" /\ phase' \in {"pause", "done"}
    BY <1>3, <1>6 DEF AttemptFails, End, search
  <2>2. QED
    BY <1>2, <2>1
<1>7. CASE Retry
  <2>1. Same /\ UNCHANGED kind /\ kind # "discover" /\ phase' = "waiting"
    BY <1>3, <1>7 DEF Retry, Attempt, search
  <2>2. QED
    BY <1>2, <2>1
<1>8. ASSUME NEW r, Reply(r)
      PROVE  SearchInv'
  <2>1. Same /\ UNCHANGED kind /\ kind # "discover" /\ phase' = "done"
    BY <1>3, <1>8 DEF Reply, End, search
  <2>2. QED
    BY <1>2, <2>1
<1>9. ASSUME NEW items, NEW ok, Feed(items, ok)
      PROVE  SearchInv'
  <2>1. Same /\ UNCHANGED kind /\ kind # "discover" /\ phase' = "done"
    BY <1>3, <1>9 DEF Feed, End, search
  <2>2. QED
    BY <1>2, <2>1
<1>10. CASE Discover
  <2>1. CASE phase' = "page" /\ pending' = {Site}
    <3>1. phase = "idle" /\ UNCHANGED <<kind, feeds, found, valid, dialed, probed, lost>>
      BY <1>10 DEF Discover
    <3>2. QED
      BY <2>1, <3>1 DEF SearchInv, SearchTypes, ProbingOK, ValidatingOK, SearchIsSound
  <2>2. CASE End(Failed) /\ UNCHANGED <<pending, since>>
    <3>1. Same /\ UNCHANGED kind /\ phase' = "done" /\ ~result'.ok
      BY <1>10, <2>2 DEF Discover, End, Failed
    <3>2. QED
      BY <1>2, <3>1
  <2>3. QED
    BY <1>10, <2>1, <2>2 DEF Discover
<1>11. CASE PageFails
  <2>1. /\ phase = "page" /\ AfterPage(<<>>) /\ UNCHANGED <<feeds, valid>>
        /\ dialed' \subseteq Public /\ <<>> \in Seq(Links)
    BY <1>11, EmptySeq DEF PageFails, SearchInv, SearchIsSound
  <2>2. QED
    BY <2>1, PageStarts
<1>12. ASSUME NEW links \in Pages, Page(links)
       PROVE  SearchInv'
  <2>1. phase = "page" /\ Connect(Site) /\ AfterPage(links) /\ UNCHANGED <<feeds, valid>>
    BY <1>12 DEF Page
  <2>2. dialed' \subseteq Public
    BY <2>1, ConnectsInPublic DEF SearchInv, SearchIsSound
  <2>3. links \in Seq(Links)
    BY CallsAssumption DEF Links
  <2>4. QED
    BY <2>1, <2>2, <2>3, PageStarts
<1>13. ASSUME NEW u \in pending, Probe(u) \/ ProbeFails(u) \/ Validate(u) \/ ValidateFails(u)
       PROVE  SearchInv'
  <2>1. Validate(u) \/ ValidateFails(u) => phase = "validate"
    BY DEF Validate, ValidateFails
  <2>2. QED
    BY <1>13, <2>1, ProbeAdds, ProbeLoses, CandidateKept, CandidateLost
<1>14. QED
  BY <1>4, <1>5, <1>6, <1>7, <1>8, <1>9, <1>10, <1>11, <1>12, <1>13, ProbesHaveEnded DEF Next

\* The search connects to public addresses only, answers feeds only, each once,
\* and misses none that answered in time, in whatever order the probes finish
\* (rss/discovery.go).
THEOREM SearchFindsFeeds == Spec => []SearchIsSound
<1>1. Init => Typed /\ SearchInv
  BY InitTyped, InitSearch
<1>2. Typed /\ SearchInv /\ [Next]_vars => (Typed /\ SearchInv)'
  BY NextTyped, NextSearch
<1>3. SearchInv => SearchIsSound
  BY DEF SearchInv
<1>4. QED
  BY <1>1, <1>2, <1>3, PTL DEF Spec
===============================================================================
