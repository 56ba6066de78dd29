---------------------------- MODULE MCArticleBody ----------------------------
(* ArticleBody with every body of one node, and of two when one is a link: a *)
(* client that moves from client.com to client.com.br, whose name the old    *)
(* one is a prefix of, or that is not configured; and articles whose feeds   *)
(* gave them an absolute URL, a relative one and one under our client.       *)
EXTENDS ArticleBody

MCTexts == STRING

ClientA == <<"https://client.com">>
ClientB == <<"https://client.com", ".br">>

MCUrlOf ==
    [a \in {"own", "a1", "a2", "a3"} |->
        CASE a = "a2" -> <<"/x", a>> [] a = "a3" -> ClientA \o <<"/x">> [] OTHER -> <<"https://source.com", "/x", a>>]

MCClientUrls == {<<>>, ClientA, ClientB}
MCHostOf     == [c \in MCClientUrls |-> CASE c = <<>> -> "" [] c = ClientA -> "client.com" [] OTHER -> "client.com.br"]

MCOutboundIds == <<"id1", "id2", "id3", "id4">>

Post == <<"https://instagram.com/p/", "/1">>

Links ==
    {Anchor(h) : h \in {MCUrlOf["own"], MCUrlOf["a1"], Append(MCUrlOf["a1"], " "),
                        InternalHref(ClientA, "a1"), ClientA \o <<"#top">>, ClientA \o <<"/articles/", "a1", "#top">>,
                        ClientB \o <<"/x">>, ClientA, MCUrlOf["a2"], MCUrlOf["a3"], <<"https://source.com", "?u=", "{CLIENT_URL}">>}}

Embeds ==
    {Iframe(h, e, p) : h \in {"player.twitch.tv", "clips.twitch.tv", "www.youtube.com", "elsewhere"},
                       e \in BOOLEAN, p \in {<<>>, <<"source.com">>, <<"client.com", "source.com">>}}
        \cup {Script, Instagram(<<>>, <<>>), Instagram(<<>>, <<MCUrlOf["a1"], Post>>),
              Instagram(Post \o <<"?utm">>, <<MCUrlOf["own"]>>)}

MCRawBodies == {<<n>> : n \in Links \cup Embeds} \cup {<<n, l>> : n \in Links \cup {i \in Embeds : i.tag = "instagram"}, l \in Links}
=============================================================================
