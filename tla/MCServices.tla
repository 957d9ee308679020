------------------------------ MODULE MCServices ------------------------------
(* Instances of the parts of Services for TLC. *)
EXTENDS Services

\* Limiters by themselves: no request, one or two in each window of 3 ms.
Rate(s, m, w) == [strategy |-> s, max |-> m, window |-> w]
MCRateLimiters == {Rate(s, m, 3) : s \in {"token_bucket", "sliding_window"}, m \in 0..2}
MCExchangeLimiters == {Rate("token_bucket", 1, 1), Rate("sliding_window", 0, 1)}
MCLimiters == MCRateLimiters \cup MCExchangeLimiters
MCSymbols == <<"t1", "t2">>

\* Three modules with every combination of these needs: a circle, a module that
\* needs another twice or itself, versions that fit and do not, one that is not known.
Constraint(op, version) == [op |-> op, version |-> version]
AnyVersion(m) == <<m, Constraint("*", <<0>>)>>
Manifest(version, needs) == [version |-> version, needs |-> needs]
MCRegistries ==
    {<<Manifest(<<1, 2, 0>>, n1), Manifest(<<0, 3, 1>>, n2), Manifest(<<1>>, n3)>> :
       n1 \in SUBSET {<<2, Constraint("~", <<0, 3>>)>>, <<2, Constraint("=", <<0, 3>>)>>},
       n2 \in SUBSET {<<1, Constraint("^", <<1, 1>>)>>, AnyVersion(3), <<3, Constraint("^", <<2>>)>>},
       n3 \in SUBSET {<<1, Constraint("=", <<1, 2, 0>>)>>, AnyVersion(4)}}

\* Beside the authenticators one of their priority that may say whom a message is from,
\* and of which type it is.
Middleware(does, mayWrite) == [does |-> does, priority |-> 10, writes |-> mayWrite]
MCStock == {Middleware("jwt", {}), Middleware("apikey", {}), Middleware("other", {"type", "user"})}
MCKeyOwner == [k \in ApiKeys |-> "bob"]

MCPipeline == <<"a", "b", "a">>

\* Listings of two pages, and streams of every three kinds of lines.
Document(shape, hasNext, more, typed) ==
    [shape |-> shape, next |-> hasNext, more |-> more, typed |-> typed, lines |-> <<>>]
Answer(type, link, doc) ==
    [type |-> type, link |-> link, doc |-> doc, slow |-> FALSE, encoded |-> FALSE, wide |-> FALSE]
Awkward(a) == [a EXCEPT !.wide = TRUE, !.slow = TRUE, !.encoded = TRUE]
FirstPages ==
    {Answer("json", link, Document(shape, hasNext, FALSE, TRUE)) :
        link \in {"none", "next", "prev"}, shape \in {"page", "wrapped"}, hasNext \in BOOLEAN}
      \cup {Answer("json", "next", Document(shape, FALSE, FALSE, FALSE)) :
              shape \in {"garbage", "empty", "other", "page"}}
      \cup {Answer("none", "next", Document("array", FALSE, FALSE, TRUE)),
            Awkward(Answer("json", "next", Document("page", FALSE, TRUE, TRUE))),
            Answer("json", "none", Document("page", FALSE, TRUE, TRUE))}
LastPages == {Answer("json", "none", Document("page", FALSE, FALSE, TRUE)),
              Answer("none", "none", Document("garbage", FALSE, FALSE, TRUE)),
              Answer("json", "next", Document("wrapped", FALSE, FALSE, TRUE))}
Stream(type, ls) ==
    <<[Answer(type, "none", Document("lines", FALSE, FALSE, FALSE)) EXCEPT !.doc.lines = ls]>>
MCSites ==
    {<<a, b>> : a \in FirstPages, b \in LastPages}
      \cup {Stream("sse", ls) : ls \in [1..3 -> LineKinds]}
      \cup {Stream("sse", <<"event", "blank", "data", "void", "data", "blank", "other", "event", "data">>),
            Stream("sse", <<"data", "event", "blank", "void", "data">>),
            Stream("ndjson", <<"data", "other", "data">>)}
MCBuilds == {<<"metrics", "logging", "validation", "transform", "pagination", "headers",
               "stream", "json", "decompression", "timeout">>,
             <<"validation", "strict", "pagination">>, <<"stream">>, <<"pagination", "metrics">>}

ResponseTo(endpoint, ms, ok) == [to |-> endpoint, ms |-> ms, ok |-> ok]
MCWorkloads == {<<ResponseTo("k", 2, TRUE), ResponseTo("l", 1, FALSE)>>,
                <<ResponseTo("k", 1, TRUE), ResponseTo("k", 2, FALSE)>>}

\* A channel for one.
MCDeclared == {[limit |-> 1, size |-> 1]}

\* An answer in two pieces beside one of none.
MCMaxPieces == <<2, 0>>

\* "A" refers to "B" twice, which may refer back, break the text or open a reference.
Refer(v) == <<Open, v, Close>>
MCEnvironments ==
    {[v \in {"A"} |-> <<"text">>]}
      \cup {[v \in {"A", "B"} |-> IF v = "A" THEN Refer("B") \o Refer("B") ELSE b] :
              b \in {<<"text">>, <<"quote">>, Refer("A"), <<Open>>}}
MCAtStart == {{}, {"mtw.toml"}, {"/etc/mtw/mtw.toml", "other.toml"}}
MCDocuments ==
    {[keys |-> {}, text |-> Refer("A") \o <<"text">> \o Refer("B")],
     [keys |-> {"store", "path", "bridge", "socket"}, text |-> Refer("B") \o <<Close>>],
     [keys |-> {"bridge"}, text |-> <<"text", Open>>]}
Need(name, form) == [name |-> name, form |-> form, version |-> "^1.0.0", optional |-> TRUE]
MCDrafts ==
    {[name |-> name, version |-> version, type |-> type, permissions |-> {"network"},
      dependencies |-> {Need("b", "string"), Need("c", "table"), Need("d", "number")}] :
       name \in {"", "a"}, type \in {"auth", "game"},
       version \in {<<>>, <<NotANumber>>, <<1>>, <<1, 2, 3>>, <<1, NotANumber>>, <<1, 2, 3, 4>>}}
===============================================================================
