-------------------------------- MODULE Content --------------------------------
(***************************************************************************)
(* What crates/mtw-http makes of the answers to a listing that comes in    *)
(* pages: the stages of the response pipeline that read, annotate, change  *)
(* or refuse a response, each a step, and the paginator that asks for one  *)
(* page after the other.  The stages that retry are in HttpClient.         *)
(***************************************************************************)
EXTENDS Naturals, FiniteSets, SequencesExt

CONSTANTS Builds,      \* the orders in which stages are added to the client
          Sites,       \* the listings: for each page, what the server answers
          MaxFetches   \* bound: requests of the paginator

StagePriority == [timeout |-> 1, decompression |-> 18, json |-> 20, strict |-> 20,
                  stream |-> 22, headers |-> 25, pagination |-> 40, transform |-> 50,
                  validation |-> 60, logging |-> 90, metrics |-> 95]
Stages == DOMAIN StagePriority

\* The lines of an event stream: data, data without content, an empty line, a
\* type, and what is none of these.
LineKinds == {"data", "void", "blank", "event", "other"}

\* A document: a page with its items, one wrapped in "data", an array of items,
\* JSON without items; or none of JSON.  "next" and "more" are its fields of
\* those names, "typed" says that its items are what the caller expects.
JsonShapes == {"page", "wrapped", "array", "other"}
Bodies == [shape : JsonShapes \cup {"garbage", "lines", "empty"},
           next : BOOLEAN, more : BOOLEAN, typed : BOOLEAN, lines : Seq(LineKinds)]

\* An answer: its content type, its Link header, whether it took too long, is
\* still encoded, or is cut for the log within a character.
PageAnswers == [type : {"json", "sse", "ndjson", "none"}, link : {"none", "next", "prev"},
                slow : BOOLEAN, encoded : BOOLEAN, wide : BOOLEAN, doc : Bodies]

\* A stage of metrics counts for itself: the one that is looked at is there once.
ASSUME ContentAssumption ==
    /\ Builds \subseteq Seq(Stages) /\ Builds # {}
    /\ \A b \in Builds : \A i, j \in DOMAIN b : b[i] = "metrics" /\ b[j] = "metrics" => i = j
    /\ Sites \subseteq Seq(PageAnswers) \ {<<>>}
    /\ MaxFetches \in Nat

VARIABLES
    adding,    \* the stages still to be added to the client
    pipe,      \* its pipeline
    site,      \* the listing, once the paginator is made
    response,  \* the response in the pipeline, or a mark that there is none
    ahead,     \* the stages it has still to go through
    nextPage,  \* next_url: the page it is of, 0 for none
    fetches,   \* requests so far
    counted,   \* responses the metrics have seen
    finished,  \* history: the responses that came out of the pipeline
    left,      \* history: the page the position moved on from
    handed,    \* history: the pages whose items the caller was given, in order
    reported   \* history: the pages the caller had an error for

historyVars == <<finished, left, handed, reported>>
contentVars == <<adding, pipe, site, response, ahead, nextPage, fetches, counted, historyVars>>

Nothing == [page |-> 0]
Tags == {"request_duration_ms", "timeout_exceeded", "content_encoding", "json_body",
         "stream_events", "extracted_headers"}

ContentTypeOK ==
    /\ adding \in Seq(Stages) /\ pipe \in Seq(Stages) /\ ahead \in Seq(Stages)
    /\ site = <<>> \/ site \in Sites
    /\ response = Nothing \/
       /\ response.page \in DOMAIN site /\ response.ok \in BOOLEAN
       /\ response.doc \in Bodies /\ response.tags \subseteq Tags
       /\ \A k \in DOMAIN response.events : response.events[k].data \in Seq(1..Len(response.doc.lines))
       /\ response.then \in 0..Len(site) + 1 /\ response.more \in BOOLEAN
    /\ nextPage \in 0..Len(site) + 1 /\ left \in 0..Len(site)
    /\ fetches \in 0..MaxFetches /\ counted \in 0..fetches /\ finished \in 0..fetches
    /\ handed \in Seq(DOMAIN site) /\ reported \subseteq DOMAIN site

ContentInit ==
    /\ adding \in Builds /\ pipe = <<>>
    /\ site = <<>>
    /\ response = Nothing /\ ahead = <<>>
    /\ nextPage = 0 /\ fetches = 0 /\ counted = 0
    /\ finished = 0 /\ left = 0 /\ handed = <<>> /\ reported = {}

-----------------------------------------------------------------------------
(* The client: stages are added in any order and run by priority.          *)

Earlier(a, b) == StagePriority[a] < StagePriority[b]

\* Pushed and sorted: the sort is stable.
AddStage ==
    /\ adding # <<>> /\ adding' = Tail(adding)
    /\ \E n \in 0..Len(pipe) :
          /\ \A i \in DOMAIN pipe : i <= n <=> ~Earlier(Head(adding), pipe[i])
          /\ pipe' = SubSeq(pipe, 1, n) \o <<Head(adding)>> \o SubSeq(pipe, n + 1, Len(pipe))
    /\ UNCHANGED <<site, response, ahead, nextPage, fetches, counted, historyVars>>

\* Paginator::new(), with the address of the first page.
NewPaginator ==
    /\ adding = <<>> /\ site = <<>>
    /\ site' \in Sites
    /\ nextPage' = 1
    /\ UNCHANGED <<adding, pipe, response, ahead, fetches, counted, historyVars>>

Quiet == UNCHANGED <<adding, pipe, site, fetches>>

\* The response to the request for the next page, with the status it happens to
\* have.  Nothing has been read of it yet.
Received(ok) ==
    LET a == site[nextPage]
    IN [page |-> nextPage, ok |-> ok, type |-> a.type, link |-> a.link, doc |-> a.doc,
        slow |-> a.slow, encoded |-> a.encoded, wide |-> a.wide,
        tags |-> {}, events |-> <<>>, then |-> 0, more |-> FALSE]

Fetch ==
    /\ adding = <<>> /\ response = Nothing /\ nextPage \in DOMAIN site
    /\ fetches < MaxFetches /\ fetches' = fetches + 1
    /\ \E ok \in BOOLEAN : response' = Received(ok)
    /\ ahead' = pipe
    /\ UNCHANGED <<adding, pipe, site, nextPage, counted, historyVars>>

\* The request fails, or the page is asked for that is not there.
FetchFails ==
    /\ adding = <<>> /\ response = Nothing /\ nextPage # 0
    /\ fetches < MaxFetches /\ fetches' = fetches + 1
    /\ reported' = reported \cup ({nextPage} \cap DOMAIN site)
    /\ UNCHANGED <<adding, pipe, site, response, ahead, nextPage, counted, finished, left, handed>>

-----------------------------------------------------------------------------
(* The text of a stream.  Events keep the lines they were made of.         *)

IsJson(d) == d.shape \in JsonShapes

\* Without the lines at the end that have no content.
Trimmed(data, lines) == SubSeq(data, 1, Max({k \in DOMAIN data : lines[data[k]] = "data"}))

\* The event of the lines gathered so far, if any of them had content.
Flushed(acc, lines) ==
    IF acc.data = <<>> THEN acc
    ELSE [events |-> Append(acc.events, [type |-> acc.type, data |-> Trimmed(acc.data, lines)]),
          type |-> 0, data |-> <<>>]

\* An empty line ends an event; data without content before any other is lost,
\* and a type stays for the next event that has data.
SseLine(acc, i, lines) ==
    CASE lines[i] = "blank" -> Flushed(acc, lines)
      [] lines[i] = "data" -> [acc EXCEPT !.data = Append(@, i)]
      [] lines[i] = "void" /\ acc.data # <<>> -> [acc EXCEPT !.data = Append(@, i)]
      [] lines[i] = "event" -> [acc EXCEPT !.type = i]
      [] OTHER -> acc

\* Of newline-delimited JSON each line is an event; what does not parse is left
\* out without a word.
NdjsonLine(acc, i, lines) ==
    IF lines[i] = "data"
    THEN [acc EXCEPT !.events = Append(@, [type |-> 0, data |-> <<i>>])] ELSE acc

\* What there is after the first i lines.
LineRead(type, acc, i, lines) ==
    IF type = "sse" THEN SseLine(acc, i, lines) ELSE NdjsonLine(acc, i, lines)
LinesRead(type, lines) ==
    LET Read[i \in 0..Len(lines)] ==
          IF i = 0 THEN [events |-> <<>>, type |-> 0, data |-> <<>>]
          ELSE LineRead(type, Read[i - 1], i, lines)
    IN Read

\* Fault: the last event is dropped unless an empty line follows it.
ParseSseUnflushed(lines) == LinesRead("sse", lines)[Len(lines)].events

ParseSse(lines) == Flushed(LinesRead("sse", lines)[Len(lines)], lines).events

ParseNdjson(lines) == LinesRead("ndjson", lines)[Len(lines)].events

-----------------------------------------------------------------------------
(* What each stage makes of a response it does not refuse.                 *)

Tagged(r, tags) == [r EXCEPT !.tags = @ \cup tags]

TimeoutTags(r) ==
    Tagged(r, {"request_duration_ms"} \cup IF r.slow THEN {"timeout_exceeded"} ELSE {})

EncodingTags(r) == IF r.encoded THEN Tagged(r, {"content_encoding"}) ELSE r

JsonParsed(r) == IF r.type = "json" /\ IsJson(r.doc) THEN Tagged(r, {"json_body"}) ELSE r

Events(r) == IF r.type = "sse" THEN ParseSse(r.doc.lines) ELSE ParseNdjson(r.doc.lines)

\* The body stays as it is; the events are put beside it.
StreamEvents(r) ==
    IF r.type \in {"sse", "ndjson"} /\ r.doc.shape = "lines"
    THEN [Tagged(r, {"stream_events"}) EXCEPT !.events = Events(r)] ELSE r

HeaderTags(r) == IF r.type # "none" THEN Tagged(r, {"extracted_headers"}) ELSE r

\* The Link header first, then the fields of the document, whatever its type.
NamesNext(r) == r.link = "next" \/ (IsJson(r.doc) /\ r.doc.next)

\* Fault: a Link header without a next page hides the document's.
PaginatedByHeader(r) ==
    [r EXCEPT !.then = IF r.link = "next" \/ (r.link = "none" /\ IsJson(r.doc) /\ r.doc.next)
                       THEN r.page + 1 ELSE 0]

Paginated(r) ==
    [r EXCEPT !.then = IF NamesNext(r) THEN r.page + 1 ELSE 0,
              !.more = NamesNext(r) \/ (IsJson(r.doc) /\ r.doc.more)]

\* unwrap_field("data").
Transformed(r) ==
    IF IsJson(r.doc) THEN [r EXCEPT !.doc.shape = "page", !.doc.next = FALSE, !.doc.more = FALSE]
    ELSE r

After(s, r) ==
    CASE s = "timeout" -> TimeoutTags(r)
      [] s = "decompression" -> EncodingTags(r)
      [] s \in {"json", "strict"} -> JsonParsed(r)
      [] s = "stream" -> StreamEvents(r)
      [] s = "headers" -> HeaderTags(r)
      [] s = "pagination" -> Paginated(r)
      [] s = "transform" -> Transformed(r)
      [] OTHER -> r

\* The errors: JSON by its type that is none, no field "data", a document that
\* breaks the rules (items must be there and as expected).
StrictRefuses(r) == r.type = "json" /\ r.doc.shape \notin JsonShapes \cup {"empty"}
UnwrapFails(r) == IsJson(r.doc) /\ r.doc.shape # "wrapped"
Invalid(r) == IsJson(r.doc) /\ ~(r.doc.shape = "page" /\ r.doc.typed)

\* Logging a body panics if the longest it may be ends within a character.
LogPanics(r) == r.wide /\ r.doc.shape # "empty"

Refused(s, r) ==
    \/ s = "strict" /\ StrictRefuses(r)
    \/ s = "transform" /\ UnwrapFails(r)
    \/ s = "validation" /\ Invalid(r)
    \/ s = "logging" /\ LogPanics(r)

-----------------------------------------------------------------------------

Pass ==
    /\ response # Nothing /\ ahead # <<>> /\ ~Refused(Head(ahead), response)
    /\ ahead' = Tail(ahead)
    /\ response' = After(Head(ahead), response)
    /\ counted' = IF Head(ahead) = "metrics" THEN counted + 1 ELSE counted
    /\ Quiet /\ UNCHANGED <<nextPage, historyVars>>

\* The error, or the panic, ends the request; the page is still to come.
Refuse ==
    /\ response # Nothing /\ ahead # <<>> /\ Refused(Head(ahead), response)
    /\ response' = Nothing /\ ahead' = <<>>
    /\ reported' = reported \cup {response.page}
    /\ Quiet /\ UNCHANGED <<nextPage, counted, finished, left, handed>>

\* Items are an array, or in the field "items", and all of them must be as
\* the caller expects.
Decodable(r) == r.doc.shape \in {"page", "array"} /\ r.doc.typed

\* The rest of next_page(): the position moves on before the body is read, so an
\* error from there on passes the page over.
TakePage ==
    /\ response # Nothing /\ ahead = <<>>
    /\ nextPage' = IF response.ok THEN response.then ELSE nextPage
    /\ left' = IF response.ok THEN nextPage ELSE left
    /\ IF response.ok /\ Decodable(response)
       THEN handed' = Append(handed, response.page) /\ UNCHANGED reported
       ELSE reported' = reported \cup {response.page} /\ UNCHANGED handed
    /\ response' = Nothing
    /\ finished' = finished + 1
    /\ Quiet /\ UNCHANGED <<ahead, counted>>

ContentNext == AddStage \/ NewPaginator \/ Fetch \/ FetchFails \/ Pass \/ Refuse \/ TakePage

ContentSpec == ContentInit /\ [][ContentNext]_contentVars

-----------------------------------------------------------------------------
(* What the caller may count on.                                           *)

Installed(s) == s \in Range(pipe)

\* The pages handed over come in order, none twice; a page before the position
\* that was not handed over was an error.
PagesInOrder ==
    /\ \A i, j \in DOMAIN handed : i < j => handed[i] < handed[j]
    /\ \A p \in DOMAIN site : p < nextPage => p \in Range(handed) \cup reported

\* The listing ends where an answer names no next page in either place, if the
\* pipeline looks for it at all; without the stage it ends after one page.
EndsWhereItEnds ==
    nextPage = 0 /\ left # 0 =>
       /\ Installed("pagination") => ~NamesNext(site[left])
       /\ ~Installed("pagination") => left = 1
       /\ \A p \in 1..left : p \in Range(handed) \cup reported

\* A client that validates passes no page over that says what it is: its errors
\* come before the position moves on.
ValidatedNotSkipped ==
    Installed("strict") /\ Installed("validation") =>
       \A p \in 1..left : site[p].type = "json" /\ site[p].doc.shape # "empty"
                            => p \in Range(handed)

\* Each line of data of a stream is in one event, in order; server-sent lines are
\* together unless an empty one separates them, and a type is of the lines since
\* the event before (crates/mtw-http/src/stages/stream.rs).
EventsAreTheLines ==
    response # Nothing /\ "stream_events" \in response.tags =>
       LET lines == response.doc.lines
           events == response.events
           Data(k) == {i \in Range(events[k].data) : lines[i] = "data"}
           AllData == {i \in DOMAIN lines : lines[i] = "data"}
       IN /\ \A i \in AllData : Cardinality({k \in DOMAIN events : i \in Data(k)}) = 1
          /\ \A k, l \in DOMAIN events : k < l => \A i \in Data(k), j \in Data(l) : i < j
          /\ \A i, j \in AllData : i < j /\ response.type = "sse" =>
               ((\E k \in DOMAIN events : {i, j} \subseteq Data(k))
                  <=> ~\E b \in i..j : lines[b] = "blank")
          /\ \A k \in DOMAIN events : events[k].type # 0 =>
               \A l \in 1..(k - 1) : \A i \in Data(l) : i < events[k].type

\* Whatever order the stages were added in, what is handed on was annotated
\* before the body was changed and validated after it, and the metrics count the
\* responses that reach the end and no others.
StagesHadTheirSay ==
    response # Nothing /\ ahead = <<>> =>
       LET a == site[response.page]
           parses == Installed("json") \/ Installed("strict")
       IN /\ parses /\ a.type = "json" /\ IsJson(a.doc) => "json_body" \in response.tags
          /\ Installed("validation") => ~Invalid(response)
          /\ Installed("pagination") =>
               response.more = (NamesNext(a) \/ (IsJson(a.doc) /\ a.doc.more))
          /\ Installed("metrics") => counted = finished + 1

\* Pages come whole and in order, through all of the stages
\* (crates/mtw-http/src/paginator.rs, pipeline.rs, stages).
ListingIsWhole == PagesInOrder /\ EndsWhereItEnds /\ ValidatedNotSkipped /\ StagesHadTheirSay

===============================================================================
