------------------------------ MODULE AiProvider ------------------------------
(***************************************************************************)
(* The AI providers of crates/mtw-integrations/src/ai: OpenAI, Anthropic,  *)
(* Ollama and LM Studio.  Each call is one HTTP request; a streamed answer *)
(* is read chunk by chunk, as the network cuts it, and each chunk is       *)
(* parsed by itself.  The service and the network are external.            *)
(***************************************************************************)
EXTENDS Naturals, Sequences, FiniteSets

CONSTANTS Providers,   \* the providers to consider
          Inputs,      \* how many texts embed() may be given
          MaxLines,    \* bound: lines of a streamed answer
          MaxCalls     \* bound: calls made

AllProviders == {"openai", "anthropic", "ollama", "lmstudio"}

ASSUME AiAssumption ==
    /\ Providers \subseteq AllProviders /\ Inputs \subseteq Nat
    /\ MaxLines \in Nat /\ MaxCalls \in Nat

\* Lines of an answer: a piece of the text, the reason it stops, a line that
\* ends the stream, or one that says nothing (an event name, a blank).
Lines == {"text", "stop", "last", "noise"}

VARIABLES
    provider,  \* which one it is
    status,    \* what validate() found
    doing,     \* the call that is being made
    calls,     \* calls made
    answered,   \* how the latest ended
    inputs,    \* of embed(): the texts not yet sent ...
    vectors,   \* ... and the vectors received
    lines,     \* of stream_chat(): the lines the service sent
    arrived,   \* bytes that have arrived, in half lines
    parsed,    \* bytes that have been parsed
    heard,     \* the lines of text that were handed on
    finish,    \* the latest stop reason handed on: the line that gave it
    torn       \* history: lines that were cut into two chunks

aiVars == <<provider, status, doing, calls, answered, inputs, vectors, lines, arrived,
            parsed, heard, finish, torn>>
streamVars == <<lines, arrived, parsed, heard, finish, torn>>
embedVars == <<inputs, vectors>>

AiCalls == {"validate", "chat", "embed", "models", "pull", "stream"}

AiTypeOK ==
    /\ provider \in Providers
    /\ status \in {"Ready", "Unavailable"}
    /\ doing \in AiCalls \cup {"nothing"}
    /\ calls \in 0..MaxCalls
    /\ answered \in {"none", "Ok", "Empty", "Err", "ended"}
    /\ inputs \in Nat /\ vectors \in Nat
    /\ lines \in Seq(Lines) /\ Len(lines) <= MaxLines
    /\ arrived \in 0..(2 * Len(lines)) /\ parsed \in 0..arrived
    /\ heard \in Seq(1..MaxLines) /\ finish \in 0..MaxLines
    /\ torn \subseteq 1..MaxLines

NoStream == /\ lines = <<>> /\ arrived = 0 /\ parsed = 0
            /\ heard = <<>> /\ finish = 0 /\ torn = {}

\* A local service is unavailable until it has been asked.
Local == {"ollama", "lmstudio"}
AiInit ==
    /\ provider \in Providers
    /\ status = IF provider \in Local THEN "Unavailable" ELSE "Ready"
    /\ doing = "nothing" /\ calls = 0 /\ answered = "none"
    /\ inputs = 0 /\ vectors = 0
    /\ NoStream

-----------------------------------------------------------------------------
(* Calls that are answered at once.                                        *)

StartAi(call, texts) ==
    /\ doing = "nothing" /\ calls < MaxCalls
    /\ call = "pull" => provider = "ollama"
    /\ doing' = call /\ calls' = calls + 1 /\ answered' = "none"
    /\ inputs' = texts /\ vectors' = 0
    /\ lines' = <<>> /\ arrived' = 0 /\ parsed' = 0 /\ heard' = <<>> /\ finish' = 0 /\ torn' = {}
    /\ UNCHANGED <<provider, status>>

EndAi(how) ==
    /\ doing' = "nothing" /\ answered' = how
    /\ UNCHANGED <<provider, calls>>

\* The services abroad are taken to be ready.
Validate(reachable) ==
    /\ doing = "validate"
    /\ IF provider \in Local /\ ~reachable
       THEN status' = "Unavailable" /\ EndAi("Err")
       ELSE status' = "Ready" /\ EndAi("Ok")
    /\ UNCHANGED <<embedVars, streamVars>>

\* What comes back: a good answer, an error status with a JSON body or another,
\* a good status with another body, or nothing.
HttpAnswers == {"good", "refusal", "status", "garbage", "lost"}

\* chat() and pull_model() look at the status; pull_model() not at the body.
Chat(answer) ==
    /\ doing \in {"chat", "pull"}
    /\ EndAi(IF answer = "good" \/ (doing = "pull" /\ answer = "garbage") THEN "Ok" ELSE "Err")
    /\ UNCHANGED <<status, embedVars, streamVars>>

\* A body with no list in it is an empty list, be it that of an error.
ReadsAs(answer) ==
    CASE answer = "good" -> "Ok" [] answer = "refusal" -> "Empty" [] OTHER -> "Err"

ListModels(answer) ==
    /\ doing = "models"
    /\ EndAi(ReadsAs(answer))
    /\ UNCHANGED <<status, embedVars, streamVars>>

\* All texts in one request.
Embed(answer) ==
    /\ doing = "embed" /\ provider # "ollama"
    /\ EndAi(ReadsAs(answer))
    /\ vectors' = IF answer = "good" THEN inputs ELSE 0
    /\ inputs' = 0
    /\ UNCHANGED <<status, streamVars>>

\* Ollama is sent one text at a time; a failure loses what was received.
EmbedNext(answer) ==
    /\ doing = "embed" /\ provider = "ollama" /\ inputs > 0
    /\ IF ReadsAs(answer) = "Err"
       THEN EndAi("Err") /\ inputs' = 0 /\ vectors' = 0
       ELSE /\ inputs' = inputs - 1
            /\ vectors' = IF answer = "good" THEN vectors + 1 ELSE vectors
            /\ UNCHANGED <<provider, calls, doing, answered>>
    /\ UNCHANGED <<status, streamVars>>

EmbedEnds ==
    /\ doing = "embed" /\ provider = "ollama" /\ inputs = 0
    /\ EndAi(IF vectors = 0 THEN "Empty" ELSE "Ok")
    /\ UNCHANGED <<status, embedVars, streamVars>>

-----------------------------------------------------------------------------
(* A streamed answer.                                                      *)

\* A request that fails, or is refused, is a stream without any item.
StreamRefused ==
    /\ doing = "stream" /\ lines = <<>>
    /\ EndAi("ended")
    /\ UNCHANGED <<status, embedVars, streamVars>>

\* The service says more; after "last" only blank lines.
ServiceSends(line) ==
    /\ doing = "stream" /\ Len(lines) < MaxLines
    /\ line # "noise" => \A i \in DOMAIN lines : lines[i] # "last"
    /\ lines' = Append(lines, line)
    /\ UNCHANGED <<provider, status, doing, calls, answered, embedVars, arrived, parsed, heard,
                   finish, torn>>

\* Half a line more is there when the network hands over a chunk.
NetworkBrings(halves) ==
    /\ doing = "stream" /\ arrived = parsed
    /\ arrived + halves <= 2 * Len(lines)
    /\ arrived' = arrived + halves
    /\ UNCHANGED <<provider, status, doing, calls, answered, embedVars, lines, parsed, heard,
                   finish, torn>>

\* The lines that lie in the chunk as a whole, and those it has a half of.
InChunk == {i \in DOMAIN lines : parsed <= 2 * (i - 1) /\ 2 * i <= arrived}
CutByChunk == {i \in DOMAIN lines : i \notin InChunk /\ parsed < 2 * i /\ 2 * (i - 1) < arrived}

\* Fault: a chunk is taken for one piece of text.
OnePiece(S) == IF S = {} THEN <<>> ELSE <<CHOOSE i \in S : \A j \in S : j <= i>>

\* The texts of a chunk are put together in order.
Ascending(S) ==
    [n \in 1..Cardinality(S) |-> CHOOSE i \in S : Cardinality({j \in S : j < i}) = n - 1]

LastIn(S) == IF S = {} THEN finish ELSE CHOOSE i \in S : \A j \in S : j <= i

\* parse_openai_sse_chunk(), which LM Studio uses too: "data: [DONE]" is a stop
\* reason, and ends the reading of its chunk.
ParseOpenAi ==
    LET read == {i \in InChunk : \A j \in InChunk : lines[j] = "last" => i <= j}
    IN /\ provider \in {"openai", "lmstudio"}
       /\ heard' = heard \o Ascending({i \in read : lines[i] = "text"})
       /\ finish' = LastIn({i \in read : lines[i] \in {"stop", "last"}})
       /\ torn' = torn \cup CutByChunk

\* parse_anthropic_sse_chunk(): the stop reason comes with "message_delta"; the
\* "message_stop" that follows says nothing.
ParseAnthropic ==
    /\ provider = "anthropic"
    /\ heard' = heard \o Ascending({i \in InChunk : lines[i] = "text"})
    /\ finish' = LastIn({i \in InChunk : lines[i] = "stop"})
    /\ torn' = torn \cup CutByChunk

\* parse_ollama_ndjson_chunk(): the last object of the stream is "done", and a
\* reason to stop by itself means nothing.
ParseOllama ==
    /\ provider = "ollama"
    /\ heard' = heard \o Ascending({i \in InChunk : lines[i] = "text"})
    /\ finish' = LastIn({i \in InChunk : lines[i] = "last"})
    /\ torn' = torn \cup CutByChunk

ParseChunk ==
    /\ doing = "stream" /\ parsed < arrived
    /\ ParseOpenAi \/ ParseAnthropic \/ ParseOllama
    /\ parsed' = arrived
    /\ UNCHANGED <<provider, status, doing, calls, answered, embedVars, lines, arrived>>

\* The stream ends with its connection, or with an error that is its last item;
\* the caller may stop reading at any time.
StreamEnds ==
    /\ doing = "stream" /\ parsed = arrived
    /\ \/ lines # <<>> /\ parsed = 2 * Len(lines) /\ EndAi("ended")
       \/ EndAi("Err")
    /\ UNCHANGED <<status, embedVars, streamVars>>

AiNext ==
    \/ \E call \in AiCalls \ {"embed"} : StartAi(call, 0)
    \/ \E n \in Inputs : StartAi("embed", n)
    \/ \E reachable \in BOOLEAN : Validate(reachable)
    \/ \E a \in HttpAnswers : Chat(a) \/ ListModels(a) \/ Embed(a) \/ EmbedNext(a)
    \/ EmbedEnds \/ StreamRefused \/ ParseChunk \/ StreamEnds
    \/ \E line \in Lines : ServiceSends(line)
    \/ \E halves \in 1..(2 * MaxLines) : NetworkBrings(halves)

AiSpec == AiInit /\ [][AiNext]_aiVars

-----------------------------------------------------------------------------

StopLine == CASE provider = "anthropic" -> {"stop"} [] provider = "ollama" -> {"last"}
              [] OTHER -> {"stop", "last"}

\* However the network cuts a streamed answer, its text is handed on in order and
\* no line of it twice; what is lost is what a chunk boundary cut in two, and the
\* stop reason is told unless it was lost that way (anthropic.rs:368-407,
\* openai.rs:328-365, ollama.rs:357-389).
LosesOnlyCutLines ==
    /\ \A i, j \in DOMAIN heard : i < j => heard[i] < heard[j]
    /\ \A i \in DOMAIN lines \ torn : 2 * i <= parsed =>
          /\ lines[i] = "text" => \E n \in DOMAIN heard : heard[n] = i
          /\ lines[i] \in StopLine => finish >= i
===============================================================================
