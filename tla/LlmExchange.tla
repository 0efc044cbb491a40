------------------------------ MODULE LlmExchange ------------------------------
(***************************************************************************)
(* A batch of completions, or one streamed completion, between a language- *)
(* model back end (context/ollama_backend.hpp) and its server, over one    *)
(* connection per request (core/http_client.hpp).  A server answers in     *)
(* segments and may stop, close or reset anywhere; what has arrived is     *)
(* parsed wherever the client stops reading.  What the server sends is     *)
(* external; the client's reading of it is not.                            *)
(***************************************************************************)
EXTENDS JsonText, FiniteSets, FiniteSetsExt

CONSTANTS N,              \* requests of a batch, numbered from 1
          MaxConcurrent,  \* complete_batch's max_concurrent
          Answers,        \* how a server may answer a completion
          StreamAnswers   \* and how it may stream one

\* An answer: its status, its framing, and its body in chunks of segments of tokens.
ExchangeAssumption == N \in Nat \ {0} /\ MaxConcurrent \in Nat \ {0}

Requests == 1..N
Stream == N + 1

VARIABLES
  backend,    \* the back end in use, "none" before it is detected
  call,       \* per request, its connection and its response
  first,      \* complete_batch: i, the first request of the window
  futures,    \* the requests whose futures are held, in order
  responses,  \* what has been collected
  due         \* ghost: what each of them was to be

vars == <<backend, call, first, futures, responses, due>>

NoResponse == [request |-> 0, success |-> FALSE, content |-> <<>>]
NoAnswer == [status |-> "none", framing |-> "none", chunks |-> <<>>]
Idle == [phase |-> "idle", answer |-> NoAnswer, sent |-> 0, taken |-> 0, ended |-> "open", response |-> NoResponse]

Init ==
  /\ backend = "none"
  /\ call = [r \in 1..Stream |-> Idle]
  /\ first = 1 /\ futures = <<>>
  /\ responses = [j \in Requests |-> NoResponse]
  /\ due = [j \in Requests |-> [content |-> <<>>, whole |-> FALSE]]

-------------------------------------------------------------------------------
\* What the server writes, segment by segment.

Flat(chunk) == FlattenSeq(chunk)
Size(n) == <<"size", n>>
Framed(answer) ==
  IF answer.framing # "chunked" THEN FlattenSeq(answer.chunks)
  ELSE FlattenSeq([i \in DOMAIN answer.chunks |->
            <<<<Size(Len(Flat(answer.chunks[i])))>>>> \o answer.chunks[i] \o <<<<Mark("crlf")>>>>])
         \o <<<<Size(0)>>>>
Wire(answer) == <<<<Mark("status")>>, <<Mark("headers")>>>> \o Framed(answer)
Body(answer) == FlattenSeq([i \in DOMAIN answer.chunks |-> Flat(answer.chunks[i])])

\* The tokens the client holds, without the head of the message.
Held(r, taken) == FlattenSeq(SubSeq(Wire(call[r].answer), 3, taken))

-------------------------------------------------------------------------------
\* is_response_complete(): without a length or chunks, the first byte is enough.
Complete_AtHeaders(r, taken) == taken >= 2
Complete(r, taken) ==
  /\ taken >= 2
  /\ LET answer == call[r].answer
         held == Held(r, taken)
     IN  CASE answer.framing = "length"  -> Len(held) >= Len(Body(answer))
           [] answer.framing = "chunked" -> Size(0) \in Range(held)
           [] OTHER -> held # <<>>

\* decode_chunked(): a chunk that breaks off is taken as far as it goes.
Decoded(held) ==
  LET from[p \in 1..(Len(held) + 2)] ==
        IF p > Len(held) \/ held[p] = Size(0) THEN <<>>
        ELSE LET size == held[p][2] IN
             SubSeq(held, p + 1, Min({p + size, Len(held)})) \o (IF p + size + 2 <= Len(held) THEN from[p + size + 2] ELSE <<>>)
  IN  from[1]

\* parse_response() and complete(): any document at all makes the call a success, and
\* what it does not say is the empty string.
OllamaContent(doc) == AsString(Field(Field(doc, "message"), "content"))
VllmContent(doc) == AsString(Field(Field(Item(Field(doc, "choices"), 0), "message"), "content"))
Content(doc) == <<IF backend = "ollama" THEN OllamaContent(doc) ELSE VllmContent(doc)>>
Response(r, taken) ==
  LET answer == call[r].answer
      held == Held(r, taken)
      doc == TryParse(IF answer.framing = "chunked" THEN Decoded(held) ELSE held)
  IN  IF taken >= 1 /\ answer.status = "ok" /\ doc.ok
        THEN [request |-> r, success |-> TRUE, content |-> Content(doc.val)]
        ELSE [NoResponse EXCEPT !.request = r]

\* stream_complete(): chunks are not decoded, so their marks end lines too.  A line
\* that is no document is skipped; the line that says it is done ends the stream.
Lines(held) ==
  LET ends == {p \in DOMAIN held : held[p][1] \in {"nl", "crlf", "size"}}
      end(k) == CHOOSE p \in ends : Cardinality({q \in ends : q <= p}) = k
  IN  [k \in 1..Cardinality(ends) |-> SubSeq(held, IF k = 1 THEN 1 ELSE end(k - 1) + 1, end(k) - 1)]
LineToken(line) ==
  LET doc == TryParse(line)
      token == AsString(Field(Field(doc.val, "message"), "content"))
  IN  IF doc.ok /\ token # "" THEN <<token>> ELSE <<>>
LineDone(line) == LET doc == TryParse(line) IN doc.ok /\ Field(doc.val, "done") = <<"bool", TRUE>>
Streamed(held) ==
  LET lines == Lines(held)
      done == {k \in DOMAIN lines : LineDone(lines[k])}
      last == IF done = {} THEN Len(lines) ELSE Min(done)
  IN  [tokens |-> FlattenSeq([k \in 1..last |-> LineToken(lines[k])]), done |-> done # {}]

-------------------------------------------------------------------------------
Update(r, change) == call' = [call EXCEPT ![r] = change]
Done(c, response) == [c EXCEPT !.phase = "done", !.response = response]
Failed(r) == Done(call[r], [NoResponse EXCEPT !.request = r])

\* auto_detect(): Ollama if it answers, vLLM if it does and Ollama does not.
Detect ==
  /\ backend = "none" /\ backend' \in {"ollama", "vllm"}
  /\ UNCHANGED <<call, first, futures, responses, due>>

\* complete_batch(): Ollama's launches a window of requests; the default, which vLLM
\* has, makes one call after the other.
Width == IF backend = "ollama" THEN MaxConcurrent ELSE 1
Launch ==
  /\ backend # "none" /\ call[Stream].phase = "idle"
  /\ futures = <<>> /\ first <= N
  /\ LET last == Min({first + Width - 1, N})
     IN  /\ futures' = [k \in 1..(last - first + 1) |-> first + k - 1]
         /\ call' = [r \in DOMAIN call |-> IF r \in first..last THEN [Idle EXCEPT !.phase = "connect"] ELSE call[r]]
  /\ UNCHANGED <<backend, first, responses, due>>

\* What a call has to come to: the content of the document its server was sending, and
\* a success if all of it, framed, was there to be read.
Sent(answer) == TryParse(Body(answer)).val
Due(c) ==
  [content |-> Content(Sent(c.answer)),
   whole |-> /\ c.answer.status = "ok" /\ c.answer.framing # "none"
             /\ c.sent = Len(Wire(c.answer)) /\ c.ended # "reset"]

\* Mutant: the future of the window's last request is asked first.
Collect_Backwards(j) ==
  /\ futures # <<>> /\ j = first /\ call[j].phase = "done"
  /\ responses' = [responses EXCEPT ![j] = call[Last(futures)].response]
  /\ due' = [due EXCEPT ![j] = Due(call[j])]
  /\ first' = j + 1 /\ futures' = Tail(futures) /\ UNCHANGED <<backend, call>>
\* futures[j - i].get(), in order; after the last of the window the next begins.
Collect(j) ==
  /\ futures # <<>> /\ j = first /\ call[Head(futures)].phase = "done"
  /\ responses' = [responses EXCEPT ![j] = call[Head(futures)].response]
  /\ due' = [due EXCEPT ![j] = Due(call[j])]
  /\ call' = [call EXCEPT ![Head(futures)] = Idle]
  /\ first' = j + 1
  /\ futures' = Tail(futures)
  /\ UNCHANGED backend

\* stream_complete() is called instead of a batch.
StartStream ==
  /\ backend = "ollama" /\ first = 1 /\ futures = <<>> /\ call[Stream].phase = "idle"
  /\ Update(Stream, [Idle EXCEPT !.phase = "connect"])
  /\ UNCHANGED <<backend, first, futures, responses, due>>

\* SocketConnection::connect() and send(); the server then begins to answer.
Connect(r) ==
  /\ call[r].phase = "connect"
  /\ Update(r, [call[r] EXCEPT !.phase = "send"]) \/ Update(r, Failed(r))
  /\ UNCHANGED <<backend, first, futures, responses, due>>
SendRequest(r) ==
  /\ call[r].phase = "send"
  /\ \/ \E answer \in (IF r = Stream THEN StreamAnswers ELSE Answers[backend]) :
          Update(r, [call[r] EXCEPT !.phase = "receive", !.answer = answer])
     \/ Update(r, Failed(r))
  /\ UNCHANGED <<backend, first, futures, responses, due>>

\* The server: another segment, or no more.
Answer(r) ==
  /\ call[r].phase = "receive" /\ call[r].ended = "open"
  /\ \/ /\ call[r].sent < Len(Wire(call[r].answer))
        /\ Update(r, [call[r] EXCEPT !.sent = @ + 1])
     \/ \E how \in {"closed", "reset"} : Update(r, [call[r] EXCEPT !.ended = how])
  /\ UNCHANGED <<backend, first, futures, responses, due>>

\* One recv() of the loop of receive(), or of stream_complete().
Receive(r) ==
  /\ call[r].phase = "receive"
  /\ \E taken \in (call[r].taken + 1)..call[r].sent :
       LET c == [call[r] EXCEPT !.taken = taken]
           got == Streamed(Held(r, taken))
       IN  IF r = Stream
             THEN Update(r, IF taken >= 2 /\ got.done
                    THEN Done(c, [request |-> r, success |-> TRUE, content |-> got.tokens])
                    ELSE [c EXCEPT !.response.content = IF taken >= 2 THEN got.tokens ELSE <<>>])
             ELSE Update(r, IF Complete(r, taken) THEN Done(c, Response(r, taken)) ELSE c)
  /\ UNCHANGED <<backend, first, futures, responses, due>>

\* The peer has closed, the connection is reset, or poll() times out.  A completion is
\* made of what there is; a stream has failed, whatever it has handed on.
StopReading(r) ==
  /\ call[r].phase = "receive"
  /\ call[r].taken = call[r].sent \/ call[r].ended = "reset"
  /\ Update(r, Done(call[r], IF r = Stream THEN [call[r].response EXCEPT !.request = r]
                             ELSE Response(r, call[r].taken)))
  /\ UNCHANGED <<backend, first, futures, responses, due>>

Next ==
  \/ Detect \/ Launch \/ StartStream
  \/ \E j \in Requests : Collect(j)
  \/ \E r \in 1..Stream : Connect(r) \/ SendRequest(r) \/ Answer(r) \/ Receive(r) \/ StopReading(r)

Spec == Init /\ [][Next]_vars

-------------------------------------------------------------------------------

\* What a caller is handed is the answer to its own request, and all of it: a call
\* succeeds only with the content of the document its server sent, however that was cut
\* up, closed or reset on its way, and it does succeed when it was framed and all there.
\* A stream hands on its tokens in order, each once, and completes with all of them,
\* unless a line was split over two chunks.
Split(answer) ==
  answer.framing = "chunked" /\ \E i \in DOMAIN answer.chunks : Last(Flat(answer.chunks[i])) # Mark("nl")
AnswersAreWhole ==
  /\ \A j \in 1..(first - 1) :
       /\ responses[j].request = j
       /\ responses[j].success => responses[j].content = due[j].content
       /\ due[j].whole => responses[j].success
  /\ LET c == call[Stream]
     IN  c.taken >= 2 =>
           LET all == Streamed(Body(c.answer)).tokens
               got == c.response.content
           IN  ~Split(c.answer) => IsPrefix(got, all) /\ (c.response.success => got = all)
===============================================================================
