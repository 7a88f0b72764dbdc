------------------------------ MODULE SseStream ------------------------------
(***************************************************************************)
(* One request of the SSE lane (patterns/sse): the body generator          *)
(* _event_stream pulls events from the injected producer, sse-starlette    *)
(* sends each one to the client and asks for the next, and the client may  *)
(* go away or stall at any moment.  The producer is the environment: it    *)
(* keeps the contract's order and stops after its terminal marker, but it  *)
(* may raise before that, forget the marker, or never stop.                *)
(***************************************************************************)
EXTENDS Naturals, Sequences

CONSTANT MaxEvents  \* _MAX_EVENTS, the backstop

ASSUME MaxEventsAssumption == MaxEvents \in Nat \ {0}

VARIABLES
  producer,  \* "running", "stopped" (its generator is over) or "raised"
  released,  \* its generator has been closed
  produced,  \* the events the producer has yielded (only properties read it)
  client,    \* "reading", "stalled" (for longer than a send may take) or "gone"
  body,      \* where _event_stream is suspended
  held,      \* the event it has yielded and whose send is under way
  wire       \* the events the client has been sent

streamVars == <<producer, released, produced, client, body, held, wire>>

Markers == {"completed", "error"}
Events  == {"step_started", "tool_called", "token"} \cup Markers
Body    == {"pulling",   \* awaits the producer's next event
            "sending",   \* its event is being sent
            "marking",   \* its own terminal marker is being sent
            "closing",   \* awaits the producer's aclose
            "closed"}

\* The contract's order: step_started, tool_called*, token*, then the end.
Stage(e) == CASE e = "step_started" -> 1 [] e = "tool_called" -> 2
              [] e = "token" -> 3 [] e \in Markers -> 4

InOrder(s, e) == s # <<>> => /\ Stage(s[Len(s)]) <= Stage(e)
                             /\ s[Len(s)] \notin Markers

StreamInit ==
  /\ producer = "running"
  /\ released = FALSE
  /\ produced = <<>>
  /\ client   = "reading"
  /\ body     = "pulling"
  /\ held     = "step_started"
  /\ wire     = <<>>

-----------------------------------------------------------------------------
\* The producer yields an event; is_disconnected is asked before it is passed
\* on, and an event for a client that has gone is dropped.
ProducerYields(e) ==
  /\ body = "pulling" /\ producer = "running"
  /\ InOrder(produced, e)
  /\ produced' = Append(produced, e)
  /\ held' = e
  /\ body' = IF client = "gone" THEN "closing" ELSE "sending"
  /\ UNCHANGED <<producer, released, client, wire>>

\* Its generator ends, marker or not.
ProducerStops ==
  /\ body = "pulling" /\ producer = "running"
  /\ producer' = "stopped"
  /\ body'     = "closing"
  /\ UNCHANGED <<released, produced, client, held, wire>>

\* It raises: the error becomes the terminal marker of the stream.
ErrorMarker == "error"

OnError_Swallowed(b) == "closing"
OnError(b)           == "marking"

ProducerRaises ==
  /\ body = "pulling" /\ producer = "running"
  /\ InOrder(produced, "error")
  /\ producer' = "raised"
  /\ held' = ErrorMarker
  /\ body' = OnError(body)
  /\ UNCHANGED <<released, produced, client, wire>>

\* The send has finished: the event is counted, and the backstop adds an error
\* marker after the last event it allows, whatever that event is.
AtCap(n) == n >= MaxEvents

SendDone ==
  /\ body = "sending" /\ client = "reading"
  /\ wire' = Append(wire, held)
  /\ IF AtCap(Len(wire')) THEN body' = "marking" /\ held' = ErrorMarker
                          ELSE body' = "pulling" /\ UNCHANGED held
  /\ UNCHANGED <<producer, released, produced, client>>

AfterMarker_NoBreak(b) == "pulling"
AfterMarker(b)         == "closing"

MarkerSent ==
  /\ body = "marking" /\ client = "reading"
  /\ wire' = Append(wire, held)
  /\ body' = AfterMarker(body)
  /\ UNCHANGED <<producer, released, produced, client, held>>

\* A send to a stalled client times out: sse-starlette closes the generator.
SendTimeout ==
  /\ body \in {"sending", "marking"} /\ client = "stalled"
  /\ body' = "closing"
  /\ UNCHANGED <<producer, released, produced, client, held, wire>>

\* The server cancels the response of a client that has gone: CancelledError
\* (or the closing of the generator, when it was suspended at a yield).
Cancelled ==
  /\ body \in {"pulling", "sending", "marking"} /\ client = "gone"
  /\ body' = "closing"
  /\ UNCHANGED <<producer, released, produced, client, held, wire>>

\* finally: the producer's generator is closed, however the stream ended.
AfterClose_Leaked(r) == r
AfterClose(r)        == TRUE

Close ==
  /\ body = "closing"
  /\ released' = AfterClose(released)
  /\ body'     = "closed"
  /\ UNCHANGED <<producer, produced, client, held, wire>>

ClientStalls ==
  /\ client = "reading" /\ client' = "stalled"
  /\ UNCHANGED <<producer, released, produced, body, held, wire>>

ClientLeaves ==
  /\ client # "gone" /\ client' = "gone"
  /\ UNCHANGED <<producer, released, produced, body, held, wire>>

Producer == (\E e \in Events : ProducerYields(e)) \/ ProducerStops \/ ProducerRaises
Server   == SendDone \/ MarkerSent \/ SendTimeout \/ Cancelled \/ Close

StreamNext == Producer \/ Server \/ ClientStalls \/ ClientLeaves

\* The producer yields, stops or raises in the end, a send finishes or times
\* out, and a cancelled task runs; the client owes nothing.
StreamSpec == StreamInit /\ [][StreamNext]_streamVars /\ WF_streamVars(Producer) /\ WF_streamVars(Server)

-----------------------------------------------------------------------------
\* Every variable keeps its shape.
StreamTypeOK ==
  /\ producer \in {"running", "stopped", "raised"}
  /\ released \in BOOLEAN
  /\ produced \in Seq(Events)
  /\ client \in {"reading", "stalled", "gone"}
  /\ body \in Body
  /\ held \in Events
  /\ wire \in Seq(Events)

\* What the client gets is what the producer yielded, in its order and without
\* a gap, followed by at most one error marker of the server's own.
SameUpTo(n) == n <= Len(produced) /\ \A i \in 1..n : wire[i] = produced[i]

OrderPreserved ==
  \/ SameUpTo(Len(wire))
  \/ /\ wire # <<>> /\ wire[Len(wire)] = "error"
     /\ SameUpTo(Len(wire) - 1)

\* A slow client holds the producer back: it is never asked for more than one
\* event beyond what was sent, and an unending one is cut off at the backstop.
Backpressure == Len(produced) <= Len(wire) + 1 /\ Len(wire) <= MaxEvents + 1

\* The inductive invariant behind the two: what was pulled and what was sent
\* differ by the event under way, and by nothing else while the stream is open.
StreamInv ==
  /\ StreamTypeOK
  /\ OrderPreserved
  /\ Backpressure
  /\ body \in {"pulling", "marking"} => wire = produced
  /\ body = "sending" => produced = Append(wire, held)
  /\ body \in {"pulling", "sending"} => Len(wire) < MaxEvents
  /\ body = "marking" => Len(wire) <= MaxEvents /\ held = "error"

\* No silent truncation: a client that read to the end was sent every event of
\* the run, and an error marker when the run failed or was cut off.
NothingSwallowed ==
  body = "closed" /\ client = "reading" =>
    \/ wire # <<>> /\ wire[Len(wire)] = "error"
    \/ producer = "stopped" /\ wire = produced

\* The producer's generator is released in the end, whoever ended the stream.
ProducerReleased == <>(body = "closed" /\ released)
=============================================================================
