------------------------------- MODULE BodyLog -------------------------------
(***************************************************************************)
(* BodyLogMiddleware around the inner application: the wrappers of receive *)
(* and send look at the chunks that flow by and keep the beginning of both *)
(* bodies, from which one line is rendered when the application returns.   *)
(*                                                                         *)
(* A body is known by its size; the bytes that have come of it are the     *)
(* sequence of their positions.  What becomes of the kept bytes is         *)
(* Rendered, of BodyRendering.                                             *)
(***************************************************************************)
EXTENDS BodyRendering

CONSTANTS
  Call,         \* requests under way, each with buffers of its own
  Body,         \* request and response bodies
  Offered,      \* the requests clients make, each with the answer it gets
  ContentType,  \* what their Content-Type headers say, word by word
  ChunkSize,    \* bound: the sizes of the pieces that bodies come in
  None

(* Stop buffering well before memory blows up. *)
Cap == MaxBytes * 4

Exchange == [path : {"/health", "api"}, request : Body, response : Body]

ASSUME BodyAssumption ==
  /\ Offered \subseteq Exchange
  /\ \A body \in Body : /\ body.size \in Nat /\ body.type \in ContentType
                         /\ body.document \in Value \cup {NoText}
  /\ ChunkSize \subseteq Nat \ {0}
  /\ ContentType \subseteq Seq(STRING)
  /\ None \notin ContentType

VARIABLES
  redact_enabled,   \* LOG_REDACT
  call              \* what is known of each request, or None

vars == <<redact_enabled, call>>

-----------------------------------------------------------------------------

(* n bytes from the position after the given one. *)
Piece(position, n) == [i \in 1 .. n |-> position + i]

Beginning(n) == Piece(0, n)

(* /health is passed on without wrappers. *)
Wrapped(c) == call[c].exchange.path /= "/health"

Running(c) == call[c] /= None /\ call[c].stage = "running"

(* Variant: a chunk is kept only if all of it fits. *)
ExtendIfItFits(buffer, chunk) ==
  IF Len(buffer) + Len(chunk) <= Cap THEN buffer \o chunk ELSE buffer

(* Variant: everything is kept. *)
ExtendAlways(buffer, chunk) == buffer \o chunk

Extend(buffer, chunk) == IF Len(buffer) < Cap THEN buffer \o chunk ELSE buffer

-----------------------------------------------------------------------------

Init ==
  /\ redact_enabled \in BOOLEAN
  /\ call = [c \in Call |-> None]

(* got and out: what the application was given, and what the client was.   *)
(* read and made: how much the client, and the application, have sent.     *)
Begin(c) ==
  /\ call[c] = None
  /\ \E exchange \in Offered :
       call' = [call EXCEPT ![c] =
         [exchange |-> exchange, stage |-> "running", content_type |-> None,
          read |-> 0, got |-> <<>>, req_buf |-> <<>>,
          made |-> 0, out |-> <<>>, res_buf |-> <<>>, lines |-> <<>>]]
  /\ UNCHANGED redact_enabled

(* Variant: the buffer belongs to the middleware, which all requests share. *)
ReceiveShared(c) ==
  /\ Running(c)
  /\ \E n \in ChunkSize :
       LET chunk == Piece(call[c].read, n)
       IN  /\ call[c].read + n <= call[c].exchange.request.size
           /\ call' = [d \in Call |->
                IF call[d] = None THEN None
                ELSE IF d = c
                THEN [call[c] EXCEPT !.read = @ + n, !.got = @ \o chunk,
                        !.req_buf = IF Wrapped(c) THEN Extend(@, chunk) ELSE @]
                ELSE [call[d] EXCEPT !.req_buf = IF Wrapped(c) THEN Extend(@, chunk) ELSE @]]
  /\ UNCHANGED redact_enabled

(* The application asks for more of the request, as much or as little as   *)
(* it likes: receive_wrapper.                                              *)
Receive(c) ==
  /\ Running(c)
  /\ \E n \in ChunkSize :
       LET chunk == Piece(call[c].read, n)
       IN  /\ call[c].read + n <= call[c].exchange.request.size
           /\ call' = [call EXCEPT
                ![c].read = @ + n,
                ![c].got = @ \o chunk,
                ![c].req_buf = IF Wrapped(c) THEN Extend(@, chunk) ELSE @]
  /\ UNCHANGED redact_enabled

(* Variant: the headers looked at are those of the request. *)
StartOfRequest(c) ==
  /\ Running(c) /\ call[c].content_type = None
  /\ call' = [call EXCEPT ![c].content_type = call[c].exchange.request.type]
  /\ UNCHANGED redact_enabled

(* http.response.start: send_wrapper looks for the content type. *)
Start(c) ==
  /\ Running(c) /\ call[c].content_type = None
  /\ call' = [call EXCEPT ![c].content_type = call[c].exchange.response.type]
  /\ UNCHANGED redact_enabled

(* Variant: with a full buffer the message is not passed on. *)
SendWhileRoom(c) ==
  /\ Running(c) /\ call[c].content_type /= None
  /\ \E n \in ChunkSize :
       LET chunk == Piece(call[c].made, n)
           room == Len(call[c].res_buf) < Cap
       IN  /\ call[c].made + n <= call[c].exchange.response.size
           /\ call' = [call EXCEPT
                ![c].made = @ + n,
                ![c].res_buf = IF Wrapped(c) THEN Extend(@, chunk) ELSE @,
                ![c].out = IF room THEN @ \o chunk ELSE @]
  /\ UNCHANGED redact_enabled

(* http.response.body: send_wrapper. *)
Send(c) ==
  /\ Running(c) /\ call[c].content_type /= None
  /\ \E n \in ChunkSize :
       LET chunk == Piece(call[c].made, n)
       IN  /\ call[c].made + n <= call[c].exchange.response.size
           /\ call' = [call EXCEPT
                ![c].made = @ + n,
                ![c].res_buf = IF Wrapped(c) THEN Extend(@, chunk) ELSE @,
                ![c].out = @ \o chunk]
  /\ UNCHANGED redact_enabled

(* The application returns, all of its answer sent, and the line is written. *)
Return(c) ==
  /\ Running(c) /\ call[c].content_type /= None
  /\ call[c].made = call[c].exchange.response.size
  /\ LET request == Rendered(call[c].req_buf, call[c].exchange.request.type,
                           call[c].exchange.request, redact_enabled)
         response == Rendered(call[c].res_buf, call[c].content_type,
                            call[c].exchange.response, redact_enabled)
     IN  call' = [call EXCEPT
           ![c].stage = "returned",
           ![c].lines = IF Wrapped(c) THEN Append(@, [request |-> request, response |-> response])
                        ELSE @]
  /\ UNCHANGED redact_enabled

(* The application raises: there is no line. *)
Raise(c) ==
  /\ Running(c)
  /\ call' = [call EXCEPT ![c].stage = "raised"]
  /\ UNCHANGED redact_enabled

Finish(c) ==
  /\ call[c] /= None /\ call[c].stage /= "running"
  /\ call' = [call EXCEPT ![c] = None]
  /\ UNCHANGED redact_enabled

Step(c) == Receive(c) \/ Start(c) \/ Send(c) \/ Return(c) \/ Raise(c)

Next == \E c \in Call : Begin(c) \/ Step(c) \/ Finish(c)

Spec == Init /\ [][Next]_vars

-----------------------------------------------------------------------------
(* Properties                                                              *)

(* Every variable has its type, and a body is sent only after its start   *)
(* was seen.                                                               *)
TypeOK ==
  /\ redact_enabled \in BOOLEAN
  /\ DOMAIN call = Call
  /\ \A c \in Call : call[c] /= None =>
       /\ DOMAIN call[c] = {"exchange", "stage", "content_type", "read", "got", "req_buf",
                            "made", "out", "res_buf", "lines"}
       /\ call[c].exchange \in Offered
       /\ call[c].stage \in {"running", "returned", "raised"}
       /\ call[c].content_type \in {None, call[c].exchange.response.type}
       /\ call[c].content_type = None => call[c].made = 0
       /\ call[c].read \in 0 .. call[c].exchange.request.size
       /\ call[c].made \in 0 .. call[c].exchange.response.size
       /\ \A bytes \in {call[c].got, call[c].req_buf, call[c].out, call[c].res_buf} :
            bytes \in Seq(Nat)

(* What the application is given, and what the client is, is what the      *)
(* other side sent, chunk for chunk, whatever the buffers keep of it: the  *)
(* middleware observes without consuming, and a client whose application   *)
(* returned has all of the answer.                                         *)
StreamUntouched ==
  \A c \in Call : call[c] /= None =>
    /\ call[c].got = Beginning(call[c].read)
    /\ call[c].out = Beginning(call[c].made)
    /\ call[c].stage = "returned" => call[c].out = Beginning(call[c].exchange.response.size)

(* A buffer holds the beginning of its own stream without a gap, and all   *)
(* of it until the cap is reached.                                         *)
HoldsTheBeginning(buffer, stream) ==
  /\ Len(buffer) <= Len(stream) /\ buffer = Beginning(Len(buffer))
  /\ Len(buffer) < Cap => buffer = stream

BuffersHoldTheBeginning ==
  \A c \in Call : call[c] /= None /\ Wrapped(c) =>
    /\ HoldsTheBeginning(call[c].req_buf, call[c].got)
    /\ HoldsTheBeginning(call[c].res_buf, call[c].out)

(* A buffer passes the cap by less than one chunk, whatever the body has.  *)
BufferWithinOneChunk ==
  \A c \in Call : call[c] /= None =>
    \A buffer \in {call[c].req_buf, call[c].res_buf} :
      buffer = <<>> \/ \E n \in ChunkSize : Len(buffer) < Cap + n

(* There is one line where a wrapped application returned.  It says of     *)
(* either body what it would say had the body come in one piece: all of    *)
(* it up to the cap, and otherwise some beginning of at least the cap.     *)
TellsOf(text, stream, type, body) ==
  \E n \in 0 .. Len(stream) :
    /\ n = Len(stream) \/ n >= Cap
    /\ text = Rendered(Beginning(n), type, body, redact_enabled)

LineTellsBody ==
  \A c \in Call : call[c] /= None =>
    LET exchange == call[c].exchange
    IN  /\ Len(call[c].lines) = IF Wrapped(c) /\ call[c].stage = "returned" THEN 1 ELSE 0
        /\ \A n \in DOMAIN call[c].lines :
             /\ TellsOf(call[c].lines[n].request, call[c].got, exchange.request.type,
                        exchange.request)
             /\ TellsOf(call[c].lines[n].response, call[c].out, exchange.response.type,
                        exchange.response)

(* The texts of the lines of a call, each with the body it is about. *)
TextsOf(c) ==
  IF call[c] = None THEN {}
  ELSE UNION {{<<line.request, call[c].exchange.request>>,
               <<line.response, call[c].exchange.response>>} : line \in Range(call[c].lines)}

Shown(text) == IF text = NoText THEN {} ELSE {t \in Range(text) : t[1] \in {"scalar", "ends"}}

(* With LOG_REDACT a line shows nothing of either body but scalars that no *)
(* sensitive key leads to, and the ends of long values under a key that is *)
(* to be masked in part; deep in lists and objects, however keys are       *)
(* written, in whatever pieces the body came, and where the line is cut.   *)
NothingSensitiveLogged ==
  redact_enabled =>
    \A c \in Call : \A t \in TextsOf(c) :
      Shown(t[1]) \subseteq IF t[2].document = NoText THEN {} ELSE MayBeShown(t[2].document)

(* However much masking makes of a body, its text is no longer than the    *)
(* limit and the mark of truncation.  The one text that may be longer is   *)
(* that of a body not shown at all: it repeats the content type, which is  *)
(* the client's own and never cut.                                         *)
LineWithinLimit ==
  \A c \in Call : \A t \in TextsOf(c) :
    \/ t[1] = NoText
    \/ Len(t[1]) <= MaxBytes + 1
    \/ \E n \in 1 .. t[2].size : t[1] = Placeholder(n, t[2].type)

=============================================================================
