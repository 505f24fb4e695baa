--------------------------- MODULE RequestPipeline ---------------------------
(***************************************************************************)
(* A request on its way through the middlewares of create_app to its route *)
(* and back, with other requests in between: the request id in its         *)
(* ContextVar, the lines of the log, the exception handlers and the        *)
(* envelope.                                                               *)
(*                                                                         *)
(* BaseHTTPMiddleware.call_next runs what is inside it in a task of its    *)
(* own, which starts with a copy of the context.                           *)
(***************************************************************************)
EXTENDS Integers, Sequences, FiniteSets, SequencesExt

CONSTANTS
  Request,      \* the requests under way, each a task of uvicorn
  Inbound,      \* the ids clients send in X-Request-Id
  Generated,    \* bound: what uuid4 returns
  None

(* The errors that the features raise, by the code each of them has, from  *)
(* apperror or from error_codes; and the HTTP status of its class.         *)
AppError == {"10002", "10004", "10006", "20001", "20002", "20003", "20004", "70001"}

HttpStatus(err) ==
  CASE err = "10002" -> 400
    [] err \in {"20001", "20002", "20003"} -> 401
    [] err = "20004" -> 403
    [] err = "10004" -> 404
    [] err \in {"10006", "70001"} -> 409

CodeOk == "00000"
CodeInternal == "10001"
CodeInvalidInput == "10003"

(* What comes of a route: an answer of the handler, after its usecase      *)
(* returned or raised; or an exception past the handler, from the guard or *)
(* from issuing a token, from the validation of the input, from the router *)
(* (no such path or method), or from a bug.                                *)
Outcome ==
  [by : {"handler"}, error : {None, "bug", "10002", "10004", "10006", "70001"}] \cup
  [by : {"exception"},
   error : {"validation", "routing", "bug", "10002", "20001", "20002", "20003", "20004"}]

Id == Inbound \cup Generated

(* What travels back: an answer or an exception.  code, id: None without   *)
(* envelope.                                                               *)
Carried ==
  [raised : {None, "bug", "validation", "routing"} \cup AppError,
   status : {None, 200, 400, 401, 403, 404, 409, 422, 500},
   code : {None, CodeOk, CodeInternal, CodeInvalidInput} \cup AppError,
   id : Id \cup {None}, header : Id \cup {None}]

ASSUME PipelineAssumption ==
  /\ Inbound \cap Generated = {}
  /\ None \notin Id \cup AppError \cup Carried
  /\ None \notin {"bug", "validation", "routing", CodeOk, CodeInternal, CodeInvalidInput}

VARIABLES
  bodies,    \* LOG_BODIES
  req,       \* what is known of each request, or None
  ctx,       \* the request id in the context of each of its tasks, outermost first
  lines      \* what was logged for it: logger, request id, status

vars == <<bodies, req, ctx, lines>>

-----------------------------------------------------------------------------
(* The stack                                                               *)

(* The last middleware added is the first to run.  Starlette puts the      *)
(* handler of Exception outside of all and the other handlers inside.      *)
Stack(b) ==
  <<"server_error", "request_context", "access_log">> \o
  (IF b THEN <<"body_log">> ELSE <<>>) \o <<"exceptions">>

BaseHTTP == {"request_context", "access_log"}

(* The task that runs the layer at n: one more for each BaseHTTPMiddleware *)
(* outside of it.                                                          *)
TaskAt(n) ==
  1 + Cardinality({m \in 1 .. (n - 1) : m <= Len(Stack(bodies)) /\ Stack(bodies)[m] \in BaseHTTP})

(* get_request_id, for what the layer at n does. *)
RequestId(r, n) == ctx[r][TaskAt(n)]

Down(r, layer) ==
  /\ req[r] /= None /\ req[r].carries = None
  /\ req[r].at \in 1 .. Len(Stack(bodies))
  /\ Stack(bodies)[req[r].at] = layer

Up(r, layer) ==
  /\ req[r] /= None /\ req[r].carries /= None
  /\ req[r].at \in 1 .. Len(Stack(bodies))
  /\ Stack(bodies)[req[r].at] = layer

-----------------------------------------------------------------------------
(* Answers                                                                 *)

DefaultCodeFromStatus(status) ==
  CASE status = 200 -> CodeOk
    [] status = 400 -> "10002"
    [] status = 401 -> "10007"
    [] status = 403 -> "10008"
    [] status = 404 -> "10004"
    [] status = 409 -> "10006"
    [] status = 422 -> CodeInvalidInput
    [] status = 500 -> CodeInternal

(* Variant: the code follows from the status alone. *)
ResolveErrorCodeByStatus(explicit, err, status) == DefaultCodeFromStatus(status)

(* An explicit code, else that of the error, else what the status stands for. *)
ResolveErrorCode(explicit, err, status) ==
  IF explicit /= None THEN explicit
  ELSE IF err \in AppError THEN err
  ELSE DefaultCodeFromStatus(status)

(* A response; and an exception on its way out. *)
Answer(status, code, id) ==
  [raised |-> None, status |-> status, code |-> code, id |-> id, header |-> None]

Raise(error) ==
  [raised |-> error, status |-> None, code |-> None, id |-> None, header |-> None]

Line(logger, id, status) == [logger |-> logger, id |-> id, status |-> status]

(* response_error answers, and logs the error if it is given one. *)
ErrorAnswer(status, explicit, err, id) ==
  Answer(status, ResolveErrorCode(explicit, err, status), id)

ErrorLine(status, err, id) == IF err = None THEN <<>> ELSE <<Line("app", id, status)>>

-----------------------------------------------------------------------------

Init ==
  /\ bodies \in BOOLEAN
  /\ req = [r \in Request |-> None]
  /\ ctx = [r \in Request |-> <<>>]
  /\ lines = [r \in Request |-> <<>>]

(* A request arrives.  Its context may hold what an earlier one left there: *)
(* uvicorn starts a pipelined request from the task of the one before it.   *)
Arrive(r) ==
  /\ req[r] = None
  /\ \E path \in {"api", "health"}, inbound \in Inbound \cup {None}, left \in Inbound \cup {None} :
       /\ req' = [req EXCEPT ![r] =
            [path |-> path, inbound |-> inbound, rid |-> None, at |-> 1, outcome |-> None,
             carries |-> None, due |-> FALSE]]
       /\ ctx' = [ctx EXCEPT ![r] = <<left>>]
  /\ lines' = [lines EXCEPT ![r] = <<>>]
  /\ UNCHANGED bodies

(* On the way in, these layers only call the next. *)
Pass(r) ==
  /\ \E layer \in {"server_error", "body_log", "exceptions"} : Down(r, layer)
  /\ req' = [req EXCEPT ![r].at = @ + 1]
  /\ UNCHANGED <<bodies, ctx, lines>>

(* Variant: the id is kept in a global variable. *)
EnterRequestContextGlobal(r) ==
  /\ Down(r, "request_context")
  /\ \E id \in IF req[r].inbound /= None THEN {req[r].inbound}
               ELSE {g \in Generated : \A q \in Request : req[q] /= None => req[q].rid /= g} :
       /\ req' = [req EXCEPT ![r].rid = id, ![r].at = @ + 1]
       /\ ctx' = [[q \in Request |-> [n \in DOMAIN ctx[q] |-> id]] EXCEPT ![r] = Append(@, id)]
  /\ UNCHANGED <<bodies, lines>>

(* The id the client sent, or a new one, goes into the context of the task, *)
(* and with it into the copy that call_next makes.                          *)
EnterRequestContext(r) ==
  /\ Down(r, "request_context")
  /\ \E id \in IF req[r].inbound /= None THEN {req[r].inbound}
               ELSE {g \in Generated : \A q \in Request : req[q] /= None => req[q].rid /= g} :
       /\ req' = [req EXCEPT ![r].rid = id, ![r].at = @ + 1]
       /\ ctx' = [ctx EXCEPT ![r] = Append([@ EXCEPT ![TaskAt(req[r].at)] = id], id)]
  /\ UNCHANGED <<bodies, lines>>

EnterAccessLog(r) ==
  /\ Down(r, "access_log")
  /\ req' = [req EXCEPT ![r].at = @ + 1]
  /\ ctx' = [ctx EXCEPT ![r] = Append(@, Last(@))]
  /\ UNCHANGED <<bodies, lines>>

(* What the route carries out: an exception on the way to the handler, or  *)
(* what it makes itself, with response_success or with _map_error for      *)
(* whatever its usecase raised.  /health has no envelope.                  *)
RouteAnswer(path, o, id) ==
  IF path = "health" THEN Answer(200, None, None)
  ELSE IF o.by = "exception" THEN Raise(o.error)
  ELSE IF o.error = None THEN Answer(200, CodeOk, id)
  ELSE IF o.error = "bug" THEN ErrorAnswer(500, None, o.error, id)
  ELSE ErrorAnswer(HttpStatus(o.error), o.error, o.error, id)

Outcomes(path) == IF path = "health" THEN {[by |-> "handler", error |-> None]} ELSE Outcome

(* Variant: _map_error does not pass the error on. *)
RouteMapsSilently(r) ==
  /\ req[r] /= None /\ req[r].carries = None
  /\ req[r].at = Len(Stack(bodies)) + 1
  /\ \E o \in Outcomes(req[r].path) :
       req' = [req EXCEPT ![r].outcome = o, ![r].at = @ - 1,
                 ![r].carries = RouteAnswer(req[r].path, o, RequestId(r, req[r].at))]
  /\ UNCHANGED <<bodies, ctx, lines>>

(* The route; a handler logs the error it maps. *)
Route(r) ==
  /\ req[r] /= None /\ req[r].carries = None
  /\ req[r].at = Len(Stack(bodies)) + 1
  /\ \E o \in Outcomes(req[r].path) :
       LET id == RequestId(r, req[r].at)
           status == IF o.error \in AppError THEN HttpStatus(o.error) ELSE 500
       IN  /\ req' = [req EXCEPT ![r].outcome = o, ![r].at = @ - 1,
                        ![r].carries = RouteAnswer(req[r].path, o, id)]
           /\ lines' = [lines EXCEPT ![r] = @ \o
                IF o.by = "handler" THEN ErrorLine(status, o.error, id) ELSE <<>>]
  /\ UNCHANGED <<bodies, ctx>>

(* The handlers of AppError and RequestValidationError, and FastAPI's for  *)
(* what the router raises, which knows nothing of the envelope.  Any other *)
(* exception goes on.                                                      *)
HandleException(r) ==
  /\ Up(r, "exceptions")
  /\ LET error == req[r].carries.raised
         id == RequestId(r, req[r].at)
         answer ==
           CASE error \in {None, "bug"} -> req[r].carries
             [] error = "validation" -> ErrorAnswer(422, CodeInvalidInput, None, id)
             [] error = "routing" -> Answer(404, None, None)
             [] OTHER -> ErrorAnswer(HttpStatus(error), error, error, id)
     IN  /\ req' = [req EXCEPT ![r].carries = answer, ![r].at = @ - 1]
         /\ lines' = [lines EXCEPT ![r] = @ \o
              IF error \in AppError THEN ErrorLine(HttpStatus(error), error, id) ELSE <<>>]
  /\ UNCHANGED <<bodies, ctx>>

(* The answer passes; the line about the bodies comes when all of it has.  *)
LeaveBodyLog(r) ==
  /\ Up(r, "body_log")
  /\ req' = [req EXCEPT ![r].at = @ - 1,
       ![r].due = req[r].carries.raised = None /\ req[r].path /= "health"]
  /\ UNCHANGED <<bodies, ctx, lines>>

(* Variant: only successes are logged. *)
LeaveAccessLogSuccesses(r) ==
  /\ Up(r, "access_log")
  /\ req' = [req EXCEPT ![r].at = @ - 1]
  /\ lines' = [lines EXCEPT ![r] = @ \o
       IF req[r].carries.status = 200 /\ req[r].path /= "health"
       THEN <<Line("access", RequestId(r, req[r].at), req[r].carries.status)>> ELSE <<>>]
  /\ UNCHANGED <<bodies, ctx>>

(* An exception leaves no line. *)
LeaveAccessLog(r) ==
  /\ Up(r, "access_log")
  /\ req' = [req EXCEPT ![r].at = @ - 1]
  /\ lines' = [lines EXCEPT ![r] = @ \o
       IF req[r].carries.raised = None /\ req[r].path /= "health"
       THEN <<Line("access", RequestId(r, req[r].at), req[r].carries.status)>> ELSE <<>>]
  /\ UNCHANGED <<bodies, ctx>>

(* Variant: an exception is caught here, and nothing is made of it. *)
LeaveRequestContextCatches(r) ==
  /\ Up(r, "request_context")
  /\ req[r].carries.raised = None
  /\ req' = [req EXCEPT ![r].at = @ - 1, ![r].carries.header = req[r].rid]
  /\ UNCHANGED <<bodies, ctx, lines>>

(* The header goes on an answer; an exception takes none along. *)
LeaveRequestContext(r) ==
  /\ Up(r, "request_context")
  /\ req' = [req EXCEPT ![r].at = @ - 1,
       ![r].carries.header = IF req[r].carries.raised = None THEN req[r].rid ELSE None]
  /\ UNCHANGED <<bodies, ctx, lines>>

(* Variant: nobody handles Exception. *)
LeaveServerErrorUnhandled(r) ==
  /\ Up(r, "server_error")
  /\ req' = [req EXCEPT ![r].at = 0]
  /\ UNCHANGED <<bodies, ctx, lines>>

(* ServerErrorMiddleware answers with the handler of Exception and raises  *)
(* again, which uvicorn logs.                                              *)
LeaveServerError(r) ==
  /\ Up(r, "server_error")
  /\ LET error == req[r].carries.raised
         id == RequestId(r, req[r].at)
     IN  IF error = None
         THEN req' = [req EXCEPT ![r].at = 0] /\ UNCHANGED lines
         ELSE /\ req' = [req EXCEPT ![r].at = 0,
                   ![r].carries = ErrorAnswer(500, CodeInternal, error, id)]
              /\ lines' = [lines EXCEPT ![r] = @ \o ErrorLine(500, error, id) \o
                   <<Line("uvicorn.error", id, None)>>]
  /\ UNCHANGED <<bodies, ctx>>

(* The innermost task goes on when the body of its answer has been taken   *)
(* from it: after the access log, and beside the layers outside of that.   *)
LogBodies(r) ==
  /\ req[r] /= None /\ req[r].due
  /\ \E n \in 1 .. Len(Stack(bodies)) : Stack(bodies)[n] = "access_log" /\ req[r].at < n
  /\ req' = [req EXCEPT ![r].due = FALSE]
  /\ lines' = [lines EXCEPT ![r] = Append(@, Line("http.body", Last(ctx[r]), None))]
  /\ UNCHANGED <<bodies, ctx>>

(* The client has the answer, and the task is over. *)
Finish(r) ==
  /\ req[r] /= None /\ req[r].at = 0 /\ ~req[r].due
  /\ req' = [req EXCEPT ![r] = None]
  /\ ctx' = [ctx EXCEPT ![r] = <<>>]
  /\ lines' = [lines EXCEPT ![r] = <<>>]
  /\ UNCHANGED bodies

Proceed(r) ==
  \/ Pass(r)
  \/ EnterRequestContext(r)
  \/ EnterAccessLog(r)
  \/ Route(r)
  \/ HandleException(r)
  \/ LeaveBodyLog(r)
  \/ LeaveAccessLog(r)
  \/ LeaveRequestContext(r)
  \/ LeaveServerError(r)
  \/ LogBodies(r)
  \/ Finish(r)

Next == \E r \in Request : Arrive(r) \/ Proceed(r)

Spec == Init /\ [][Next]_vars

(* The event loop runs every task; clients need not call. *)
FairSpec == Spec /\ \A r \in Request : WF_vars(Proceed(r))

-----------------------------------------------------------------------------
(* Properties                                                              *)

(* Every variable has its type; there are as many contexts as tasks have   *)
(* been started, and nothing leaves the outermost layer but an answer.     *)
TypeOK ==
  /\ bodies \in BOOLEAN
  /\ \A r \in Request :
       \/ req[r] = None /\ ctx[r] = <<>> /\ lines[r] = <<>>
       \/ /\ req[r] \in
               [path : {"api", "health"}, inbound : Inbound \cup {None}, rid : Id \cup {None},
                at : 0 .. (Len(Stack(bodies)) + 1), outcome : Outcome \cup {None},
                carries : Carried \cup {None}, due : BOOLEAN]
          /\ ctx[r] \in Seq(Id \cup {None}) /\ Len(ctx[r]) \in 1 .. 3
          /\ lines[r] \in Seq([logger : {"app", "access", "http.body", "uvicorn.error"},
                               id : Id \cup {None}, status : {None} \cup (200 .. 599)])
          /\ req[r].at = 0 => req[r].carries /= None /\ req[r].carries.raised = None

(* Whatever is said in the name of a request, in the log, in the envelope  *)
(* or in the header, bears its id: the one its client sent, or its own.    *)
IdsNeverCross ==
  \A r \in Request : req[r] /= None =>
    /\ \A n \in DOMAIN lines[r] : lines[r][n].id = req[r].rid
    /\ req[r].carries /= None =>
         /\ req[r].carries.id \in {None, req[r].rid}
         /\ req[r].carries.header \in {None, req[r].rid}

Count(r, logger, status) ==
  Cardinality({n \in DOMAIN lines[r] : lines[r][n].logger = logger /\ lines[r][n].status = status})

(* No request has two access lines, nor one that tells another status than *)
(* the client got; and only an exception that goes through the middlewares *)
(* can keep a request from having one.                                     *)
AccessLineTellsAnswer ==
  \A r \in Request : req[r] /= None /\ req[r].at = 0 /\ req[r].path = "api" =>
    LET passed == req[r].outcome = [by |-> "exception", error |-> "bug"]
        told == Count(r, "access", req[r].carries.status)
    IN  /\ told = 1 \/ (passed /\ told = 0)
        /\ \A n \in DOMAIN lines[r] :
             lines[r][n].logger = "access" => lines[r][n].status = req[r].carries.status

(* The service logs an error once, with the status of the answer, whichever *)
(* of the three places made the answer of it.  (uvicorn.error, which is not *)
(* counted, repeats what nobody handled.)                                   *)
ErrorLoggedOnce ==
  \A r \in Request : req[r] /= None /\ req[r].at = 0 =>
    LET error == req[r].outcome.error
    IN  /\ Count(r, "app", req[r].carries.status) =
             IF error \in {None, "validation", "routing"} THEN 0 ELSE 1
        /\ \A n \in DOMAIN lines[r] :
             lines[r][n].logger = "app" => lines[r][n].status = req[r].carries.status

(* The answer tells what came of the request: the status and the code of   *)
(* the error that was raised, wherever, and 500 for anything unexpected.   *)
AnswerTellsOutcome ==
  \A r \in Request : req[r] /= None /\ req[r].at = 0 /\ req[r].path = "api" =>
    LET error == req[r].outcome.error
    IN  <<req[r].carries.status, req[r].carries.code>> =
          CASE error = None -> <<200, CodeOk>>
            [] error = "bug" -> <<500, CodeInternal>>
            [] error = "validation" -> <<422, CodeInvalidInput>>
            [] error = "routing" -> <<404, None>>
            [] OTHER -> <<HttpStatus(error), error>>

(* Every request gets its answer, exceptions or not. *)
EveryRequestEnds == \A r \in Request : req[r] /= None ~> req[r] = None

(* One line per request: method, path, status, latency. *)
OneAccessLinePerRequest ==
  \A r \in Request : req[r] /= None /\ req[r].at = 0 /\ req[r].path = "api" =>
    Cardinality({n \in DOMAIN lines[r] : lines[r][n].logger = "access"}) = 1

(* Every response uses the standard envelope with a code and a request id. *)
EveryAnswerHasEnvelope ==
  \A r \in Request : req[r] /= None /\ req[r].at = 0 /\ req[r].path = "api" =>
    req[r].carries.code /= None /\ req[r].carries.id /= None

=============================================================================
