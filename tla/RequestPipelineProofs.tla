------------------------ MODULE RequestPipelineProofs ------------------------
(***************************************************************************)
(* The pipeline, for any number of overlapping requests and any ids: ids   *)
(* never cross, and answers and log lines tell what came of a request.     *)
(***************************************************************************)
EXTENDS RequestPipeline, FiniteSetTheorems, TLAPS

-----------------------------------------------------------------------------
(* The stack                                                               *)

(* How many layers there are. *)
Depth == Len(Stack(bodies))

(* Which layer is where, with and without the body log.                    *)
LEMMA StackIs ==
  ASSUME bodies \in BOOLEAN
  PROVE  /\ Depth = IF bodies THEN 5 ELSE 4
         /\ Stack(bodies)[1] = "server_error"
         /\ Stack(bodies)[2] = "request_context"
         /\ Stack(bodies)[3] = "access_log"
         /\ Stack(bodies)[4] = IF bodies THEN "body_log" ELSE "exceptions"
         /\ bodies => Stack(bodies)[5] = "exceptions"
<1>1. CASE bodies
  BY <1>1 DEF Stack, Depth
<1>2. CASE ~bodies
  BY <1>2 DEF Stack, Depth
<1> QED  BY <1>1, <1>2

(* There are at most three tasks, and the first up to the request context. *)
LEMMA TaskAtIs ==
  ASSUME bodies \in BOOLEAN, NEW n \in 1 .. (Depth + 1)
  PROVE  /\ TaskAt(n) \in 1 .. 3
         /\ n <= 2 => TaskAt(n) = 1
<1> DEFINE outside == {m \in 1 .. (n - 1) : m <= Len(Stack(bodies)) /\ Stack(bodies)[m] \in BaseHTTP}
<1>1. outside \subseteq 2 .. 3
  <2> SUFFICES ASSUME NEW m \in outside PROVE m \in 2 .. 3
    OBVIOUS
  <2>1. m \in 1 .. Depth /\ Stack(bodies)[m] \in {"request_context", "access_log"}
    BY DEF BaseHTTP, Depth
  <2> QED  BY <2>1, StackIs
<1>2. IsFiniteSet(2 .. 3) /\ Cardinality(2 .. 3) = 2
  <2>1. \A a, b \in Int :
          IsFiniteSet(a .. b) /\ Cardinality(a .. b) = IF a > b THEN 0 ELSE b - a + 1
    BY FS_Interval, Zenon
  <2>2. 2 \in Int /\ 3 \in Int
    OBVIOUS
  <2>3. IsFiniteSet(2 .. 3) /\ Cardinality(2 .. 3) = IF 2 > 3 THEN 0 ELSE 3 - 2 + 1
    BY <2>1, <2>2, Zenon
  <2> QED  BY <2>3
<1>3. Cardinality(outside) \in Nat /\ Cardinality(outside) <= 2
  <2>1. IsFiniteSet(outside) /\ Cardinality(outside) <= Cardinality(2 .. 3)
    BY <1>1, <1>2, FS_Subset
  <2> QED  BY <1>2, <2>1, FS_CardinalityType
<1>4. n <= 2 => outside = {}
  BY <1>1
<1>5. Cardinality({}) = 0
  BY FS_EmptySet
<1>6. TaskAt(n) = 1 + Cardinality(outside)
  BY DEF TaskAt
<1> HIDE DEF outside
<1> QED  BY <1>3, <1>4, <1>5, <1>6

-----------------------------------------------------------------------------
(* The invariant, of one request                                           *)

(* The fields of a request under way. *)
Known ==
  [path : {"api", "health"}, inbound : Inbound \cup {None}, rid : Id \cup {None},
   at : 0 .. (Depth + 1), outcome : Outcome \cup {None},
   carries : Carried \cup {None}, due : BOOLEAN]

(* The lines of the log. *)
LogLine ==
  [logger : {"app", "access", "http.body", "uvicorn.error"},
   id : Id \cup {None}, status : {None} \cup (200 .. 599)]

(* The status and the code that an error stands for. *)
StatusOf(error) ==
  CASE error = None -> 200
    [] error = "bug" -> 500
    [] error = "validation" -> 422
    [] error = "routing" -> 404
    [] OTHER -> HttpStatus(error)

CodeOf(error) ==
  CASE error = None -> CodeOk
    [] error = "bug" -> CodeInternal
    [] error = "validation" -> CodeInvalidInput
    [] error = "routing" -> None
    [] OTHER -> error

(* A request on its way in: a context for each task, and with the id once  *)
(* the request context was entered.                                        *)
Coming(x, c, l) ==
  /\ x \in Known /\ x.at >= 1 /\ x.carries = None /\ ~x.due
  /\ c \in Seq(Id \cup {None})
  /\ Len(c) = IF x.at <= 2 THEN 1 ELSE IF x.at = 3 THEN 2 ELSE 3
  /\ x.at > 2 => x.rid \in Id /\ \A n \in DOMAIN c : c[n] = x.rid
  /\ l = <<>>

(* An exception that nobody expected, past the handlers of the others.     *)
Passes(x) == x.outcome.by = "exception" /\ x.outcome.error = "bug"

(* What is carried out of the layers passed so far.                        *)
CarriesOutcome(x) ==
  IF x.at = Depth /\ x.outcome.by = "exception" THEN x.carries = Raise(x.outcome.error)
  ELSE IF x.at > 0 /\ Passes(x) THEN x.carries.raised = "bug"
  ELSE /\ x.carries.raised = None
       /\ x.path = "api" => /\ x.carries.status = StatusOf(x.outcome.error)
                            /\ x.carries.code = CodeOf(x.outcome.error)

(* There is one line of the logger if it has spoken, and else none.        *)
Once(l, logger, spoken, status) ==
  IF spoken
  THEN \E k \in DOMAIN l : /\ {n \in DOMAIN l : l[n].logger = logger} = {k}
                           /\ l[k].status = status
  ELSE {n \in DOMAIN l : l[n].logger = logger} = {}

(* Where the error has been logged, and where the access.                  *)
ErrorSaid(x) ==
  /\ x.outcome.error \notin {None, "validation", "routing"}
  /\ x.outcome.by = "handler" \/ (x.at < Depth /\ ~Passes(x)) \/ x.at = 0

AccessSaid(x) == x.at < 3 /\ x.path = "api" /\ ~Passes(x)

LinesTell(x, l) ==
  /\ l \in Seq(LogLine)
  /\ \A n \in DOMAIN l : l[n].id = x.rid
  /\ Once(l, "app", ErrorSaid(x), StatusOf(x.outcome.error))
  /\ Once(l, "access", AccessSaid(x), StatusOf(x.outcome.error))

(* A request on its way out.                                               *)
Going(x, c, l) ==
  /\ x \in Known /\ x.at <= Depth
  /\ x.carries \in Carried /\ x.outcome \in Outcome /\ x.rid \in Id
  /\ x.path = "health" => x.outcome.by = "handler" /\ x.outcome.error = None
  /\ c \in Seq(Id \cup {None}) /\ Len(c) = 3 /\ \A n \in DOMAIN c : c[n] = x.rid
  /\ x.carries.id \in {None, x.rid} /\ x.carries.header \in {None, x.rid}
  /\ CarriesOutcome(x)
  /\ LinesTell(x, l)

(* Every request is on its way in or out, or there is none.                *)
Inv ==
  /\ bodies \in BOOLEAN
  /\ DOMAIN req = Request /\ DOMAIN ctx = Request /\ DOMAIN lines = Request
  /\ \A r \in Request :
       \/ req[r] = None /\ ctx[r] = <<>> /\ lines[r] = <<>>
       \/ Coming(req[r], ctx[r], lines[r])
       \/ Going(req[r], ctx[r], lines[r])

-----------------------------------------------------------------------------
(* Log lines                                                               *)

(* A line of another logger leaves the count of this one as it was.        *)
LEMMA OthersLine ==
  ASSUME NEW l \in Seq(LogLine), NEW line \in LogLine, NEW logger, NEW spoken, NEW status,
         line.logger /= logger, Once(l, logger, spoken, status)
  PROVE  Once(Append(l, line), logger, spoken, status)
<1> DEFINE k == Append(l, line)
<1>1. /\ Len(l) \in Nat /\ DOMAIN l = 1 .. Len(l) /\ DOMAIN k = 1 .. (Len(l) + 1)
      /\ k[Len(l) + 1] = line
      /\ \A n \in DOMAIN l : k[n] = l[n]
  OBVIOUS
<1> HIDE DEF k
<1>2. {n \in DOMAIN k : k[n].logger = logger} = {n \in DOMAIN l : l[n].logger = logger}
  BY <1>1
<1>3. Once(k, logger, spoken, status)
  BY <1>1, <1>2 DEF Once
<1> QED  BY <1>3 DEF k

(* The first line of a logger is its only one.                             *)
LEMMA FirstLine ==
  ASSUME NEW l \in Seq(LogLine), NEW line \in LogLine, NEW old,
         Once(l, line.logger, FALSE, old)
  PROVE  Once(Append(l, line), line.logger, TRUE, line.status)
<1> DEFINE k == Append(l, line)
<1>1. /\ Len(l) \in Nat /\ DOMAIN l = 1 .. Len(l) /\ DOMAIN k = 1 .. (Len(l) + 1)
      /\ k[Len(l) + 1] = line
      /\ \A n \in DOMAIN l : k[n] = l[n]
  OBVIOUS
<1> HIDE DEF k
<1>2. {n \in DOMAIN l : l[n].logger = line.logger} = {}
  BY DEF Once
<1>3. {n \in DOMAIN k : k[n].logger = line.logger} = {Len(l) + 1}
  BY <1>1, <1>2
<1>4. Once(k, line.logger, TRUE, line.status)
  BY <1>1, <1>3 DEF Once
<1> QED  BY <1>4 DEF k

(* Lines that bear the id go on bearing it.                                *)
LEMMA LinesBear ==
  ASSUME NEW l \in Seq(LogLine), NEW line \in LogLine, NEW id, line.id = id,
         \A n \in DOMAIN l : l[n].id = id
  PROVE  /\ Append(l, line) \in Seq(LogLine)
         /\ \A n \in DOMAIN Append(l, line) : Append(l, line)[n].id = id
  OBVIOUS

-----------------------------------------------------------------------------
(* On the way in                                                           *)

(* A request that enters a layer is on its way in.                         *)
LEMMA DownIs ==
  ASSUME Inv, NEW r \in Request, NEW layer, Down(r, layer)
  PROVE  /\ Coming(req[r], ctx[r], lines[r])
         /\ req[r].at \in 1 .. Depth /\ Stack(bodies)[req[r].at] = layer
<1>1. req[r] /= None /\ req[r].carries = None /\ req[r].carries \notin Carried
  BY PipelineAssumption DEF Down
<1>2. ~Going(req[r], ctx[r], lines[r])
  BY <1>1 DEF Going
<1> QED  BY <1>1, <1>2 DEF Inv, Down, Depth

(* A request that leaves a layer is on its way out.                        *)
LEMMA UpIs ==
  ASSUME Inv, NEW r \in Request, NEW layer, Up(r, layer)
  PROVE  /\ Going(req[r], ctx[r], lines[r])
         /\ req[r].at \in 1 .. Depth /\ Stack(bodies)[req[r].at] = layer
<1>1. req[r] /= None /\ req[r].carries /= None
  BY DEF Up
<1>2. ~Coming(req[r], ctx[r], lines[r])
  BY <1>1 DEF Coming
<1> QED  BY <1>1, <1>2 DEF Inv, Up, Depth

(* A request arrives with one context and nothing known of it.             *)
LEMMA ArriveComes ==
  ASSUME Inv, NEW r \in Request, Arrive(r)
  PROVE  Coming(req'[r], ctx'[r], lines'[r])
<1>1. PICK path \in {"api", "health"}, inbound \in Inbound \cup {None},
           left \in Inbound \cup {None} :
        /\ req' = [req EXCEPT ![r] =
             [path |-> path, inbound |-> inbound, rid |-> None, at |-> 1, outcome |-> None,
              carries |-> None, due |-> FALSE]]
        /\ ctx' = [ctx EXCEPT ![r] = <<left>>]
        /\ lines' = [lines EXCEPT ![r] = <<>>]
  BY ZenonT(60) DEF Arrive
<1>2. /\ req'[r] = [path |-> path, inbound |-> inbound, rid |-> None, at |-> 1,
                    outcome |-> None, carries |-> None, due |-> FALSE]
      /\ ctx'[r] = <<left>>
      /\ lines'[r] = <<>>
  BY <1>1 DEF Inv
<1>3. Depth \in Nat /\ left \in Id \cup {None}
  BY StackIs DEF Inv, Id
<1> QED  BY <1>2, <1>3 DEF Coming, Known

(* Layers that only call the next leave everything but the place.          *)
LEMMA PassComes ==
  ASSUME Inv, NEW r \in Request, Pass(r)
  PROVE  Coming(req'[r], ctx'[r], lines'[r])
<1> DEFINE x == req[r]
<1>1. PICK layer \in {"server_error", "body_log", "exceptions"} : Down(r, layer)
  BY DEF Pass
<1>2. /\ Coming(x, ctx[r], lines[r])
      /\ x.at \in 1 .. Depth /\ Stack(bodies)[x.at] = layer
  BY <1>1, DownIs
<1>3. x.at \notin {2, 3}
  BY <1>2, StackIs DEF Inv
<1>4. /\ req'[r] = [x EXCEPT !.at = @ + 1]
      /\ ctx'[r] = ctx[r] /\ lines'[r] = lines[r]
  BY DEF Pass, Inv
<1>5. Depth \in Nat
  BY StackIs DEF Inv
<1> QED  BY <1>2, <1>3, <1>4, <1>5, SMTT(30) DEF Coming, Known

(* The request context puts the id in its own context and in the next.     *)
LEMMA EnterRequestContextComes ==
  ASSUME Inv, NEW r \in Request, EnterRequestContext(r)
  PROVE  Coming(req'[r], ctx'[r], lines'[r])
<1> DEFINE x == req[r]
<1>1. /\ Coming(x, ctx[r], lines[r])
      /\ x.at \in 1 .. Depth /\ Stack(bodies)[x.at] = "request_context"
  BY DownIs DEF EnterRequestContext
<1>2. x.at = 2 /\ TaskAt(x.at) = 1 /\ Depth \in 4 .. 5
  BY <1>1, StackIs, TaskAtIs DEF Inv
<1>3. PICK id \in Id :
        /\ req'[r] = [x EXCEPT !.rid = id, !.at = @ + 1]
        /\ ctx'[r] = Append([ctx[r] EXCEPT ![1] = id], id)
        /\ lines'[r] = lines[r]
  <2>1. PICK id \in IF x.inbound /= None THEN {x.inbound}
                    ELSE {g \in Generated : \A q \in Request : req[q] /= None => req[q].rid /= g} :
          /\ req'[r] = [x EXCEPT !.rid = id, !.at = @ + 1]
          /\ ctx'[r] = Append([ctx[r] EXCEPT ![TaskAt(x.at)] = id], id)
          /\ lines'[r] = lines[r]
    BY DEF EnterRequestContext, Inv
  <2>2. id \in Id
    BY <1>1, <2>1 DEF Coming, Known, Id
  <2> QED  BY <1>2, <2>1, <2>2
<1>4. ctx[r] \in Seq(Id \cup {None}) /\ Len(ctx[r]) = 1
  BY <1>1, <1>2 DEF Coming
<1>5. /\ ctx'[r] \in Seq(Id \cup {None}) /\ Len(ctx'[r]) = 2
      /\ \A n \in DOMAIN ctx'[r] : ctx'[r][n] = id
  BY <1>3, <1>4
<1> DEFINE y == req'[r]
<1>6. /\ y \in Known /\ y.at = 3 /\ y.rid = id /\ y.carries = None /\ ~y.due
      /\ lines'[r] = <<>>
  <2>1. /\ x \in Known /\ x.at = 2 /\ x.carries = None /\ ~x.due /\ lines'[r] = <<>>
        /\ y = [x EXCEPT !.rid = id, !.at = @ + 1]
    BY <1>1, <1>2, <1>3 DEF Coming
  <2> HIDE DEF x, y
  <2>2. /\ y.at = 3 /\ y.rid = id /\ y.path = x.path /\ y.inbound = x.inbound
        /\ y.outcome = x.outcome /\ y.carries = x.carries /\ y.due = x.due
    BY <2>1 DEF Known
  <2>3. y \in Known
    <3>1. x.at + 1 \in 0 .. (Depth + 1) /\ id \in Id \cup {None}
      BY <1>2, <2>1
    <3> HIDE DEF Depth
    <3> QED  BY <2>1, <3>1 DEF Known
  <2> QED  BY <2>1, <2>2, <2>3
<1> HIDE DEF x, y
<1>7. Coming(y, ctx'[r], lines'[r])
  BY <1>5, <1>6 DEF Coming
<1> QED  BY <1>7 DEF y

(* The access log runs what is inside in one more task.                    *)
LEMMA EnterAccessLogComes ==
  ASSUME Inv, NEW r \in Request, EnterAccessLog(r)
  PROVE  Coming(req'[r], ctx'[r], lines'[r])
<1> DEFINE x == req[r]
<1>1. /\ Coming(x, ctx[r], lines[r])
      /\ x.at \in 1 .. Depth /\ Stack(bodies)[x.at] = "access_log"
  BY DownIs DEF EnterAccessLog
<1>2. x.at = 3 /\ Depth \in 4 .. 5
  BY <1>1, StackIs DEF Inv
<1>3. /\ req'[r] = [x EXCEPT !.at = @ + 1]
      /\ ctx'[r] = Append(ctx[r], Last(ctx[r]))
      /\ lines'[r] = lines[r]
  BY DEF EnterAccessLog, Inv
<1>4. /\ ctx[r] \in Seq(Id \cup {None}) /\ Len(ctx[r]) = 2
      /\ \A n \in DOMAIN ctx[r] : ctx[r][n] = x.rid
  BY <1>1, <1>2 DEF Coming
<1>5. Last(ctx[r]) = x.rid
  BY <1>4 DEF Last
<1>6. /\ ctx'[r] \in Seq(Id \cup {None}) /\ Len(ctx'[r]) = 3
      /\ \A n \in DOMAIN ctx'[r] : ctx'[r][n] = x.rid
  BY <1>3, <1>4, <1>5, SMTT(30)
<1> DEFINE y == [x EXCEPT !.at = @ + 1]
<1>7. x \in Known /\ x.carries = None /\ ~x.due /\ x.rid \in Id /\ lines[r] = <<>>
  BY <1>1, <1>2 DEF Coming
<1>8. /\ y.at = 4 /\ y.rid = x.rid /\ y.carries = x.carries /\ y.due = x.due
  BY <1>2, <1>7 DEF Known
<1>9. y \in Known
  <2>1. x.at + 1 \in 0 .. (Depth + 1)
    BY <1>2
  <2> HIDE DEF x, Depth
  <2> QED  BY <1>7, <2>1 DEF Known
<1>10. req'[r] = y
  BY <1>3
<1> HIDE DEF x, y
<1>11. Coming(y, ctx'[r], lines'[r])
  BY <1>3, <1>6, <1>7, <1>8, <1>9 DEF Coming
<1> QED  BY <1>10, <1>11

-----------------------------------------------------------------------------
(* Answers                                                                 *)

(* Every error has a status of its class, and is none of the strings that  *)
(* stand for other outcomes.                                               *)
LEMMA ErrorsHaveStatus ==
  ASSUME NEW error \in AppError
  PROVE  /\ HttpStatus(error) \in {400, 401, 403, 404, 409}
         /\ error \notin {None, "bug", "validation", "routing"}
         /\ StatusOf(error) = HttpStatus(error) /\ CodeOf(error) = error
<1>1. /\ HttpStatus(error) \in {400, 401, 403, 404, 409}
      /\ error \notin {None, "bug", "validation", "routing"}
  BY PipelineAssumption DEF AppError, HttpStatus
<1> QED  BY <1>1 DEF StatusOf, CodeOf

(* An answer keeps what it is made of.                                     *)
LEMMA AnswerIs ==
  ASSUME NEW status \in {None, 200, 400, 401, 403, 404, 409, 422, 500},
         NEW code \in {None, CodeOk, CodeInternal, CodeInvalidInput} \cup AppError,
         NEW id \in Id \cup {None}
  PROVE  /\ Answer(status, code, id) \in Carried
         /\ Answer(status, code, id).raised = None /\ Answer(status, code, id).header = None
         /\ Answer(status, code, id).status = status /\ Answer(status, code, id).code = code
         /\ Answer(status, code, id).id = id
  BY DEF Answer, Carried

(* An exception has no answer yet.                                         *)
LEMMA RaiseIs ==
  ASSUME NEW error \in {None, "bug", "validation", "routing"} \cup AppError
  PROVE  /\ Raise(error) \in Carried /\ Raise(error).raised = error
         /\ Raise(error).id = None /\ Raise(error).header = None
  BY DEF Raise, Carried

(* The code of an error answer is that of the error, or what is passed.    *)
LEMMA ErrorAnswerIs ==
  ASSUME NEW id
  PROVE  /\ \A error \in AppError :
              ErrorAnswer(HttpStatus(error), error, error, id) = Answer(HttpStatus(error), error, id)
         /\ ErrorAnswer(500, None, "bug", id) = Answer(500, CodeInternal, id)
         /\ \A error : ErrorAnswer(500, CodeInternal, error, id) = Answer(500, CodeInternal, id)
         /\ ErrorAnswer(422, CodeInvalidInput, None, id) = Answer(422, CodeInvalidInput, id)
<1>1. \A error \in AppError : ResolveErrorCode(error, error, HttpStatus(error)) = error
  BY PipelineAssumption DEF ResolveErrorCode
<1>2. ResolveErrorCode(None, "bug", 500) = CodeInternal
  BY DEF ResolveErrorCode, DefaultCodeFromStatus, AppError
<1>3. \A error : ResolveErrorCode(CodeInternal, error, 500) = CodeInternal
  BY PipelineAssumption DEF ResolveErrorCode
<1>4. ResolveErrorCode(CodeInvalidInput, None, 422) = CodeInvalidInput
  BY PipelineAssumption DEF ResolveErrorCode
<1> QED  BY <1>1, <1>2, <1>3, <1>4 DEF ErrorAnswer

(* The outcomes of a route, by their two fields.                           *)
LEMMA OutcomeIs ==
  ASSUME NEW o \in Outcome
  PROVE  /\ o.by \in {"handler", "exception"}
         /\ o.by = "handler" => o.error \in {None, "bug"} \cup AppError
         /\ o.by = "exception" => o.error \in {"validation", "routing", "bug"} \cup AppError
         /\ StatusOf(o.error) \in {200, 400, 401, 403, 404, 409, 422, 500}
<1>1. /\ o.by \in {"handler", "exception"}
      /\ o.by = "handler" => o.error \in {None, "bug"} \cup AppError
      /\ o.by = "exception" => o.error \in {"validation", "routing", "bug"} \cup AppError
  BY DEF Outcome, AppError
<1>2. /\ StatusOf(None) = 200 /\ StatusOf("bug") = 500
      /\ StatusOf("validation") = 422 /\ StatusOf("routing") = 404
  BY PipelineAssumption DEF StatusOf
<1>3. \A error \in AppError : StatusOf(error) \in {400, 401, 403, 404, 409}
  BY ErrorsHaveStatus
<1> QED  BY <1>1, <1>2, <1>3

(* The route carries the exception, or the answer its outcome stands for.  *)
LEMMA RouteAnswerIs ==
  ASSUME NEW path \in {"api", "health"}, NEW o \in Outcome, NEW id \in Id,
         path = "health" => o.by = "handler" /\ o.error = None
  PROVE  /\ RouteAnswer(path, o, id) \in Carried
         /\ RouteAnswer(path, o, id).id \in {None, id}
         /\ RouteAnswer(path, o, id).header = None
         /\ o.by = "exception" => RouteAnswer(path, o, id) = Raise(o.error)
         /\ o.by = "handler" =>
              /\ RouteAnswer(path, o, id).raised = None
              /\ path = "api" => /\ RouteAnswer(path, o, id).status = StatusOf(o.error)
                                 /\ RouteAnswer(path, o, id).code = CodeOf(o.error)
<1>1. CASE path = "health"
  <2>1. RouteAnswer(path, o, id) = Answer(200, None, None)
    BY <1>1 DEF RouteAnswer
  <2> QED  BY <1>1, <2>1, AnswerIs
<1>2. CASE path = "api" /\ o.by = "exception"
  <2>1. RouteAnswer(path, o, id) = Raise(o.error)
    BY <1>2 DEF RouteAnswer
  <2>2. o.error \in {None, "bug", "validation", "routing"} \cup AppError
    BY <1>2, OutcomeIs
  <2> QED  BY <1>2, <2>1, <2>2, RaiseIs
<1>3. CASE path = "api" /\ o.by = "handler" /\ o.error = None
  <2>1. RouteAnswer(path, o, id) = Answer(200, CodeOk, id)
    BY <1>3 DEF RouteAnswer
  <2>2. StatusOf(o.error) = 200 /\ CodeOf(o.error) = CodeOk
    BY <1>3, PipelineAssumption DEF StatusOf, CodeOf
  <2>3. /\ Answer(200, CodeOk, id) \in Carried
        /\ Answer(200, CodeOk, id).raised = None /\ Answer(200, CodeOk, id).header = None
        /\ Answer(200, CodeOk, id).status = 200 /\ Answer(200, CodeOk, id).code = CodeOk
        /\ Answer(200, CodeOk, id).id = id
    BY AnswerIs
  <2> QED  BY <1>3, <2>1, <2>2, <2>3
<1>4. CASE path = "api" /\ o.by = "handler" /\ o.error = "bug"
  <2>1. RouteAnswer(path, o, id) = Answer(500, CodeInternal, id)
    BY <1>4, ErrorAnswerIs, PipelineAssumption DEF RouteAnswer
  <2>2. StatusOf(o.error) = 500 /\ CodeOf(o.error) = CodeInternal
    BY <1>4, PipelineAssumption DEF StatusOf, CodeOf
  <2> QED  BY <1>4, <2>1, <2>2, AnswerIs
<1>5. CASE path = "api" /\ o.by = "handler" /\ o.error \in AppError
  <2>1. /\ HttpStatus(o.error) \in {400, 401, 403, 404, 409}
        /\ o.error \notin {None, "bug"}
        /\ StatusOf(o.error) = HttpStatus(o.error) /\ CodeOf(o.error) = o.error
    BY <1>5, ErrorsHaveStatus
  <2>2. RouteAnswer(path, o, id) = Answer(HttpStatus(o.error), o.error, id)
    BY <1>5, <2>1, ErrorAnswerIs DEF RouteAnswer
  <2> QED  BY <1>5, <2>1, <2>2, AnswerIs
<1> QED  BY <1>1, <1>2, <1>3, <1>4, <1>5, OutcomeIs

-----------------------------------------------------------------------------
(* On the way out                                                          *)

(* Past the access log every layer's id is that of the request.            *)
LEMMA IdOfLayer ==
  ASSUME Inv, NEW r \in Request, NEW n \in 1 .. (Depth + 1), NEW id,
         ctx[r] \in Seq(Id \cup {None}), Len(ctx[r]) = 3,
         \A k \in DOMAIN ctx[r] : ctx[r][k] = id
  PROVE  RequestId(r, n) = id
<1>1. TaskAt(n) \in 1 .. 3
  BY TaskAtIs DEF Inv
<1> HIDE DEF Depth
<1> QED  BY <1>1 DEF RequestId

(* One more line is one appended.                                          *)
LEMMA OneMoreLine ==
  ASSUME NEW l \in Seq(LogLine), NEW line \in LogLine
  PROVE  l \o <<line>> = Append(l, line)
  OBVIOUS

(* The route ends the way in.                                              *)
LEMMA RouteGoes ==
  ASSUME Inv, NEW r \in Request, Route(r)
  PROVE  Going(req'[r], ctx'[r], lines'[r])
<1> DEFINE x == req[r]
<1> DEFINE y == req'[r]
<1>1. /\ Coming(x, ctx[r], lines[r]) /\ x.at = Depth + 1 /\ Depth \in 4 .. 5
  <2>1. x /= None /\ x.carries = None /\ x.carries \notin Carried /\ x.at = Depth + 1
    BY PipelineAssumption DEF Route, Depth
  <2>2. ~Going(x, ctx[r], lines[r])
    BY <2>1 DEF Going
  <2> QED  BY <2>1, <2>2, StackIs DEF Inv
<1>2. /\ x \in Known /\ x.rid \in Id /\ lines[r] = <<>>
      /\ ctx[r] \in Seq(Id \cup {None}) /\ Len(ctx[r]) = 3
      /\ \A n \in DOMAIN ctx[r] : ctx[r][n] = x.rid
  BY <1>1 DEF Coming
<1>3. RequestId(r, x.at) = x.rid
  <2>1. x.at \in 1 .. (Depth + 1)
    BY <1>1
  <2> HIDE DEF x, Depth
  <2> QED  BY <1>2, <2>1, IdOfLayer
<1>4. PICK o \in Outcome :
        /\ x.path = "health" => o.by = "handler" /\ o.error = None
        /\ y = [x EXCEPT !.outcome = o, !.carries = RouteAnswer(x.path, o, x.rid), !.at = @ - 1]
        /\ lines'[r] = lines[r] \o
             IF o.by = "handler"
             THEN ErrorLine(IF o.error \in AppError THEN HttpStatus(o.error) ELSE 500, o.error, x.rid)
             ELSE <<>>
        /\ ctx'[r] = ctx[r]
  <2>1. [by |-> "handler", error |-> None] \in Outcome
    BY DEF Outcome
  <2>2. PICK o \in Outcomes(x.path) :
          /\ req' = [req EXCEPT ![r].outcome = o, ![r].at = @ - 1,
                      ![r].carries = RouteAnswer(x.path, o, RequestId(r, x.at))]
          /\ lines' = [lines EXCEPT ![r] = @ \o
               IF o.by = "handler"
               THEN ErrorLine(IF o.error \in AppError THEN HttpStatus(o.error) ELSE 500, o.error,
                              RequestId(r, x.at))
               ELSE <<>>]
          /\ ctx' = ctx
    BY DEF Route
  <2>3. o \in Outcome /\ (x.path = "health" => o.by = "handler" /\ o.error = None)
    <3> HIDE DEF Outcome, x
    <3> QED  BY <2>1 DEF Outcomes
  <2> QED  BY <1>3, <2>2, <2>3 DEF Inv
<1> DEFINE a == RouteAnswer(x.path, o, x.rid)
<1>5. x.path \in {"api", "health"}
  BY <1>2 DEF Known
<1>6. /\ a \in Carried /\ a.id \in {None, x.rid} /\ a.header = None
      /\ o.by = "exception" => a = Raise(o.error)
      /\ o.by = "handler" =>
           /\ a.raised = None
           /\ x.path = "api" => a.status = StatusOf(o.error) /\ a.code = CodeOf(o.error)
  BY <1>2, <1>4, <1>5, RouteAnswerIs
<1> HIDE DEF a
<1>7. /\ y.path = x.path /\ y.rid = x.rid /\ y.outcome = o /\ y.carries = a /\ y.at = Depth
  BY <1>1, <1>2, <1>4 DEF Known, a
<1>8. y \in Known
  <2>1. x.at - 1 \in 0 .. (Depth + 1)
    BY <1>1
  <2> HIDE DEF x, y, Depth
  <2> QED  BY <1>2, <1>4, <1>6, <2>1 DEF Known, a
<1>9. LinesTell(y, lines'[r])
  <2>1. /\ o.by \in {"handler", "exception"}
        /\ o.by = "handler" => o.error \in {None, "bug"} \cup AppError
    BY OutcomeIs
  <2>2. ErrorSaid(y) <=> o.by = "handler" /\ o.error /= None
    BY <1>1, <1>7, <2>1, ErrorsHaveStatus, PipelineAssumption DEF ErrorSaid, Passes
  <2>3. ~AccessSaid(y)
    BY <1>1, <1>7 DEF AccessSaid
  <2>4. /\ <<>> \in Seq(LogLine)
        /\ \A logger, status : Once(<<>>, logger, FALSE, status)
    BY DEF Once
  <2>5. CASE ~ErrorSaid(y)
    <3>1. lines'[r] = <<>>
      BY <1>2, <1>4, <2>2, <2>5, <2>1 DEF ErrorLine
    <3>2. /\ ErrorSaid(y) = FALSE /\ AccessSaid(y) = FALSE
          /\ \A n \in DOMAIN lines'[r] : lines'[r][n].id = y.rid
      BY <2>3, <2>5, <3>1 DEF ErrorSaid, AccessSaid
    <3> HIDE DEF y
    <3> QED  BY <2>4, <3>1, <3>2 DEF LinesTell
  <2>6. CASE ErrorSaid(y)
    <3> DEFINE line == Line("app", x.rid, StatusOf(o.error))
    <3>1. /\ StatusOf(o.error) \in 200 .. 599
          /\ (IF o.error \in AppError THEN HttpStatus(o.error) ELSE 500) = StatusOf(o.error)
      <4>1. StatusOf("bug") = 500 /\ "bug" \notin AppError
        BY PipelineAssumption DEF StatusOf, AppError
      <4> QED  BY <2>1, <2>2, <2>6, <4>1, ErrorsHaveStatus
    <3>2. line \in LogLine /\ line.logger = "app" /\ line.id = x.rid
          /\ line.status = StatusOf(o.error)
      BY <1>2, <3>1 DEF Line, LogLine
    <3>3. lines'[r] = Append(<<>>, line)
      <4>1. lines'[r] = <<>> \o <<line>>
        BY <1>2, <1>4, <2>2, <2>6, <3>1 DEF ErrorLine
      <4> QED  BY <2>4, <3>2, <4>1, OneMoreLine
    <3> HIDE DEF line
    <3>4. Once(Append(<<>>, line), "app", TRUE, StatusOf(o.error))
      BY <2>4, <3>2, FirstLine
    <3>5. Once(Append(<<>>, line), "access", FALSE, StatusOf(o.error))
      BY <2>4, <3>2, OthersLine
    <3>6. /\ Append(<<>>, line) \in Seq(LogLine)
          /\ \A n \in DOMAIN Append(<<>>, line) : Append(<<>>, line)[n].id = x.rid
      BY <2>4, <3>2, LinesBear
    <3>7. ErrorSaid(y) = TRUE /\ AccessSaid(y) = FALSE
      BY <2>3, <2>6 DEF ErrorSaid, AccessSaid
    <3> QED  BY <1>7, <3>3, <3>4, <3>5, <3>6, <3>7 DEF LinesTell
  <2> QED  BY <2>5, <2>6
<1>10. CarriesOutcome(y)
  <2>1. o.by \in {"handler", "exception"}
    BY OutcomeIs
  <2> QED  BY <1>1, <1>6, <1>7, <2>1 DEF CarriesOutcome, Passes
<1>11. /\ y.path = "health" => y.outcome.by = "handler" /\ y.outcome.error = None
       /\ y.at <= Depth
  BY <1>1, <1>4, <1>7
<1> HIDE DEF x, y
<1>12. Going(y, ctx'[r], lines'[r])
  BY <1>2, <1>4, <1>6, <1>7, <1>8, <1>9, <1>10, <1>11 DEF Going
<1> QED  BY <1>12 DEF y

(* Where the layers are on the way out.                                    *)
LEMMA Places ==
  ASSUME Inv, NEW r \in Request, NEW layer, Up(r, layer)
  PROVE  /\ Going(req[r], ctx[r], lines[r]) /\ Depth \in 4 .. 5
         /\ req[r].at \in 1 .. Depth
         /\ layer = "server_error" => req[r].at = 1
         /\ layer = "request_context" => req[r].at = 2
         /\ layer = "access_log" => req[r].at = 3
         /\ layer = "body_log" => req[r].at = 4 /\ Depth = 5
         /\ layer = "exceptions" => req[r].at = Depth
         /\ RequestId(r, req[r].at) = req[r].rid
<1>1. /\ Going(req[r], ctx[r], lines[r])
      /\ req[r].at \in 1 .. Depth /\ Stack(bodies)[req[r].at] = layer
  BY UpIs
<1>2. RequestId(r, req[r].at) = req[r].rid
  <2>1. req[r].at \in 1 .. (Depth + 1)
    BY <1>1, StackIs DEF Inv
  <2> HIDE DEF Depth
  <2> QED  BY <1>1, <2>1, IdOfLayer DEF Going
<1> QED  BY <1>1, <1>2, StackIs DEF Inv

(* k is l with one more line, of this logger.                              *)
Adds(k, l, logger, id, status) ==
  /\ k \in Seq(LogLine)
  /\ \A n \in DOMAIN k : k[n].id = id
  /\ \A old : Once(l, logger, FALSE, old) => Once(k, logger, TRUE, status)
  /\ \A other, spoken, said :
       other /= logger /\ Once(l, other, spoken, said) => Once(k, other, spoken, said)

(* The first line of a logger, about this request, beside those of others. *)
LEMMA LineAdds ==
  ASSUME NEW l \in Seq(LogLine), NEW id \in Id, NEW status \in {None} \cup (200 .. 599),
         NEW logger \in {"app", "access", "http.body", "uvicorn.error"},
         \A n \in DOMAIN l : l[n].id = id
  PROVE  Adds(l \o <<Line(logger, id, status)>>, l, logger, id, status)
<1> DEFINE line == Line(logger, id, status)
<1>1. line \in LogLine /\ line.logger = logger /\ line.id = id /\ line.status = status
  BY DEF Line, LogLine
<1> HIDE DEF line
<1>2. l \o <<line>> = Append(l, line)
  BY <1>1, OneMoreLine
<1>3. /\ Append(l, line) \in Seq(LogLine)
      /\ \A n \in DOMAIN Append(l, line) : Append(l, line)[n].id = id
  BY <1>1, LinesBear
<1>4. \A old : Once(l, logger, FALSE, old) => Once(Append(l, line), logger, TRUE, status)
  BY <1>1, FirstLine
<1>5. \A other, spoken, said :
        other /= logger /\ Once(l, other, spoken, said) => Once(Append(l, line), other, spoken, said)
  BY <1>1, OthersLine
<1>6. Adds(l \o <<line>>, l, logger, id, status)
  BY <1>2, <1>3, <1>4, <1>5 DEF Adds
<1> QED  BY <1>6 DEF line

(* The handlers of exceptions make answers of all but the unexpected ones. *)
LEMMA HandleExceptionGoes ==
  ASSUME Inv, NEW r \in Request, HandleException(r)
  PROVE  Going(req'[r], ctx'[r], lines'[r])
<1> DEFINE x == req[r]
<1> DEFINE y == req'[r]
<1> DEFINE error == x.carries.raised
<1>1. /\ Going(x, ctx[r], lines[r]) /\ Depth \in 4 .. 5
      /\ x.at = Depth /\ RequestId(r, x.at) = x.rid
  BY Places DEF HandleException
<1> DEFINE answer ==
      CASE error \in {None, "bug"} -> x.carries
        [] error = "validation" -> ErrorAnswer(422, CodeInvalidInput, None, x.rid)
        [] error = "routing" -> Answer(404, None, None)
        [] OTHER -> ErrorAnswer(HttpStatus(error), error, error, x.rid)
<1>2. /\ y = [x EXCEPT !.carries = answer, !.at = @ - 1]
      /\ ctx'[r] = ctx[r]
      /\ lines'[r] = lines[r] \o
           IF error \in AppError THEN ErrorLine(HttpStatus(error), error, x.rid) ELSE <<>>
  BY <1>1 DEF HandleException, Inv
<1>3. /\ x \in Known /\ x.rid \in Id /\ x.outcome \in Outcome /\ x.carries \in Carried
      /\ x.carries.id \in {None, x.rid} /\ x.carries.header \in {None, x.rid}
      /\ x.path = "health" => x.outcome.by = "handler" /\ x.outcome.error = None
      /\ CarriesOutcome(x) /\ LinesTell(x, lines[r])
  BY <1>1 DEF Going
<1>4. /\ x.outcome.by \in {"handler", "exception"}
      /\ x.outcome.by = "exception" =>
           x.outcome.error \in {"validation", "routing", "bug"} \cup AppError
  BY <1>3, OutcomeIs
<1>5. /\ x.outcome.by = "handler" => error = None
      /\ x.outcome.by = "exception" => error = x.outcome.error
      /\ x.outcome.by = "handler" /\ x.path = "api" =>
           /\ x.carries.status = StatusOf(x.outcome.error)
           /\ x.carries.code = CodeOf(x.outcome.error)
  BY <1>1, <1>3, <1>4 DEF CarriesOutcome, Passes, Raise
<1>6. /\ answer \in Carried
      /\ answer.id \in {None, x.rid} /\ answer.header \in {None, x.rid}
      /\ IF error = "bug" THEN answer.raised = "bug"
         ELSE /\ answer.raised = None
              /\ x.path = "api" => /\ answer.status = StatusOf(x.outcome.error)
                                   /\ answer.code = CodeOf(x.outcome.error)
  <2>1. CASE error \in {None, "bug"}
    <3>1. answer = x.carries
      BY <2>1, PipelineAssumption
    <3> HIDE DEF answer
    <3> QED  BY <1>3, <1>4, <1>5, <2>1, <3>1, PipelineAssumption DEF AppError
  <2>2. CASE error = "validation"
    <3>1. answer = Answer(422, CodeInvalidInput, x.rid)
      BY <2>2, ErrorAnswerIs, PipelineAssumption
    <3>2. StatusOf("validation") = 422 /\ CodeOf("validation") = CodeInvalidInput
      BY PipelineAssumption DEF StatusOf, CodeOf
    <3>3. x.outcome.error = "validation"
      BY <1>4, <1>5, <2>2, PipelineAssumption
    <3> DEFINE a == Answer(422, CodeInvalidInput, x.rid)
    <3>4. /\ a \in Carried /\ a.raised = None /\ a.header = None
          /\ a.status = 422 /\ a.code = CodeInvalidInput /\ a.id = x.rid
      BY <1>3, AnswerIs
    <3> HIDE DEF answer, a, error
    <3> QED  BY <2>2, <3>1, <3>2, <3>3, <3>4 DEF a
  <2>3. CASE error = "routing"
    <3>1. answer = Answer(404, None, None)
      BY <2>3, PipelineAssumption
    <3>2. StatusOf("routing") = 404 /\ CodeOf("routing") = None
      BY PipelineAssumption DEF StatusOf, CodeOf
    <3>3. x.outcome.error = "routing"
      BY <1>4, <1>5, <2>3, PipelineAssumption
    <3> HIDE DEF answer
    <3> QED  BY <1>3, <2>3, <3>1, <3>2, <3>3, AnswerIs
  <2>4. CASE error \in AppError
    <3>1. /\ HttpStatus(error) \in {400, 401, 403, 404, 409}
          /\ error \notin {None, "bug", "validation", "routing"}
          /\ StatusOf(error) = HttpStatus(error) /\ CodeOf(error) = error
      BY <2>4, ErrorsHaveStatus
    <3>2. answer = Answer(HttpStatus(error), error, x.rid)
      BY <2>4, <3>1, ErrorAnswerIs
    <3>3. x.outcome.error = error
      BY <1>4, <1>5, <3>1
    <3> DEFINE a == Answer(HttpStatus(error), error, x.rid)
    <3>4. /\ a \in Carried /\ a.raised = None /\ a.header = None
          /\ a.status = HttpStatus(error) /\ a.code = error /\ a.id = x.rid
      BY <1>3, <2>4, <3>1, AnswerIs
    <3> HIDE DEF answer, a, error
    <3> QED  BY <3>1, <3>2, <3>3, <3>4 DEF a
  <2> QED  BY <1>4, <1>5, <2>1, <2>2, <2>3, <2>4
<1> HIDE DEF answer
<1>7. /\ y.path = x.path /\ y.rid = x.rid /\ y.outcome = x.outcome
      /\ y.carries = answer /\ y.at = Depth - 1
  BY <1>1, <1>2, <1>3 DEF Known
<1>8. y \in Known
  <2>1. x.at - 1 \in 0 .. (Depth + 1)
    BY <1>1
  <2> HIDE DEF x, y, Depth
  <2> QED  BY <1>2, <1>3, <1>6, <2>1 DEF Known
<1>9. CarriesOutcome(y)
  <2> HIDE DEF x, y
  <2> QED  BY <1>1, <1>4, <1>5, <1>6, <1>7, PipelineAssumption DEF CarriesOutcome, Passes
<1>10. LinesTell(y, lines'[r])
  <2>1. ErrorSaid(x) <=> x.outcome.by = "handler" /\ x.outcome.error /= None
    <3>1. /\ x.outcome.by = "handler" => x.outcome.error \in {None, "bug"} \cup AppError
          /\ x.at = Depth /\ Depth \in 4 .. 5
      BY <1>1, <1>3, OutcomeIs
    <3>2. \A e \in {"bug"} \cup AppError : e \notin {None, "validation", "routing"}
      BY ErrorsHaveStatus, PipelineAssumption
    <3> HIDE DEF x, error, Depth
    <3> QED  BY <3>1, <3>2 DEF ErrorSaid, Passes
  <2>2. AccessSaid(x) = FALSE /\ AccessSaid(y) = FALSE
    BY <1>1, <1>7 DEF AccessSaid
  <2>3. CASE error \in AppError
    <3>1. /\ HttpStatus(error) \in {400, 401, 403, 404, 409}
          /\ error \notin {None, "bug", "validation", "routing"}
          /\ StatusOf(error) = HttpStatus(error)
      BY <2>3, ErrorsHaveStatus
    <3>2. x.outcome.by = "exception" /\ x.outcome.error = error
      BY <1>4, <1>5, <3>1
    <3>3. ErrorSaid(x) = FALSE /\ ErrorSaid(y) = TRUE
      BY <1>1, <1>7, <2>1, <3>1, <3>2 DEF ErrorSaid, Passes
    <3>4. lines'[r] = lines[r] \o <<Line("app", x.rid, HttpStatus(error))>>
      BY <1>2, <2>3, <3>1 DEF ErrorLine
    <3> DEFINE k == lines[r] \o <<Line("app", x.rid, HttpStatus(error))>>
    <3>5. /\ k \in Seq(LogLine)
          /\ \A n \in DOMAIN k : k[n].id = x.rid
          /\ Once(k, "app", TRUE, HttpStatus(error))
          /\ Once(k, "access", FALSE, StatusOf(x.outcome.error))
      <4>1. /\ lines[r] \in Seq(LogLine) /\ \A n \in DOMAIN lines[r] : lines[r][n].id = x.rid
            /\ Once(lines[r], "app", FALSE, StatusOf(x.outcome.error))
            /\ Once(lines[r], "access", FALSE, StatusOf(x.outcome.error))
        BY <1>3, <2>2, <3>3 DEF LinesTell
      <4>2. HttpStatus(error) \in {None} \cup (200 .. 599)
        BY <3>1
      <4>3. /\ k \in Seq(LogLine)
            /\ \A n \in DOMAIN k : k[n].id = x.rid
            /\ \A old : Once(lines[r], "app", FALSE, old) => Once(k, "app", TRUE, HttpStatus(error))
            /\ \A other, spoken, said :
                 other /= "app" /\ Once(lines[r], other, spoken, said)
                   => Once(k, other, spoken, said)
        <5> HIDE DEF x, error
        <5>1. Adds(k, lines[r], "app", x.rid, HttpStatus(error))
          BY <1>3, <4>1, <4>2, LineAdds
        <5> QED  BY <5>1 DEF Adds
      <4> HIDE DEF x, error, k
      <4> QED  BY <4>1, <4>3
    <3> HIDE DEF k
    <3>6. lines'[r] = k
      BY <3>4 DEF k
    <3>7. y.rid = x.rid /\ y.outcome = x.outcome /\ StatusOf(y.outcome.error) = HttpStatus(error)
      BY <1>7, <3>1, <3>2
    <3> HIDE DEF x, y, error
    <3>8. Once(k, "app", ErrorSaid(y), StatusOf(y.outcome.error))
      BY <3>3, <3>5, <3>7
    <3>9. Once(k, "access", AccessSaid(y), StatusOf(y.outcome.error))
      BY <2>2, <3>5, <3>7
    <3> QED  BY <3>5, <3>6, <3>7, <3>8, <3>9 DEF LinesTell
  <2>4. CASE error \notin AppError
    <3>1. lines'[r] = lines[r]
      BY <1>2, <1>3, <2>4 DEF LinesTell
    <3>2. ErrorSaid(y) = ErrorSaid(x)
      BY <1>1, <1>3, <1>4, <1>5, <1>7, <2>1, <2>4, OutcomeIs, ErrorsHaveStatus,
         PipelineAssumption DEF ErrorSaid, Passes
    <3> HIDE DEF x, y
    <3> QED  BY <1>3, <1>7, <2>2, <3>1, <3>2 DEF LinesTell
  <2> QED  BY <2>3, <2>4
<1>11. y.at <= Depth
  BY <1>1, <1>7
<1> HIDE DEF x, y
<1>12. Going(y, ctx'[r], lines'[r])
  BY <1>1, <1>2, <1>3, <1>6, <1>7, <1>8, <1>9, <1>10, <1>11 DEF Going
<1> QED  BY <1>12 DEF y

(* What a request on its way out is known to be.                           *)
LEMMA GoingIs ==
  ASSUME NEW x, NEW c, NEW l, Going(x, c, l)
  PROVE  /\ x \in Known /\ x.rid \in Id /\ x.outcome \in Outcome /\ x.carries \in Carried
         /\ x.carries.id \in {None, x.rid} /\ x.carries.header \in {None, x.rid}
         /\ x.path = "health" => x.outcome.by = "handler" /\ x.outcome.error = None
         /\ l \in Seq(LogLine) /\ \A n \in DOMAIN l : l[n].id = x.rid
         /\ Once(l, "app", ErrorSaid(x), StatusOf(x.outcome.error))
         /\ Once(l, "access", AccessSaid(x), StatusOf(x.outcome.error))
         /\ StatusOf(x.outcome.error) \in 200 .. 599
<1>1. StatusOf(x.outcome.error) \in 200 .. 599
  <2>1. x.outcome \in Outcome
    BY DEF Going
  <2>2. StatusOf(x.outcome.error) \in {200, 400, 401, 403, 404, 409, 422, 500}
    BY <2>1, OutcomeIs
  <2> QED  BY <2>2
<1> QED  BY <1>1 DEF Going, LinesTell

(* The body log notes that a line is due, and lets the answer pass.        *)
LEMMA LeaveBodyLogGoes ==
  ASSUME Inv, NEW r \in Request, LeaveBodyLog(r)
  PROVE  Going(req'[r], ctx'[r], lines'[r])
<1> DEFINE x == req[r]
<1> DEFINE y == req'[r]
<1>1. Going(x, ctx[r], lines[r]) /\ Depth = 5 /\ x.at = 4
  BY Places DEF LeaveBodyLog
<1>2. /\ y = [x EXCEPT !.at = @ - 1, !.due = x.carries.raised = None /\ x.path /= "health"]
      /\ ctx'[r] = ctx[r] /\ lines'[r] = lines[r]
  BY DEF LeaveBodyLog, Inv
<1>3. x \in Known
  BY <1>1, GoingIs
<1> DEFINE due == x.carries.raised = None /\ x.path /= "health"
<1>4. due \in BOOLEAN /\ 3 \in 0 .. (Depth + 1)
  BY <1>1
<1>5. y = [x EXCEPT !.at = 3, !.due = due]
  BY <1>1, <1>2
<1> HIDE DEF x, y, due, Depth
<1>6. /\ y.path = x.path /\ y.rid = x.rid /\ y.outcome = x.outcome /\ y.carries = x.carries
      /\ y.at = 3 /\ y \in Known
  BY <1>3, <1>4, <1>5 DEF Known
<1>7. CarriesOutcome(y)
  BY <1>1, <1>6 DEF Going, CarriesOutcome, Passes
<1>8. ErrorSaid(y) = ErrorSaid(x) /\ AccessSaid(y) = AccessSaid(x)
  BY <1>1, <1>6 DEF ErrorSaid, AccessSaid, Passes
<1>9. LinesTell(y, lines'[r])
  BY <1>1, <1>2, <1>6, <1>8 DEF Going, LinesTell
<1>10. Going(y, ctx'[r], lines'[r])
  BY <1>1, <1>2, <1>6, <1>7, <1>9 DEF Going
<1> QED  BY <1>10 DEF y

(* The access log says one line, unless an exception goes through.         *)
LEMMA LeaveAccessLogGoes ==
  ASSUME Inv, NEW r \in Request, LeaveAccessLog(r)
  PROVE  Going(req'[r], ctx'[r], lines'[r])
<1> DEFINE x == req[r]
<1> DEFINE y == req'[r]
<1>1. /\ Going(x, ctx[r], lines[r]) /\ Depth \in 4 .. 5 /\ x.at = 3
      /\ RequestId(r, x.at) = x.rid
  BY Places DEF LeaveAccessLog
<1> DEFINE answered == x.carries.raised = None /\ x.path /= "health"
<1> DEFINE k == lines[r] \o <<Line("access", x.rid, x.carries.status)>>
<1>2. /\ y = [x EXCEPT !.at = @ - 1]
      /\ ctx'[r] = ctx[r]
      /\ lines'[r] = lines[r] \o
           IF answered THEN <<Line("access", x.rid, x.carries.status)>> ELSE <<>>
  BY <1>1 DEF LeaveAccessLog, Inv
<1>3. x \in Known /\ x.path \in {"api", "health"}
  BY <1>1, GoingIs DEF Known
<1>4. y = [x EXCEPT !.at = 2] /\ 2 \in 0 .. (Depth + 1)
  BY <1>1, <1>2
<1>5. lines'[r] = IF answered THEN k ELSE lines[r]
  <2>1. lines[r] \in Seq(LogLine)
    BY <1>1, GoingIs
  <2>2. lines[r] \o <<>> = lines[r]
    BY <2>1
  <2> QED  BY <1>2, <2>2
<1> HIDE DEF x, y, k
<1>6. /\ y.path = x.path /\ y.rid = x.rid /\ y.outcome = x.outcome /\ y.carries = x.carries
      /\ y.at = 2 /\ y \in Known
  <2> HIDE DEF Depth
  <2> QED  BY <1>3, <1>4 DEF Known
<1>7. CarriesOutcome(y)
  BY <1>1, <1>6 DEF Going, CarriesOutcome, Passes
<1>8. /\ ErrorSaid(y) = ErrorSaid(x) /\ AccessSaid(x) = FALSE
      /\ answered => AccessSaid(y) = TRUE /\ x.carries.status = StatusOf(x.outcome.error)
      /\ ~answered => AccessSaid(y) = FALSE
  <2>1. ErrorSaid(y) = ErrorSaid(x) /\ AccessSaid(x) = FALSE
    BY <1>1, <1>6 DEF ErrorSaid, AccessSaid, Passes
  <2>2. IF Passes(x) THEN x.carries.raised = "bug"
        ELSE /\ x.carries.raised = None
             /\ x.path = "api" => x.carries.status = StatusOf(x.outcome.error)
    BY <1>1 DEF Going, CarriesOutcome
  <2>3. answered <=> x.path = "api" /\ ~Passes(x)
    BY <1>3, <2>2, PipelineAssumption
  <2>4. (AccessSaid(y) = TRUE) <=> (x.path = "api" /\ ~Passes(x))
    BY <1>6 DEF AccessSaid, Passes
  <2>5. AccessSaid(y) \in BOOLEAN
    BY DEF AccessSaid
  <2> HIDE DEF answered
  <2> QED  BY <2>1, <2>2, <2>3, <2>4, <2>5
<1>9. LinesTell(y, lines'[r])
  <2>1. CASE ~answered
    <3>1. lines'[r] = lines[r] /\ AccessSaid(y) = AccessSaid(x)
      BY <1>5, <1>8, <2>1
    <3> QED  BY <1>1, <1>6, <1>8, <3>1 DEF Going, LinesTell
  <2>2. CASE answered
    <3>1. /\ lines[r] \in Seq(LogLine) /\ x.rid \in Id
          /\ \A n \in DOMAIN lines[r] : lines[r][n].id = x.rid
          /\ x.carries.status \in {None} \cup (200 .. 599)
          /\ Once(lines[r], "app", ErrorSaid(x), StatusOf(x.outcome.error))
          /\ Once(lines[r], "access", FALSE, StatusOf(x.outcome.error))
      <4>1. /\ lines[r] \in Seq(LogLine) /\ x.rid \in Id
            /\ \A n \in DOMAIN lines[r] : lines[r][n].id = x.rid
            /\ StatusOf(x.outcome.error) \in 200 .. 599
            /\ Once(lines[r], "app", ErrorSaid(x), StatusOf(x.outcome.error))
            /\ Once(lines[r], "access", AccessSaid(x), StatusOf(x.outcome.error))
        BY <1>1, GoingIs
      <4> QED  BY <1>8, <2>2, <4>1
    <3>2. /\ k \in Seq(LogLine)
          /\ \A n \in DOMAIN k : k[n].id = x.rid
          /\ Once(k, "access", TRUE, x.carries.status)
          /\ Once(k, "app", ErrorSaid(x), StatusOf(x.outcome.error))
      <4>1. /\ k \in Seq(LogLine)
            /\ \A n \in DOMAIN k : k[n].id = x.rid
            /\ \A old : Once(lines[r], "access", FALSE, old)
                 => Once(k, "access", TRUE, x.carries.status)
            /\ \A other, spoken, said :
                 other /= "access" /\ Once(lines[r], other, spoken, said)
                   => Once(k, other, spoken, said)
        <5>1. Adds(k, lines[r], "access", x.rid, x.carries.status)
          BY <3>1, LineAdds DEF k
        <5> QED  BY <5>1 DEF Adds
      <4> HIDE DEF answered
      <4> QED  BY <3>1, <4>1
    <3> QED  BY <1>5, <1>6, <1>8, <2>2, <3>2 DEF LinesTell
  <2> QED  BY <2>1, <2>2
<1>10. Going(y, ctx'[r], lines'[r])
  BY <1>1, <1>2, <1>6, <1>7, <1>9 DEF Going
<1> QED  BY <1>10 DEF y

(* The request context puts the id on an answer.                           *)
LEMMA LeaveRequestContextGoes ==
  ASSUME Inv, NEW r \in Request, LeaveRequestContext(r)
  PROVE  Going(req'[r], ctx'[r], lines'[r])
<1> DEFINE x == req[r]
<1> DEFINE y == req'[r]
<1>1. Going(x, ctx[r], lines[r]) /\ Depth \in 4 .. 5 /\ x.at = 2
  BY Places DEF LeaveRequestContext
<1> DEFINE header == IF x.carries.raised = None THEN x.rid ELSE None
<1> DEFINE a == [x.carries EXCEPT !.header = header]
<1>2. /\ y = [x EXCEPT !.at = @ - 1, !.carries.header = header]
      /\ ctx'[r] = ctx[r] /\ lines'[r] = lines[r]
  BY DEF LeaveRequestContext, Inv
<1>3. /\ x \in Known /\ x.carries \in Carried /\ x.rid \in Id
      /\ x.carries.id \in {None, x.rid}
  BY <1>1, GoingIs
<1>4. y = [x EXCEPT !.at = 1, !.carries = a] /\ 1 \in 0 .. (Depth + 1)
  BY <1>1, <1>2
<1>5. header \in {None, x.rid} /\ header \in Id \cup {None}
  BY <1>3
<1> HIDE DEF x, y, header
<1>6. /\ a \in Carried /\ a.raised = x.carries.raised /\ a.status = x.carries.status
      /\ a.code = x.carries.code /\ a.id = x.carries.id /\ a.header = header
  BY <1>3, <1>5 DEF Carried
<1> HIDE DEF a
<1>7. /\ y.path = x.path /\ y.rid = x.rid /\ y.outcome = x.outcome /\ y.carries = a
      /\ y.at = 1 /\ y \in Known
  <2> HIDE DEF Depth
  <2> QED  BY <1>3, <1>4, <1>6 DEF Known
<1>8. CarriesOutcome(y)
  BY <1>1, <1>6, <1>7 DEF Going, CarriesOutcome, Passes
<1>9. ErrorSaid(y) = ErrorSaid(x) /\ AccessSaid(y) = AccessSaid(x)
  BY <1>1, <1>7 DEF ErrorSaid, AccessSaid, Passes
<1>10. LinesTell(y, lines'[r])
  BY <1>1, <1>2, <1>7, <1>9 DEF Going, LinesTell
<1>11. Going(y, ctx'[r], lines'[r])
  BY <1>1, <1>2, <1>3, <1>5, <1>6, <1>7, <1>8, <1>10 DEF Going
<1> QED  BY <1>11 DEF y

(* The outermost layer answers what nobody expected, and says so.          *)
LEMMA LeaveServerErrorGoes ==
  ASSUME Inv, NEW r \in Request, LeaveServerError(r)
  PROVE  Going(req'[r], ctx'[r], lines'[r])
<1> DEFINE x == req[r]
<1> DEFINE y == req'[r]
<1> DEFINE error == x.carries.raised
<1>1. /\ Going(x, ctx[r], lines[r]) /\ Depth \in 4 .. 5 /\ x.at = 1
      /\ RequestId(r, x.at) = x.rid
  BY Places DEF LeaveServerError
<1>2. /\ ctx'[r] = ctx[r]
      /\ IF error = None
         THEN y = [x EXCEPT !.at = 0] /\ lines'[r] = lines[r]
         ELSE /\ y = [x EXCEPT !.at = 0,
                        !.carries = ErrorAnswer(500, CodeInternal, error, x.rid)]
              /\ lines'[r] = lines[r] \o ErrorLine(500, error, x.rid) \o
                   <<Line("uvicorn.error", x.rid, None)>>
  <2>1. CASE error = None
    BY <1>1, <2>1 DEF LeaveServerError, Inv
  <2>2. CASE error /= None
    <3> DEFINE id == RequestId(r, x.at)
    <3>1. /\ req' = [req EXCEPT ![r].at = 0,
                ![r].carries = ErrorAnswer(500, CodeInternal, error, id)]
          /\ lines' = [lines EXCEPT ![r] = lines[r] \o ErrorLine(500, error, id) \o
                <<Line("uvicorn.error", id, None)>>]
          /\ ctx' = ctx
      BY <2>2, Zenon DEF LeaveServerError
    <3>2. id = x.rid /\ DOMAIN req = Request /\ DOMAIN lines = Request
      BY <1>1 DEF Inv
    <3> HIDE DEF id
    <3> QED  BY <2>2, <3>1, <3>2
  <2> QED  BY <2>1, <2>2
<1>3. /\ x \in Known /\ x.carries \in Carried /\ x.rid \in Id /\ x.path \in {"api", "health"}
      /\ x.outcome \in Outcome
  BY <1>1, GoingIs DEF Known
<1>4. IF Passes(x) THEN error = "bug"
      ELSE /\ error = None
           /\ x.path = "api" => /\ x.carries.status = StatusOf(x.outcome.error)
                                /\ x.carries.code = CodeOf(x.outcome.error)
  BY <1>1 DEF Going, CarriesOutcome
<1>5. CASE ~Passes(x)
  <2>1. y = [x EXCEPT !.at = 0] /\ lines'[r] = lines[r]
    BY <1>2, <1>4, <1>5
  <2>2. 0 \in 0 .. (Depth + 1)
    BY <1>1
  <2> HIDE DEF x, y
  <2>3. /\ y.path = x.path /\ y.rid = x.rid /\ y.outcome = x.outcome /\ y.carries = x.carries
        /\ y.at = 0 /\ y \in Known
    <3> HIDE DEF Depth
    <3> QED  BY <1>3, <2>1, <2>2 DEF Known
  <2>4. CarriesOutcome(y)
    BY <1>1, <1>4, <1>5, <2>3 DEF CarriesOutcome
  <2>5. ErrorSaid(y) = ErrorSaid(x) /\ AccessSaid(y) = AccessSaid(x)
    BY <1>1, <1>5, <2>3 DEF ErrorSaid, AccessSaid, Passes
  <2>6. LinesTell(y, lines'[r])
    BY <1>1, <2>1, <2>3, <2>5 DEF Going, LinesTell
  <2>7. Going(y, ctx'[r], lines'[r])
    BY <1>1, <1>2, <2>3, <2>4, <2>6 DEF Going
  <2> QED  BY <2>7 DEF y
<1>6. CASE Passes(x)
  <2> DEFINE a == Answer(500, CodeInternal, x.rid)
  <2> DEFINE l == lines[r]
  <2> DEFINE k == l \o <<Line("app", x.rid, 500)>>
  <2> DEFINE m == k \o <<Line("uvicorn.error", x.rid, None)>>
  <2>1. error = "bug" /\ error /= None
    BY <1>4, <1>6, PipelineAssumption
  <2>2. y = [x EXCEPT !.at = 0, !.carries = a] /\ lines'[r] = m
    <3>1. ErrorAnswer(500, CodeInternal, error, x.rid) = a
      BY ErrorAnswerIs
    <3>2. ErrorLine(500, error, x.rid) = <<Line("app", x.rid, 500)>>
      BY <2>1 DEF ErrorLine
    <3> QED  BY <1>2, <2>1, <3>1, <3>2, ZenonT(60)
  <2>3. /\ a \in Carried /\ a.raised = None /\ a.header = None
        /\ a.status = 500 /\ a.code = CodeInternal /\ a.id = x.rid
    <3>1. /\ x.rid \in Id \cup {None}
          /\ 500 \in {None, 200, 400, 401, 403, 404, 409, 422, 500}
          /\ CodeInternal \in {None, CodeOk, CodeInternal, CodeInvalidInput} \cup AppError
      BY <1>3
    <3> HIDE DEF x
    <3> QED  BY <3>1, AnswerIs
  <2>4. /\ x.outcome.by = "exception" /\ x.outcome.error = "bug" /\ "bug" /= None
        /\ StatusOf("bug") = 500 /\ CodeOf("bug") = CodeInternal
    BY <1>6, PipelineAssumption DEF Passes, StatusOf, CodeOf
  <2>5. 0 \in 0 .. (Depth + 1)
    BY <1>1
  <2>6. /\ l \in Seq(LogLine) /\ \A n \in DOMAIN l : l[n].id = x.rid
        /\ Once(l, "app", FALSE, 500) /\ Once(l, "access", FALSE, 500)
    <3>1. ErrorSaid(x) = FALSE /\ AccessSaid(x) = FALSE
      BY <1>1, <1>6, <2>4 DEF ErrorSaid, AccessSaid, Passes
    <3>2. /\ l \in Seq(LogLine) /\ \A n \in DOMAIN l : l[n].id = x.rid
          /\ Once(l, "app", ErrorSaid(x), StatusOf(x.outcome.error))
          /\ Once(l, "access", AccessSaid(x), StatusOf(x.outcome.error))
      BY <1>1, GoingIs
    <3>3. StatusOf(x.outcome.error) = 500
      BY <2>4
    <3> HIDE DEF x, l
    <3> QED  BY <3>1, <3>2, <3>3
  <2> HIDE DEF x, y, a, l, error
  <2>7. /\ k \in Seq(LogLine) /\ \A n \in DOMAIN k : k[n].id = x.rid
        /\ Once(k, "app", TRUE, 500) /\ Once(k, "access", FALSE, 500)
    <3>1. /\ k \in Seq(LogLine) /\ \A n \in DOMAIN k : k[n].id = x.rid
          /\ \A old : Once(l, "app", FALSE, old) => Once(k, "app", TRUE, 500)
          /\ \A other, spoken, said :
               other /= "app" /\ Once(l, other, spoken, said) => Once(k, other, spoken, said)
      <4>1. 500 \in {None} \cup (200 .. 599)
        OBVIOUS
      <4>2. Adds(k, l, "app", x.rid, 500)
        <5>1. \A status \in {None} \cup (200 .. 599) :
                Adds(l \o <<Line("app", x.rid, status)>>, l, "app", x.rid, status)
          BY <1>3, <2>6, LineAdds, ZenonT(60)
        <5> QED  BY <4>1, <5>1, Zenon DEF k
      <4> QED  BY <4>2 DEF Adds
    <3> HIDE DEF k
    <3> QED  BY <2>6, <3>1, ZenonT(60)
  <2> HIDE DEF k
  <2>8. /\ m \in Seq(LogLine) /\ \A n \in DOMAIN m : m[n].id = x.rid
        /\ Once(m, "app", TRUE, 500) /\ Once(m, "access", FALSE, 500)
    <3>1. /\ m \in Seq(LogLine) /\ \A n \in DOMAIN m : m[n].id = x.rid
          /\ \A other, spoken, said :
               other /= "uvicorn.error" /\ Once(k, other, spoken, said)
                 => Once(m, other, spoken, said)
      <4>1. Adds(m, k, "uvicorn.error", x.rid, None)
        BY <1>3, <2>7, LineAdds, ZenonT(60)
      <4> QED  BY <4>1 DEF Adds
    <3> HIDE DEF m
    <3> QED  BY <2>7, <3>1, ZenonT(60)
  <2> HIDE DEF m
  <2>9. /\ y.path = x.path /\ y.rid = x.rid /\ y.outcome = x.outcome /\ y.carries = a
        /\ y.at = 0 /\ y \in Known
    <3> HIDE DEF Depth
    <3> QED  BY <1>3, <2>2, <2>3, <2>5 DEF Known
  <2>10. CarriesOutcome(y)
    BY <1>1, <2>3, <2>4, <2>9 DEF CarriesOutcome
  <2>11. ErrorSaid(y) = TRUE /\ AccessSaid(y) = FALSE
    BY <2>4, <2>9 DEF ErrorSaid, AccessSaid, Passes
  <2>12. LinesTell(y, m)
    <3>1. StatusOf(y.outcome.error) = 500 /\ y.rid = x.rid
      BY <2>4, <2>9
    <3> QED  BY <2>8, <2>11, <3>1 DEF LinesTell
  <2>13. Going(y, ctx'[r], lines'[r])
    BY <1>1, <1>2, <2>2, <2>3, <2>9, <2>10, <2>12 DEF Going
  <2> QED  BY <2>13 DEF y
<1> QED  BY <1>5, <1>6

(* The line about the bodies bears the id too, and counts for nothing else. *)
LEMMA LogBodiesGoes ==
  ASSUME Inv, NEW r \in Request, LogBodies(r)
  PROVE  Going(req'[r], ctx'[r], lines'[r])
<1> DEFINE x == req[r]
<1> DEFINE y == req'[r]
<1> DEFINE k == lines[r] \o <<Line("http.body", x.rid, None)>>
<1>1. Going(x, ctx[r], lines[r])
  <2>1. x /= None /\ x.due
    BY DEF LogBodies
  <2> QED  BY <2>1 DEF Inv, Coming
<1>2. Last(ctx[r]) = x.rid
  BY <1>1 DEF Going, Last
<1>3. /\ y = [x EXCEPT !.due = FALSE] /\ ctx'[r] = ctx[r]
      /\ lines'[r] = Append(lines[r], Line("http.body", x.rid, None))
  BY <1>2 DEF LogBodies, Inv
<1>4. x \in Known /\ x.rid \in Id
  BY <1>1, GoingIs
<1>5. lines'[r] = k
  <2>1. lines[r] \in Seq(LogLine) /\ Line("http.body", x.rid, None) \in LogLine
    BY <1>1, <1>4, GoingIs DEF Line, LogLine
  <2> QED  BY <1>3, <2>1, OneMoreLine
<1> HIDE DEF x, y
<1>6. /\ k \in Seq(LogLine) /\ \A n \in DOMAIN k : k[n].id = x.rid
      /\ Once(k, "app", ErrorSaid(x), StatusOf(x.outcome.error))
      /\ Once(k, "access", AccessSaid(x), StatusOf(x.outcome.error))
  <2>1. /\ lines[r] \in Seq(LogLine) /\ \A n \in DOMAIN lines[r] : lines[r][n].id = x.rid
        /\ Once(lines[r], "app", ErrorSaid(x), StatusOf(x.outcome.error))
        /\ Once(lines[r], "access", AccessSaid(x), StatusOf(x.outcome.error))
    BY <1>1, GoingIs
  <2>2. x.rid \in Id /\ None \in {None} \cup (200 .. 599)
    BY <1>4
  <2>3. /\ k \in Seq(LogLine) /\ \A n \in DOMAIN k : k[n].id = x.rid
        /\ \A other, spoken, said :
             other /= "http.body" /\ Once(lines[r], other, spoken, said)
               => Once(k, other, spoken, said)
    <3>1. Adds(k, lines[r], "http.body", x.rid, None)
      BY <2>1, <2>2, LineAdds
    <3> QED  BY <3>1 DEF Adds
  <2> HIDE DEF k
  <2> QED  BY <2>1, <2>3
<1> HIDE DEF k
<1>7. /\ y.path = x.path /\ y.rid = x.rid /\ y.outcome = x.outcome /\ y.carries = x.carries
      /\ y.at = x.at /\ y \in Known
  <2> HIDE DEF Depth
  <2> QED  BY <1>3, <1>4 DEF Known
<1>8. CarriesOutcome(y) /\ ErrorSaid(y) = ErrorSaid(x) /\ AccessSaid(y) = AccessSaid(x)
  BY <1>1, <1>7 DEF Going, CarriesOutcome, ErrorSaid, AccessSaid, Passes
<1>9. LinesTell(y, k)
  BY <1>6, <1>7, <1>8 DEF LinesTell
<1>10. Going(y, ctx'[r], lines'[r])
  BY <1>1, <1>3, <1>5, <1>7, <1>8, <1>9 DEF Going
<1> QED  BY <1>10 DEF y

-----------------------------------------------------------------------------
(* The invariant                                                           *)

(* What a step leaves of its request is one of the three kinds.            *)
LEMMA StepKeeps ==
  ASSUME Inv, NEW r \in Request, Arrive(r) \/ Proceed(r)
  PROVE  \/ req'[r] = None /\ ctx'[r] = <<>> /\ lines'[r] = <<>>
         \/ Coming(req'[r], ctx'[r], lines'[r])
         \/ Going(req'[r], ctx'[r], lines'[r])
<1>1. CASE Arrive(r)
  BY <1>1, ArriveComes
<1>2. CASE Pass(r)
  BY <1>2, PassComes
<1>3. CASE EnterRequestContext(r)
  BY <1>3, EnterRequestContextComes
<1>4. CASE EnterAccessLog(r)
  BY <1>4, EnterAccessLogComes
<1>5. CASE Route(r)
  BY <1>5, RouteGoes
<1>6. CASE HandleException(r)
  BY <1>6, HandleExceptionGoes
<1>7. CASE LeaveBodyLog(r)
  BY <1>7, LeaveBodyLogGoes
<1>8. CASE LeaveAccessLog(r)
  BY <1>8, LeaveAccessLogGoes
<1>9. CASE LeaveRequestContext(r)
  BY <1>9, LeaveRequestContextGoes
<1>10. CASE LeaveServerError(r)
  BY <1>10, LeaveServerErrorGoes
<1>11. CASE LogBodies(r)
  BY <1>11, LogBodiesGoes
<1>12. CASE Finish(r)
  BY <1>12 DEF Finish, Inv
<1> QED
  BY <1>1, <1>2, <1>3, <1>4, <1>5, <1>6, <1>7, <1>8, <1>9, <1>10, <1>11, <1>12, Zenon
  DEF Proceed

(* A step is about one request, and touches nothing of another.            *)
LEMMA OthersStay ==
  ASSUME Inv, NEW r \in Request, Arrive(r) \/ Proceed(r)
  PROVE  /\ bodies' = bodies
         /\ DOMAIN req' = Request /\ DOMAIN ctx' = Request /\ DOMAIN lines' = Request
         /\ \A q \in Request \ {r} : req'[q] = req[q] /\ ctx'[q] = ctx[q] /\ lines'[q] = lines[q]
<1> DEFINE Aside ==
      /\ bodies' = bodies
      /\ DOMAIN req' = Request /\ DOMAIN ctx' = Request /\ DOMAIN lines' = Request
      /\ \A q \in Request \ {r} : req'[q] = req[q] /\ ctx'[q] = ctx[q] /\ lines'[q] = lines[q]
<1> USE DEF Inv
<1>1. CASE Arrive(r)
  BY <1>1 DEF Arrive
<1>2. CASE Pass(r)
  BY <1>2 DEF Pass
<1>3. CASE EnterRequestContext(r)
  BY <1>3 DEF EnterRequestContext
<1>4. CASE EnterAccessLog(r)
  BY <1>4 DEF EnterAccessLog
<1>5. CASE Route(r)
  BY <1>5 DEF Route
<1>6. CASE HandleException(r)
  BY <1>6 DEF HandleException
<1>7. CASE LeaveBodyLog(r)
  BY <1>7 DEF LeaveBodyLog
<1>8. CASE LeaveAccessLog(r)
  BY <1>8 DEF LeaveAccessLog
<1>9. CASE LeaveRequestContext(r)
  BY <1>9 DEF LeaveRequestContext
<1>10. CASE LeaveServerError(r)
  BY <1>10 DEF LeaveServerError
<1>11. CASE LogBodies(r)
  BY <1>11 DEF LogBodies
<1>12. CASE Finish(r)
  BY <1>12 DEF Finish
<1>13. Aside
  <2> HIDE DEF Aside
  <2> QED
    BY <1>1, <1>2, <1>3, <1>4, <1>5, <1>6, <1>7, <1>8, <1>9, <1>10, <1>11, <1>12 DEF Proceed, Aside
<1> QED  BY <1>13

(* The depth does not change, and with it nothing that is said in its terms. *)
LEMMA SameDepth ==
  ASSUME bodies' = bodies, NEW q
  PROVE  /\ Coming(req'[q], ctx'[q], lines'[q]) => Coming(req[q], ctx[q], lines[q])'
         /\ Going(req'[q], ctx'[q], lines'[q]) => Going(req[q], ctx[q], lines[q])'
<1>1. Depth' = Depth
  BY DEF Depth, Stack
<1>2. Known' = Known
  BY <1>1 DEF Known
<1>3. Coming(req'[q], ctx'[q], lines'[q]) => Coming(req[q], ctx[q], lines[q])'
  BY <1>2 DEF Coming
<1>4. CarriesOutcome(req'[q]) <=> CarriesOutcome(req[q])'
  BY <1>1 DEF CarriesOutcome
<1>5. ErrorSaid(req'[q]) <=> ErrorSaid(req[q])'
  BY <1>1 DEF ErrorSaid
<1>6. LinesTell(req'[q], lines'[q]) => LinesTell(req[q], lines[q])'
  BY <1>5 DEF LinesTell, Once, AccessSaid, Passes
<1>7. Going(req'[q], ctx'[q], lines'[q]) => Going(req[q], ctx[q], lines[q])'
  BY <1>1, <1>2, <1>4, <1>6 DEF Going
<1> QED  BY <1>3, <1>7

(* The invariant holds before any request.                                 *)
LEMMA InvInit == Init => Inv
  BY DEF Init, Inv

(* Every step keeps the invariant.                                         *)
LEMMA InvNext == Inv /\ [Next]_vars => Inv'
<1> SUFFICES ASSUME Inv, [Next]_vars PROVE Inv'
  OBVIOUS
<1>1. ASSUME NEW r \in Request, Arrive(r) \/ Proceed(r) PROVE Inv'
  <2>1. /\ bodies' = bodies
        /\ DOMAIN req' = Request /\ DOMAIN ctx' = Request /\ DOMAIN lines' = Request
        /\ \A q \in Request \ {r} : req'[q] = req[q] /\ ctx'[q] = ctx[q] /\ lines'[q] = lines[q]
    BY <1>1, OthersStay
  <2>2. ASSUME NEW q \in Request
        PROVE  \/ req'[q] = None /\ ctx'[q] = <<>> /\ lines'[q] = <<>>
               \/ Coming(req'[q], ctx'[q], lines'[q])
               \/ Going(req'[q], ctx'[q], lines'[q])
    <3>1. CASE q = r
      BY <1>1, <3>1, StepKeeps
    <3>2. CASE q /= r
      BY <2>1, <3>2 DEF Inv
    <3> QED  BY <3>1, <3>2
  <2> QED  BY <2>1, <2>2, SameDepth DEF Inv
<1>2. CASE UNCHANGED vars
  <2>1. /\ bodies' = bodies /\ req' = req /\ ctx' = ctx /\ lines' = lines
    BY <1>2 DEF vars
  <2> QED  BY <2>1, SameDepth DEF Inv
<1> QED  BY <1>1, <1>2 DEF Next

(* The invariant holds throughout.                                         *)
THEOREM Invariance == Spec => []Inv
  BY InvInit, InvNext, PTL DEF Spec

-----------------------------------------------------------------------------
(* What follows from it                                                    *)

(* A request that is known is on its way, and one whose answer has left    *)
(* the outermost layer carries what came of it.                            *)
LEMMA Leaves ==
  ASSUME Inv, NEW r \in Request, req[r] /= None
  PROVE  /\ Coming(req[r], ctx[r], lines[r]) \/ Going(req[r], ctx[r], lines[r])
         /\ Depth \in 4 .. 5
         /\ req[r].at = 0 =>
              /\ Going(req[r], ctx[r], lines[r])
              /\ req[r].carries.raised = None
              /\ req[r].path = "api" =>
                   /\ req[r].carries.status = StatusOf(req[r].outcome.error)
                   /\ req[r].carries.code = CodeOf(req[r].outcome.error)
<1>1. Coming(req[r], ctx[r], lines[r]) \/ Going(req[r], ctx[r], lines[r])
  BY DEF Inv
<1>2. Depth \in 4 .. 5
  BY StackIs DEF Inv
<1>3. req[r].at = 0 => Going(req[r], ctx[r], lines[r])
  BY <1>1 DEF Coming
<1>4. req[r].at = 0 => CarriesOutcome(req[r])
  BY <1>3 DEF Going
<1> QED  BY <1>1, <1>2, <1>3, <1>4 DEF CarriesOutcome

(* How many lines of the logger have the status, when none has another.    *)
Counts(l, logger, n, status) ==
  /\ Cardinality({m \in DOMAIN l : l[m].logger = logger /\ l[m].status = status}) = n
  /\ \A m \in DOMAIN l : l[m].logger = logger => l[m].status = status

(* What is said once is counted once.                                      *)
LEMMA OnceCounts ==
  ASSUME NEW l, NEW logger, NEW spoken \in BOOLEAN, NEW status, Once(l, logger, spoken, status)
  PROVE  Counts(l, logger, IF spoken THEN 1 ELSE 0, status)
<1> DEFINE said == {n \in DOMAIN l : l[n].logger = logger /\ l[n].status = status}
<1>1. CASE spoken
  <2>1. PICK k \in DOMAIN l : /\ {n \in DOMAIN l : l[n].logger = logger} = {k}
                              /\ l[k].status = status
    BY <1>1 DEF Once
  <2>2. said = {k}
    BY <2>1
  <2>3. Cardinality({k}) = 1
    BY FS_Singleton
  <2> QED  BY <1>1, <2>1, <2>2, <2>3 DEF Counts
<1>2. CASE ~spoken
  <2>1. {n \in DOMAIN l : l[n].logger = logger} = {}
    BY <1>2 DEF Once
  <2>2. said = {}
    BY <2>1
  <2>3. Cardinality({}) = 0
    BY FS_EmptySet
  <2> QED  BY <1>2, <2>1, <2>2, <2>3 DEF Counts
<1> QED  BY <1>1, <1>2

(* The types, from the invariant.                                          *)
LEMMA InvTypes == Inv => TypeOK
<1> SUFFICES ASSUME Inv PROVE TypeOK
  OBVIOUS
<1>1. ASSUME NEW r \in Request,
             Coming(req[r], ctx[r], lines[r]) \/ Going(req[r], ctx[r], lines[r])
      PROVE  /\ req[r] \in Known
             /\ ctx[r] \in Seq(Id \cup {None}) /\ Len(ctx[r]) \in 1 .. 3
             /\ lines[r] \in Seq(LogLine)
             /\ req[r].at = 0 => req[r].carries /= None /\ req[r].carries.raised = None
  <2>1. CASE Coming(req[r], ctx[r], lines[r])
    BY <2>1 DEF Coming
  <2>2. CASE Going(req[r], ctx[r], lines[r])
    <3>1. req[r].at = 0 => req[r].carries.raised = None
      <4>1. CarriesOutcome(req[r]) /\ Depth \in 4 .. 5
        BY <2>2, StackIs DEF Inv, Going
      <4> QED  BY <4>1 DEF CarriesOutcome
    <3>2. req[r].carries \in Carried /\ None \notin Carried
      BY <2>2, PipelineAssumption DEF Going
    <3> QED  BY <2>2, <3>1, <3>2 DEF Going, LinesTell
  <2> QED  BY <1>1, <2>1, <2>2
<1> QED  BY <1>1 DEF Inv, TypeOK, Known, LogLine, Depth

(* The ids, from the invariant.                                            *)
LEMMA InvIds == Inv => IdsNeverCross
<1> SUFFICES ASSUME Inv, NEW r \in Request, req[r] /= None
             PROVE  /\ \A n \in DOMAIN lines[r] : lines[r][n].id = req[r].rid
                    /\ req[r].carries /= None =>
                         /\ req[r].carries.id \in {None, req[r].rid}
                         /\ req[r].carries.header \in {None, req[r].rid}
  BY DEF IdsNeverCross
<1>1. CASE Coming(req[r], ctx[r], lines[r])
  BY <1>1 DEF Coming
<1>2. CASE Going(req[r], ctx[r], lines[r])
  BY <1>2 DEF Going, LinesTell
<1> QED  BY <1>1, <1>2, Leaves

(* The access line, from the invariant.                                    *)
LEMMA InvAccess == Inv => AccessLineTellsAnswer
<1> SUFFICES ASSUME Inv, NEW r \in Request,
                    req[r] /= None, req[r].at = 0, req[r].path = "api"
             PROVE  /\ \/ Count(r, "access", req[r].carries.status) = 1
                       \/ (/\ req[r].outcome = [by |-> "exception", error |-> "bug"]
                           /\ Count(r, "access", req[r].carries.status) = 0)
                    /\ \A n \in DOMAIN lines[r] :
                         lines[r][n].logger = "access" =>
                           lines[r][n].status = req[r].carries.status
  BY DEF AccessLineTellsAnswer
<1> DEFINE x == req[r]
<1>1. /\ Going(x, ctx[r], lines[r])
      /\ x.carries.status = StatusOf(x.outcome.error)
  BY Leaves
<1>2. x.outcome = [by |-> "exception", error |-> "bug"] <=> Passes(x)
  BY <1>1 DEF Going, Outcome, Passes
<1>3. AccessSaid(x) <=> ~Passes(x)
  BY DEF AccessSaid
<1>4. AccessSaid(x) \in BOOLEAN
  BY DEF AccessSaid
<1>5. Once(lines[r], "access", AccessSaid(x), x.carries.status)
  BY <1>1 DEF Going, LinesTell
<1> HIDE DEF x
<1>6. /\ Count(r, "access", x.carries.status) = IF AccessSaid(x) THEN 1 ELSE 0
      /\ \A n \in DOMAIN lines[r] :
           lines[r][n].logger = "access" => lines[r][n].status = x.carries.status
  <2>1. Counts(lines[r], "access", IF AccessSaid(x) THEN 1 ELSE 0, x.carries.status)
    BY <1>4, <1>5, OnceCounts
  <2> QED  BY <2>1 DEF Counts, Count
<1> QED  BY <1>2, <1>3, <1>6 DEF x

(* The line about the error, from the invariant.                           *)
LEMMA InvErrors == Inv => ErrorLoggedOnce
<1> SUFFICES ASSUME Inv, NEW r \in Request, req[r] /= None, req[r].at = 0
             PROVE  /\ Count(r, "app", req[r].carries.status) =
                         IF req[r].outcome.error \in {None, "validation", "routing"} THEN 0 ELSE 1
                    /\ \A n \in DOMAIN lines[r] :
                         lines[r][n].logger = "app" => lines[r][n].status = req[r].carries.status
  BY DEF ErrorLoggedOnce
<1> DEFINE x == req[r]
<1>1. /\ Going(x, ctx[r], lines[r])
      /\ x.path = "api" => x.carries.status = StatusOf(x.outcome.error)
  BY Leaves
<1>2. ErrorSaid(x) <=> x.outcome.error \notin {None, "validation", "routing"}
  BY DEF ErrorSaid
<1>3. ErrorSaid(x) \in BOOLEAN
  BY DEF ErrorSaid
<1>4. Once(lines[r], "app", ErrorSaid(x), x.carries.status)
  <2>1. Once(lines[r], "app", ErrorSaid(x), StatusOf(x.outcome.error))
    BY <1>1 DEF Going, LinesTell
  <2>2. CASE x.path = "api"
    BY <1>1, <2>1, <2>2
  <2>3. CASE x.path /= "api"
    <3>1. x.outcome.error = None
      BY <1>1, <2>3 DEF Going, Known
    <3> QED  BY <1>2, <2>1, <3>1 DEF Once
  <2> QED  BY <2>2, <2>3
<1> HIDE DEF x
<1>5. /\ Count(r, "app", x.carries.status) = IF ErrorSaid(x) THEN 1 ELSE 0
      /\ \A n \in DOMAIN lines[r] :
           lines[r][n].logger = "app" => lines[r][n].status = x.carries.status
  <2>1. Counts(lines[r], "app", IF ErrorSaid(x) THEN 1 ELSE 0, x.carries.status)
    BY <1>3, <1>4, OnceCounts
  <2> QED  BY <2>1 DEF Counts, Count
<1> QED  BY <1>2, <1>5 DEF x

(* The answer, from the invariant.                                         *)
LEMMA InvAnswers == Inv => AnswerTellsOutcome
<1> SUFFICES ASSUME Inv, NEW r \in Request,
                    req[r] /= None, req[r].at = 0, req[r].path = "api"
             PROVE  LET error == req[r].outcome.error
                    IN  <<req[r].carries.status, req[r].carries.code>> =
                          CASE error = None -> <<200, CodeOk>>
                            [] error = "bug" -> <<500, CodeInternal>>
                            [] error = "validation" -> <<422, CodeInvalidInput>>
                            [] error = "routing" -> <<404, None>>
                            [] OTHER -> <<HttpStatus(error), error>>
  BY DEF AnswerTellsOutcome
<1>1. /\ req[r].carries.status = StatusOf(req[r].outcome.error)
      /\ req[r].carries.code = CodeOf(req[r].outcome.error)
  BY Leaves
<1> QED  BY <1>1, PipelineAssumption DEF StatusOf, CodeOf

(* Every request, context and line keeps its type, and nothing but an      *)
(* answer leaves the outermost layer (create_app's stack and handlers).    *)
THEOREM TypeCorrectness == Spec => []TypeOK
  BY Invariance, InvTypes, PTL

(* However many requests overlap, no log line, envelope or header bears    *)
(* the id of another one (the ContextVar of request_context.py).           *)
THEOREM IdsStayApart == Spec => []IdsNeverCross
  BY Invariance, InvIds, PTL

(* However many requests overlap: an answer has its one access line and    *)
(* its status, but where an exception went through access_log.py.          *)
THEOREM AccessLinesAreTrue == Spec => []AccessLineTellsAnswer
  BY Invariance, InvAccess, PTL

(* Whether the route, the handler of AppError or the handler of Exception  *)
(* answered an error, response_error logged it once and with that status.  *)
THEOREM ErrorsAreLoggedOnce == Spec => []ErrorLoggedOnce
  BY Invariance, InvErrors, PTL

(* The status and the code that the client gets are those of what was      *)
(* raised, wherever it was (_map_error and the exception handlers).        *)
THEOREM AnswersAreTrue == Spec => []AnswerTellsOutcome
  BY Invariance, InvAnswers, PTL

=============================================================================
