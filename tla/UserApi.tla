------------------------------- MODULE UserApi -------------------------------
(***************************************************************************)
(* The DTOs and the usecase behind them.                                   *)
(***************************************************************************)
EXTENDS MemoryUserService, UserRequests

(* The checks of the usecase on the parameters alone, which other callers  *)
(* may fail, are no news to a client of the HTTP API: what the DTOs let    *)
(* through passes them, and nobody is told 400 for what 422 stands for.    *)
HttpNeverMalformed ==
  \A t \in Task :
    req[t] \in HttpRequest /\ answer[t] /= None => answer[t].code /= "bad_request"

=============================================================================
