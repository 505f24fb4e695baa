-------------------------- MODULE UserDomainProofs --------------------------
(* What the rules on users preserve, for the proofs about both services.   *)
EXTENDS UserDomain, TLAPS

(* A well-formed create makes a user. *)
LEMMA CreatedIsUser ==
  ASSUME NEW p \in CreateUserParams, WellFormedCreate(p)
  PROVE  FromParams(p) \in User
  BY DEF CreateUserParams, WellFormedCreate, FromParams, User

(* A well-formed update of a user makes a user. *)
LEMMA UpdatedIsUser ==
  ASSUME NEW p \in UpdateUserParams, NEW u \in User,
         WellFormedEmail(p), WellFormedStatus(p)
  PROVE  WithUpdates(u, p) \in User
  BY DomainAssumption
  DEF UpdateUserParams, WellFormedEmail, WellFormedStatus, WithUpdates, OrElse, User

(* The parameters' types, by operation. *)
LEMMA RequestTypes ==
  ASSUME NEW r \in AnyRequest
  PROVE  /\ r.op = "create" => r \in CreateUserParams
         /\ r.op = "update" => r \in UpdateUserParams
         /\ r.op \in {"get", "delete"} => r \in UserTarget
         /\ r.op \in {"create", "update", "get", "delete"}
         /\ r.op /= "create" => r.id \in Nat \ {0}
  BY DEF AnyRequest, CreateUserParams, UpdateUserParams, UserTarget

=============================================================================
