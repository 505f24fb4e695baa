---------------------------- MODULE BodyRendering ----------------------------
(***************************************************************************)
(* What the body log makes of the bytes it kept: _render with redact, and  *)
(* the keys of sensitive_keys; and, to hold them against, a definition by  *)
(* paths of what may be shown of a document.                               *)
(*                                                                         *)
(* A JSON value is <<"dict", entries>> with a sequence of <<key, value>>,  *)
(* <<"list", items>>, or <<"scalar", v>>.  A text is a sequence of tokens: *)
(* one for a scalar, for a key, and for the brackets of a container; a     *)
(* content type is the sequence of its words, as it came, <<>> if none did.*)
(*                                                                         *)
(* What recurses in the code is a function here, of which one step is an   *)
(* operator that is given the function for the parts of a value.           *)
(***************************************************************************)
EXTENDS Integers, Sequences, SequencesExt

CONSTANTS
  Value,         \* JSON values: documents, and whatever is in them
  Depth,         \* how deep each of them is nested
  extra_keys,    \* the project's own, SENSITIVE_KEYS
  partial_keys,  \* PARTIAL_KEYS
  Lower,         \* key.lower(), for the keys of the documents and of both sets
  Short,         \* values whose str() has at most 2 * visible characters
  MaxBytes,      \* LOG_BODY_MAX_BYTES
  NoText         \* None

Key == DOMAIN Lower

(* The values that are directly in a value. *)
Parts(value) ==
  CASE value[1] = "dict" -> {value[2][n][2] : n \in DOMAIN value[2]}
    [] value[1] = "list" -> {value[2][n] : n \in DOMAIN value[2]}
    [] OTHER -> {}

ASSUME ValueAssumption ==
  /\ \A value \in Value :
       \/ value[1] = "dict" /\ value[2] \in Seq(Key \X Value)
       \/ value[1] = "list" /\ value[2] \in Seq(Value)
       \/ value[1] = "scalar"
  /\ Depth \in [Value -> Nat]
  /\ \A value \in Value : \A part \in Parts(value) : Depth[part] < Depth[value]
  /\ MaxBytes \in Int

-----------------------------------------------------------------------------
(* redact                                                                  *)

DefaultSensitiveKeys ==
  {"password", "passwd", "pwd", "secret", "token", "access_token", "refresh_token",
   "authorization", "api_key", "apikey", "otp", "pin", "card_number", "cvv"}

FullKeys == DefaultSensitiveKeys \cup {Lower[k] : k \in extra_keys}
PartialKeys == {Lower[k] : k \in partial_keys}

FullMask == <<"mask", "[REDACTED]">>

(* The head and the tail of what str() makes of the value. *)
PartialMask(value) == IF value \in Short THEN FullMask ELSE <<"ends", value>>

(* Variant: lists are returned as they are. *)
WalkDicts(walk, value) ==
  IF value[1] /= "dict" THEN value
  ELSE <<"dict", [n \in DOMAIN value[2] |->
         LET key == value[2][n][1]
             val == value[2][n][2]
         IN  <<key, IF Lower[key] \in FullKeys THEN FullMask
                    ELSE IF Lower[key] \in PartialKeys THEN PartialMask(val)
                    ELSE walk[val]>>]>>

(* _walk.  A key that is in both sets is masked in full. *)
Walk(walk, value) ==
  CASE value[1] = "dict" ->
         <<"dict", [n \in DOMAIN value[2] |->
            LET key == value[2][n][1]
                val == value[2][n][2]
            IN  <<key, IF Lower[key] \in FullKeys THEN FullMask
                       ELSE IF Lower[key] \in PartialKeys THEN PartialMask(val)
                       ELSE walk[val]>>]>>
    [] value[1] = "list" -> <<"list", [n \in DOMAIN value[2] |-> walk[value[2][n]]]>>
    [] OTHER -> value

Redacted[value \in Value] == Walk(Redacted, value)

(* What json.dumps may be given: a value as it came, or redacted, and in   *)
(* one that is redacted the masks.                                         *)
Dumpable ==
  Value \cup {Redacted[value] : value \in Value} \cup
  {FullMask} \cup {<<"ends", value>> : value \in Value}

(* json.dumps *)
Dump(dump, value) ==
  CASE value[1] = "dict" ->
         <<<<"open", "dict">>>> \o
         FlattenSeq([n \in DOMAIN value[2] |->
           <<<<"key", value[2][n][1]>>>> \o dump[value[2][n][2]]])
    [] value[1] = "list" ->
         <<<<"open", "list">>>> \o FlattenSeq([n \in DOMAIN value[2] |-> dump[value[2][n]]])
    [] OTHER -> <<value>>

Dumped[value \in Dumpable] == Dump(Dumped, value)

-----------------------------------------------------------------------------
(* _render                                                                 *)

(* json.loads, of the bytes 1 .. Len(raw) of a body.  No beginning of an   *)
(* object or a list is JSON.                                               *)
Loads(raw, body) == IF Len(raw) = body.size THEN body.document ELSE NoText

Truncated == <<"mark", "(truncated)">>

Cut(text) ==
  IF Len(text) > MaxBytes THEN Append(SubSeq(text, 1, MaxBytes), Truncated) ELSE text

IsJson(type) == "application/json" \in Range(type)

(* The number of bytes, and the content type, of which nothing is cut. *)
Placeholder(n, type) ==
  <<<<"bytes", n>>>> \o
  (IF type = <<>> THEN <<<<"type", "unknown">>>> ELSE [k \in DOMAIN type |-> <<"type", type[k]>>])

(* Variant: the limit is held against the bytes that came. *)
RenderedByInput(raw, type, body, redact_enabled) ==
  IF raw = <<>> THEN NoText
  ELSE IF IsJson(type) /\ Loads(raw, body) /= NoText
  THEN LET data == Loads(raw, body)
           text == Dumped[IF redact_enabled THEN Redacted[data] ELSE data]
       IN  IF Len(raw) > MaxBytes THEN Append(SubSeq(text, 1, MaxBytes), Truncated) ELSE text
  ELSE Placeholder(Len(raw), type)

Rendered(raw, type, body, redact_enabled) ==
  IF raw = <<>> THEN NoText
  ELSE IF IsJson(type) /\ Loads(raw, body) /= NoText
  THEN LET data == Loads(raw, body)
       IN  Cut(Dumped[IF redact_enabled THEN Redacted[data] ELSE data])
  ELSE Placeholder(Len(raw), type)

-----------------------------------------------------------------------------
(* What may be shown, by paths                                             *)

(* Places in the value of a key, seen from the dict. *)
Under(key, places) ==
  {[path |-> <<Lower[key]>> \o p.path, value |-> p.value] : p \in places}

(* A value itself, and the values in its parts, each with the keys on the  *)
(* way to it.                                                              *)
PlacesIn(places, value) ==
  {[path |-> <<>>, value |-> value]} \cup
  CASE value[1] = "dict" ->
         UNION {Under(value[2][n][1], places[value[2][n][2]]) : n \in DOMAIN value[2]}
    [] value[1] = "list" -> UNION {places[value[2][n]] : n \in DOMAIN value[2]}
    [] OTHER -> {}

Places[value \in Value] == PlacesIn(Places, value)

(* A scalar may be shown if no key on the way to it is sensitive; the ends *)
(* of a value, if the last key alone is, and only partially, and the value *)
(* is long enough.                                                         *)
MayBeShown(document) ==
  LET sensitive == FullKeys \cup PartialKeys
      open == {p \in Places[document] : \A k \in DOMAIN p.path : p.path[k] \notin sensitive}
      partial == {p \in Places[document] :
                    /\ p.path /= <<>> /\ Last(p.path) \in PartialKeys \ FullKeys
                    /\ \A k \in 1 .. (Len(p.path) - 1) : p.path[k] \notin sensitive}
  IN  {p.value : p \in {q \in open : q.value[1] = "scalar"}} \cup
      {<<"ends", p.value>> : p \in {q \in partial : q.value \notin Short}}

=============================================================================
