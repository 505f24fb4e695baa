---------------------------- MODULE MCBodyLog -----------------------------
(* A small instance: two requests at a time, bodies below, at and beyond   *)
(* the cap, documents with sensitive keys at the top, in a list and under  *)
(* an innocent key, and content types that are missing, that say more than *)
(* application/json, and that are longer than the limit.                   *)
EXTENDS BodyLog

MCExtraKeys == {"National_ID", "recovery_code"}
MCPartialKeys == {"email", "national_id"}
MCKeys ==
  {"name", "Password", "access_token", "National_ID", "national_id", "recovery_code",
   "EMAIL", "email", "data", "items"}
MCLower ==
  [k \in MCKeys |->
     CASE k = "Password" -> "password"
       [] k = "EMAIL" -> "email"
       [] k = "National_ID" -> "national_id"
       [] OTHER -> k]

S(v) == <<"scalar", v>>
Entry(key, value) == <<key, value>>

MCShort == {S("7"), S("Ann"), S("bo@c")}

Login ==
  <<"dict", <<Entry("name", S("Ann")), Entry("Password", S("hunter2 hunter2")),
              Entry("EMAIL", S("alice@example.com"))>>>>
Token ==
  <<"dict", <<Entry("data", <<"dict", <<Entry("access_token", S("a.b.c"))>>>>),
              Entry("EMAIL", <<"list", <<S("hunter2 hunter2")>>>>)>>>>
People ==
  <<"dict", <<Entry("items", <<"list",
      <<<<"list", <<<<"dict", <<Entry("Password", S("x"))>>>>, S("7")>>>>,
        <<"dict", <<Entry("EMAIL", S("bo@c")), Entry("national_id", S("1234567890"))>>>>>>>>)>>>>

RECURSIVE WithParts(_)
WithParts(value) == {value} \cup UNION {WithParts(part) : part \in Parts(value)}
MCValue == UNION {WithParts(document) : document \in {Login, Token, People}}

RECURSIVE DepthOf(_)
DepthOf(value) ==
  IF Parts(value) = {} THEN 0 ELSE 1 + Max({DepthOf(part) : part \in Parts(value)})
MCDepth == [value \in MCValue |-> DepthOf(value)]

Json == <<"application/json">>
JsonUtf8 == <<"application/json", "; ", "charset=utf-8">>
Plain == <<"text/plain">>
Form == <<"multipart/form-data", "; ", "boundary=", "-", "-", "-", "-", "x">>
MCContentType == {<<>>, Json, JsonUtf8, Plain, Form}
B(type, size, document) == [type |-> type, size |-> size, document |-> document]

NoBody == B(Plain, 0, NoText)
Upload == B(Form, 60, NoText)
Untyped == B(<<>>, 4, People)
Broken == B(Json, 4, NoText)
LoginBody == B(JsonUtf8, 32, Login)
TokenBody == B(Json, 28, Token)
PeopleBody == B(Json, 4, People)

MCBody == {NoBody, Upload, Untyped, Broken, LoginBody, TokenBody, PeopleBody}

From(path, request, response) == [path |-> path, request |-> request, response |-> response]
MCOffered ==
  {From("api", PeopleBody, TokenBody), From("api", NoBody, LoginBody),
   From("api", TokenBody, Broken), From("api", Upload, Untyped), From("/health", NoBody, PeopleBody)}

Symmetry == Permutations(Call)
=============================================================================
