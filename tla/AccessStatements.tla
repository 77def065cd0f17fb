-------------------------- MODULE AccessStatements -------------------------
(***************************************************************************)
(* The DEFINE statements about who may do what: USER, ACCESS, API and the  *)
(* three kinds of CONFIG.                                                  *)
(***************************************************************************)
EXTENDS DefineStatements

(* USER.  A role is a name and the case it is written in; the printer      *)
(* writes it in capitals.                                                  *)
UserSyntax ==
  HeadedOn(Loop({"COMMENT", "PASSWORD", "PASSHASH", "ROLES", "FOR_TOKEN", "FOR_SESSION"}))
UserText ==
  <<"kind", "name", "ON", "PASSHASH", "PASSWORD", "ROLES", "FOR_TOKEN", "FOR_SESSION", "COMMENT">>
Role(name, case) == [name |-> name, case |-> case]
UserDefault ==
  With(With([ROLES |-> <<Role("viewer", "mixed")>>], "FOR_TOKEN", "1h"), "FOR_SESSION", "NONE")

\* A password or the hash of one, not both.
ReadUser(t, key, arg) ==
  CASE key = "PASSWORD" -> Unless(Given(t, "PASSHASH"), With(t, key, arg))
    [] key = "PASSHASH" -> Unless(Given(t, "PASSWORD"), With(t, key, arg))
    [] OTHER -> ReadPlain(t, key, arg)

InCapitals(t) ==
  [t EXCEPT !["ROLES"] = [i \in DOMAIN t["ROLES"] |-> Role(t["ROLES"][i].name, "upper")]]
WriteUser(t) == ShowAll(InCapitals(t), UserText)

-----------------------------------------------------------------------------
(* JWT.  Tokens are verified with the key of an algorithm or at a URL, and *)
(* may be issued.  In a text "" is what was not given; in a tree it is an  *)
(* algorithm or key that is not there because no tokens are issued.        *)
(* "random" is a key that is made up while the statement is read.          *)
Jwt(verify, key, issues, alg, issuerKey) ==
  [verify |-> verify, key |-> key, issues |-> issues, alg |-> alg, issuerKey |-> issuerKey]
JwtDefault == Jwt("HS512", "random", TRUE, "HS512", "random")
Symmetric(alg) == alg \in {"HS256", "HS384", "HS512"}
Or(x, default) == IF x = "" THEN default ELSE x

\* The algorithm an issuer names must be the one that verifies.
JwtRefused(x) == x.verify # "URL" /\ x.alg \notin {"", x.verify}
ReadJwt(x) ==
  IF ~x.issues /\ ~Symmetric(x.verify) THEN x
  ELSE Jwt(x.verify, x.key, TRUE,
           Or(x.alg, IF x.verify = "URL" THEN "HS512" ELSE x.verify),
           Or(x.issuerKey, IF Symmetric(x.verify) THEN x.key ELSE "random"))

\* The algorithm of the issuer is not written.
WriteJwt(j) == [j EXCEPT !.alg = ""]

-----------------------------------------------------------------------------
(* ACCESS.  The type of access: JWT; RECORD, with statements to sign up    *)
(* and in and with REFRESH or not; BEARER, for a USER or a RECORD.  What a *)
(* type does not have is "".                                               *)
Type(kind, subject, signup, signin, refresh, jwt) ==
  [kind |-> kind, subject |-> subject, signup |-> signup, signin |-> signin,
   refresh |-> refresh, jwt |-> jwt]
NoJwt == Jwt("", "", FALSE, "", "")
RecordDefault == Type("RECORD", "", "", "", FALSE, JwtDefault)

DefineAccessSyntax ==
  HeadedOn(Loop({"COMMENT", "TYPE", "AUTHENTICATE", "FOR_GRANT", "FOR_TOKEN", "FOR_SESSION"}))
DefineAccessText ==
  <<"kind", "name", "ON", "TYPE", "AUTHENTICATE", "FOR_GRANT", "FOR_TOKEN", "FOR_SESSION", "COMMENT">>
DurationDefault == With(With(With(NoTree, "FOR_GRANT", "30d"), "FOR_TOKEN", "1h"), "FOR_SESSION", "NONE")
DefineAccessDefault == With(DurationDefault, "TYPE", RecordDefault)

\* Records are known to a database only.
OnlyOnDatabase(x) == x.kind = "RECORD" \/ (x.kind = "BEARER" /\ x.subject = "RECORD")
ReadType(x) == [x EXCEPT !.jwt = IF x.jwt = NoJwt THEN JwtDefault ELSE ReadJwt(x.jwt)]
ReadDefineAccess(t, key, arg) ==
  IF key = "TYPE"
  THEN Unless((OnlyOnDatabase(arg) /\ t["ON"] # "DATABASE") \/ JwtRefused(arg.jwt),
              With(t, key, ReadType(arg)))
  ELSE ReadPlain(t, key, arg)

IssuesGrants(x) == x.kind = "BEARER" \/ (x.kind = "RECORD" /\ x.refresh)
IssuesTokens(x) == x.kind # "JWT" \/ x.jwt.issues
Unwritten(x) ==
  (IF IssuesGrants(x) THEN {} ELSE {"FOR_GRANT"}) \cup (IF IssuesTokens(x) THEN {} ELSE {"FOR_TOKEN"})

\* The JWT of BEARER is not written, nor a duration of what is not issued.
WriteType(x) == [x EXCEPT !.jwt = IF x.kind = "BEARER" THEN NoJwt ELSE WriteJwt(x.jwt)]
WriteDefineAccess(t) ==
  LET shown == Without(t, Unwritten(t["TYPE"]))
  IN  FlattenSeq([i \in DOMAIN DefineAccessText |->
        IF DefineAccessText[i] = "TYPE" THEN << <<"TYPE", WriteType(t["TYPE"])>> >>
        ELSE Show(shown, DefineAccessText[i])])

-----------------------------------------------------------------------------
(* API.  What holds for ANY method, and one action per FOR: its methods,   *)
(* its settings and what it does.  Settings not given are "" and <<>>.     *)
ApiConfig(permission, middleware) == [permission |-> permission, middleware |-> middleware]
ReadApiConfig(c) == ApiConfig(Or(c.permission, "FULL"), c.middleware)

ApiSyntax == <<May("kind"), Must("name"), Loop({"FOR_ANY", "FOR"}), May("COMMENT")>>
ApiDefault == With([FOR |-> <<>>], "FOR_ANY", ApiConfig("FULL", <<>>))

\* A second FOR ANY replaces the settings; what it does is kept if it has
\* no THEN.
ReadApi(t, key, arg) ==
  CASE key = "FOR_ANY" ->
         {With(IF arg.then = "" THEN t ELSE With(t, "THEN", arg.then), key, ReadApiConfig(arg.config))}
    [] key = "FOR" ->
         {With(t, key, Append(t[key], [arg EXCEPT !.config = ReadApiConfig(arg.config)]))}
    [] OTHER -> ReadPlain(t, key, arg)

WriteApi(t) ==
  ShowAll(t, <<"kind", "name">>)
    \o << <<"FOR_ANY", [config |-> t["FOR_ANY"], then |-> IF Given(t, "THEN") THEN t["THEN"] ELSE ""]>> >>
    \o [i \in DOMAIN t["FOR"] |-> <<"FOR", t["FOR"][i]>>]
    \o Show(t, "COMMENT")

-----------------------------------------------------------------------------
(* CONFIG: the settings of an API, of GRAPHQL, and the DEFAULT namespace   *)
(* and database.                                                           *)
ConfigApiSyntax == <<May("kind"), Loop({"PERMISSION", "MIDDLEWARE"})>>
ConfigApiText == <<"kind", "MIDDLEWARE", "PERMISSION">>
ConfigApiDefault == PermissionDefault

GraphQlSyntax ==
  <<May("kind"), Loop({"NONE", "AUTO", "TABLES", "FUNCTIONS", "DEPTH", "COMPLEXITY", "INTROSPECTION"})>>
GraphQlText == <<"kind", "TABLES", "FUNCTIONS", "DEPTH", "COMPLEXITY", "INTROSPECTION">>
GraphQlDefault == [TABLES |-> "NONE", FUNCTIONS |-> "NONE"]

\* NONE and AUTO are said of tables and functions; AUTO is what the
\* introspection is unless it is NONE.
ReadGraphQl(t, key, arg) ==
  CASE key \in {"NONE", "AUTO"} -> {With(With(t, "TABLES", key), "FUNCTIONS", key)}
    [] key = "INTROSPECTION" /\ arg = "AUTO" -> {Without(t, {key})}
    [] OTHER -> {With(t, key, arg)}

ConfigDefaultSyntax == <<May("kind"), OneOf({"NAMESPACE", "DATABASE"}), Loop({"NAMESPACE", "DATABASE"})>>
ConfigDefaultText == <<"kind", "NAMESPACE", "DATABASE">>
ConfigDefaultDefault == [NAMESPACE |-> "NONE", DATABASE |-> "NONE"]
=============================================================================
