---------------------------- MODULE MCRepository ----------------------------
EXTENDS Repository

(* Names are strings of no meaning but where the code compares them.        *)
MCTexts == {{"a"}, Broken}
MCFirstTexts == {{"a"}, Broken}
Sym == Permutations(Runs) \cup Permutations(Writer)

-----------------------------------------------------------------------------
(* The sort: dependencies listed twice, missing, on themselves, circular.  *)
MCDependsOn == {<<>>, <<1, 2>>, <<2, 3>>} \cup {<<i>> : i \in 1..3} \cup {<<i, i>> : i \in 1..2}
MCModules == [name : 1..3, dependsOn : MCDependsOn]

-----------------------------------------------------------------------------
(* The schema graph: tables redefined with less, USE inside a file.        *)
D(k, n, o, a) == [kind |-> k, name |-> n, on |-> o, as |-> a]
Full(t) == D("table", t, "", TRUE)
Less(t) == D("table", t, "", FALSE)
Use(s) == D("use", "", "", s)
MCFiles == {"a", "b", "c", "d", "e"}
MCDefinitions == [f \in MCFiles |->
  CASE f = "a" ->
         <<Full("user"), D("field", "name", "user", "string"), D("field", "name", "user", "int"),
           D("field", "age", "user", "int"), D("index", "by_name", "user", "uniq"),
           D("event", "on", "user", "then")>>
    [] f = "b" ->
         <<Use(<<"prod", Unscoped>>), Less("user"), Use(<<Unscoped, "main">>), D("field", "age", "user", "string"),
           D("index", "by_name", "user", "plain"), D("index", "by_age", "post", "plain"),
           D("function", "greet", "", "one"), D("param", "p", "", "")>>
    [] f = "c" ->
         <<Use(<<"dev", "main">>), Full("post"), D("field", "author", "post", "user"),
           Use(<<"test", Unscoped>>), D("event", "on", "post", "then"),
           D("function", "greet", "", "two")>>
    [] f = "d" ->
         <<Less("post"), Full("post"), D("field", "age", "post", "int"),
           D("field", "author", "comment", "post"), D("event", "off", "comment", "x")>>
    [] f = "e" ->
         <<Use(<<"test", Unscoped>>), Less("comment"), D("field", "text", "comment", "string"),
           D("param", "q", "", "")>>]
MCScopes == {<<Unscoped, Unscoped>>, <<"prod", Unscoped>>, <<"test", "main">>, <<"test", "other">>}

-----------------------------------------------------------------------------
(* Record links: loops, diamonds, a table that links to itself.            *)
MCLinkSets ==
  {{}, {<<1, 1>>}, {<<1, 2>>}, {<<1, 3>>}, {<<1, 2>>, <<2, 3>>}, {<<1, 3>>, <<2, 3>>},
   {<<2, 1>>, <<1, 2>>}, {<<1, 1>>, <<1, 2>>, <<1, 3>>}}

-----------------------------------------------------------------------------
(* Statements.                                                             *)
MCStatements == DOMAIN Syntax
Groupings == {<<>>, << <<"a">> >>, << <<"a", "b">>, <<"c">> >>}
PermissionTexts ==
  {<< <<Every, "NONE">> >>, << <<Every, "FULL">> >>, << <<{"delete"}, "FULL">> >>,
   << <<{"select", "create"}, "FULL">>, <<{"create", "update"}, "p">> >>}
FieldPermissionTexts ==
  {<< <<Every, "NONE">> >>, << <<{"select"}, "p">>, <<{"create"}, "NONE">> >>, << <<{"delete"}, "p">> >>}
TableTypes ==
  {[type |-> "NORMAL", sides |-> <<>>, enforced |-> FALSE],
   [type |-> "RELATION", sides |-> << <<"OUT", <<"q">>>>, <<"IN", <<"p">>>>, <<"OUT", <<"r">>>> >>,
    enforced |-> TRUE]}
Jwts ==
  {Jwt("URL", "u", FALSE, "", ""), Jwt("URL", "u", TRUE, "ES256", "k"),
   Jwt("ES256", "k", FALSE, "", ""), Jwt("ES256", "k", TRUE, "ES256", "j"),
   Jwt("HS256", "k", TRUE, "HS512", "")}
AccessTypes ==
  {Type("JWT", "", "", "", FALSE, j) : j \in Jwts}
  \cup {Type("RECORD", "", "up", "", r, j) : r \in BOOLEAN, j \in Jwts \cup {NoJwt}}
  \cup {Type("BEARER", s, "", "", FALSE, j) : s \in {"USER", "RECORD"}, j \in Jwts \cup {NoJwt}}
Configs == {ApiConfig("", <<>>), ApiConfig("NONE", <<"m">>)}
MCArguments(s, key) ==
  CASE s = "if" -> {Body(k, c) : k \in {"block", "value", "bracketed", "worded"}, c \in BOOLEAN}
    [] s = "select" /\ key = "fields" -> {{<<"*">>}, {<<"a">>}, {<<"a", "b">>, <<"c">>}}
    [] s = "select" /\ key \in {"SPLIT", "GROUP", "ORDER"} -> Groupings
    [] s = "relate" /\ key \in {"->", "<-"} -> {<<"p", "e", "q">>}
    [] s = "option" /\ key = "=" -> {"TRUE", "FALSE"}
    [] s = "explain" /\ key = "FORMAT" -> {"TEXT", "JSON"}
    [] s = "access" /\ key = "PURGE" -> {{"EXPIRED"}, {"REVOKED"}, {"EXPIRED", "REVOKED"}}
    [] s = "access" /\ key = "FOR" -> {"0ns", "1d"}
    [] key = "COMMENT" -> {"x", "NONE"}
    [] s \in {"defineTable", "alterTable", "alterField"} /\ key = "PERMISSIONS" -> PermissionTexts
    [] s = "defineField" /\ key = "PERMISSIONS" -> FieldPermissionTexts
    [] s \in {"defineTable", "alterTable"} /\ key = "TYPE" -> TableTypes
    [] key = "SCHEMA" -> {"FULL", "LESS"}
    [] s = "defineField" /\ key = "KIND" -> {KindOf(t, f) : t \in {"object", "int"}, f \in BOOLEAN}
    [] s = "defineIndex" /\ key = "FIELDS" -> {<<"a">>, <<"a", "b">>}
    [] s = "defineIndex" /\ key \in {"UNIQUE", "COUNT"} -> {IndexOf(key, <<>>, 0, 0)}
    [] key = "FULLTEXT" -> {IndexOf(key, NoTree, 0, 0), IndexOf(key, ("ANALYZER" :> "x"), 0, 0)}
    [] key = "HNSW" -> {IndexOf(key, ("EFC" :> "9"), m, n) : m \in {NotGiven, 0, 127, 128}, n \in {NotGiven, 0}}
    [] key = "ROLES" -> {<<Role("owner", "lower"), Role("editor", "upper")>>}
    [] s = "defineAccess" /\ key = "TYPE" -> AccessTypes
    [] s = "defineAccess" /\ key = "ON" -> {"DATABASE", "ROOT"}
    [] s = "defineApi" /\ key = "FOR_ANY" -> {[config |-> c, then |-> h] : c \in Configs, h \in {"", "x"}}
    [] s = "defineApi" /\ key = "FOR" -> 
         {[methods |-> <<"GET">>, config |-> c, action |-> "x"] : c \in Configs}
    [] key = "MIDDLEWARE" -> {<<"m">>}
    [] key \in {"TABLES", "FUNCTIONS"} -> {"NONE", "AUTO"}
    [] key = "INTROSPECTION" -> {"NONE", "AUTO"}
    [] OTHER -> {"x"}

-----------------------------------------------------------------------------
(* Expressions.                                                            *)
MCOperators == {"OR", "AND", "=", "==", "<", "-", "*", "**", "??", "..", ">..="}
Leaves == {Leaf(x) : x \in {"a", "1", "-1", "S", ".."}}
A == Leaf("a")
MCOperands ==
  Leaves \cup {Prefix(o, A) : o \in DOMAIN PrefixOp} \cup {Postfix(A, o) : o \in DOMAIN PostfixOp}
  \cup {Binary(A, o, A) : o \in MCOperators}
  \cup {Prefix("-", Leaf("1")), Binary(Leaf("1"), "..", A), Binary(Leaf("-1"), "-", A),
        Binary(Prefix("-", A), "**", Prefix("..", A)), Binary(A, "-", Binary(A, "-", A))}

-----------------------------------------------------------------------------
(* Types.                                                                  *)
MCObjectKeys == <<"a", "b">>
MCKindWords == {"any", "none", "int", "1", "function"}
MCKindNames == {"user", "post", "point", "a-b"}
MCKindTexts ==
  {<<w>> : w \in MCKindWords \cup Listed \cup Collection \cup {"point"}}
  \cup {<<k, "<", "user", ">">> : k \in Listed}
  \cup {<<"record", "<", "user", "|", "post", ">">>,
        <<"record", "<", "backtick", "a-b", "backtick", "|", "user", ">">>,
        <<"geometry", "<", "point", "|", "post", ">">>,
        <<"quote", "record", "<", "x", ">", "quote">>, <<"[", "]">>,
        <<"[", "int", "none", ",", "record", "<", "post", ">", "]">>,
        <<"{", "b", ":", "int", ",", "a", ":", "any", "b", ":", "record", "<", "user", ">", "}">>,
        <<"int", "|", "int", "|", "record", "<", "user", ">">>,
        <<"option", "<", "int", "|", "none", ">">>, <<"any", "|", "int">>,
        <<"array", "<", "any", ",", "5", ">">>, <<"array", "<", "any", ">">>}

-----------------------------------------------------------------------------
(* Idioms.                                                                 *)
MCIdiomStarts ==
  {<<"f">>, <<"e">>, <<"(", "b", ")">>, <<"->", "f">>, <<"@">>,
   <<"<~", "(", "f", "FIELD", "g", ")">>}
MCPartTexts ==
  {<<".", "*">>, <<"[", "*", "]">>, <<"[", "$", "]">>, <<"[", "1", "]">>, <<"[", "b", "]">>,
   <<"[", "?", "e", "]">>, <<"[", "WHERE", "b", "]">>, <<"...">>, <<".", "?">>, <<".", "@">>,
   <<".", "g">>, <<".", "f", "(", ")">>, <<".", "f", "(", "e", ",", "b", ",", ")">>,
   <<".", "{", "f", ":", "b", "}">>, <<".", "{", "}">>,
   <<".", "{", "f", ",", "g", ".", "*", ",", "}">>,
   <<".", "{", "f", ":", "e", ",", "g", ".", "{", "f", ":", "->", "(", "g", "LIMIT", "e", ")", ".", "f", "}", "}">>,
   <<".", "{", "f", ".", "g", "}">>, <<".", "{", "*", "}">>, <<".", "{", "1", "}">>,
   <<".", "{", "..", "2", "+", "path", "}">>,
   <<".", "{", "1", "..", "+", "shortest", "=", "e", "+", "inclusive", "+", "inclusive", "}", "(", ".", "f", "->", "?", ")">>,
   <<".", "{", "1", "..", "2", "+", "collect", "}", "(", ")">>, <<"->", "?">>,
   <<"<-", "f", ":", "k", ">", "..", "=", "k">>, <<"<->", "(", "f", ":", "k", "..", ")">>,
   <<"<~", "(", "f", "FIELD", "g", ",", "g", ":", "..", "k", ")">>, <<"->", "(", "f", ")">>,
   <<"->", "(", "f", "START", "e", "LIMIT", "b", ")">>,
   <<"->", "(", "?", "WHERE", "b", "LIMIT", "e", "AS", "g", ")">>,
   <<"->", "(", "SELECT", "f", "FROM", "f", "SPLIT", "f", "GROUP", "g", "ORDER", "f", "START", "e", "LIMIT", "e", ")">>,
   <<"<-", "(", "f", "ORDER", "f", ")">>}

-----------------------------------------------------------------------------
(* Texts of the lexer and the formatter, in pieces.                        *)
MCWordPieces ==
  {<<c>> : c \in {"bs", "sq", "dq", "bt", "s", "e8", "00", "1", "_", "-", "+", "$", "lf", "NUL", "BS",
                  "FF", "select", "NaN", "explain", "a", "d", "{", "}"}}
  \cup {<<"bs", "u", "{">>, <<"U232", "more">>}
MCNumeralPieces ==
  {<<c>> : c \in {"0", "1", "_", ".", "e", "-", "+", "f", "m", "s", "d", "Infinity"}}
  \cup {<<"d", "e", "c">>, <<"m", "s">>}
\* Units whose sizes divide each other, as theirs do.
MCUnitSize ==
  (<<"n", "s">> :> 1) @@ (<<"u", "s">> :> 3) @@ (<<"m", "s">> :> 6) @@ (<<"s">> :> 12) @@ (<<"m">> :> 24)
  @@ (<<"h">> :> 48) @@ (<<"d">> :> 96) @@ (<<"w">> :> 192) @@ (<<"y">> :> 960)

MCDocumentPieces ==
  {<<c>> : c \in {"lf", ";", "}", "cr", "sq"}}
  \cup {<<" ", "where">>, <<"a", "{">>, <<"-", "-">>, <<"/", "*">>, <<"*", "/">>}
MCFormatConfigs ==
  {FormatConfig({}, Unlimited, TRUE, FALSE, FALSE), FormatConfig({"WHERE"}, 0, TRUE, TRUE, TRUE),
   FormatConfig({"WHERE"}, Unlimited, FALSE, FALSE, FALSE), FormatConfig({}, 1, FALSE, FALSE, FALSE)}

-----------------------------------------------------------------------------
(* Values.                                                                 *)
H == "hole"
MCValueTexts ==
  {<<"1">>, <<"a">>, <<"s">>, <<"$p">>, <<"S">>, <<"a", ":", "1">>,
   <<"a", ":", "rand", "(", ")">>, <<"a", ":", "..">>, <<"a", ":", "1", ">..=", "k">>,
   <<"a", ":", "rand">>, <<"{", "}">>, <<"{", ",", "}">>, <<"{", ";", "}">>, <<"{", "1", "2", "}">>,
   <<"|", "a", ":", "1", "|">>, <<"|", "a", ":", "1", ">..=", "2", "|">>, <<"|", "a", ":", "..", "|">>, <<"..">>,
   <<"(", "1", ",", "2", ")">>, <<"->", "b">>, <<"fn", "::", "f", "::", "a", "(", ")">>,
   <<"mod", "::", "a", "::", "b", "(", "1", ",", ")">>,
   <<"silo", "::", "a", "::", "b", "<", "v", ">", "::", "f", "(", ")">>,
   <<"silo", "::", "a", "::", "b", "<", "v", ">", "(", ")">>,
   <<"ml", "::", "a", "<", "v", ">", "(", "1", ")">>, <<"k", "::", "f">>,
   <<"FUNCTION", "(", "1", ")", "{", "js", "}">>, <<"BREAK">>, <<"||", "1">>}
MCValueFrames ==
  {<<"[", H, "]">>, <<"[", H, ",", "1", ",", "]">>, <<"{", H, "}">>,
   <<"{", "1", ",", H, "}">>, <<"{", "k", ":", H, "}">>,
   <<"{", "1", ":", H, ",", "k", ":", "1", ",", "}">>,
   <<"{", "k", ":", "1", ",", "k", ":", H, "}">>, <<"{", H, ";", "1", "}">>,
   <<"{", ";", ";", H, ";", "}">>, <<"(", H, ")">>, <<"f", "(", H, ",", "1", ")">>,
   <<"a", ":", "[", H, "]">>, <<"a", ":", "{", "k", ":", H, "}">>, <<"|", "$p", "|", H>>,
   <<"|", "$p", ":", "int", ",", "$p", ":", "<", "int", "|", "string", ">", "|", "->", "int", "|", "string", "{", H, "}">>,
   <<H, "+", "1">>, <<"$p", "=", H>>, <<"{", "(", "$p", "=", H, ")", "}">>, <<H, "=", "1">>,
   <<H, "..", "2">>, <<"1", ">..=", H>>, <<H, "..">>, <<"..", H>>, <<"THROW", H>>,
   <<"RETURN", H, "FETCH", "a">>, <<H, ",", "1", "}">>}
MCBuiltinFunctions == {<<"f">>}
MCBuiltinConstants == {<<"k", "f">>}
-----------------------------------------------------------------------------
(* Search: T and U are tables, F is a field of T, P is called like T.      *)
MCTableNames == {"t", "EVENT", "^t"}
MCSearchedStatements ==
  {<<"DEFINE", "TABLE", "T", "SCHEMAFULL", ";">>,
   <<"DEFINE", "FIELD", "F", "ON", "T", "TYPE", "RECORD", "<", "U", ">", ";">>,
   <<"DEFINE", "FIELD", "F", "ON", "TABLE", "T", ";">>,
   <<"DEFINE", "INDEX", "n", "ON", "T", "FIELDS", "F", ";">>,
   <<"DEFINE", "EVENT", "n", "ON", "TABLE", "T", ";">>,
   <<"SELECT", "F", "FROM", "T", "WHERE", "F", "=", "1", ";">>,
   <<"SELECT", "P", ".", "F", "FROM", "ONLY", "T", ";">>,
   <<"UPDATE", "ONLY", "T", "SET", "F", "=", "1", ";">>,
   <<"CREATE", "T", ":", "1", "SET", "F", "=", "U", ":", "1", ";">>,
   <<"UPSERT", "T", "CONTENT", "{", "F", ":", "1", "}", ";">>,
   <<"DELETE", "FROM", "T", "WHERE", "F", "=", "1", ";">>,
   <<"DELETE", "T", "WHERE", "F", "=", "1", ";">>,
   <<"INSERT", "INTO", "T", "(", "F", ")", "VALUES", "(", "1", ")", ";">>,
   <<"INSERT", "INTO", "T", "(", "F", ")", "VALUES", "(", "1", ")",
     "ON", "DUPLICATE", "KEY", "UPDATE", "F", "=", "1", ";">>,
   <<"LET", "$p", "=", "T", ":", "1", ";">>,
   \* Of forms that the searches do not know.
   <<"DEFINE", "TABLE", "OVERWRITE", "T", ";">>,
   <<"DEFINE", "FIELD", "F", "ON", "T", "TYPE", "RECORD", "<", "T", "|", "U", ">", ";">>}

\* Texts for the language server's outputs: a table; another one with a link
\* to it, and a statement about it; only a statement, and a definition in a
\* comment.
PlainText == [tables |-> {"t"}, lines |-> {"t"}, links |-> {}, uses |-> {}]
LinkingText == [tables |-> {"u"}, lines |-> {"u"}, links |-> {<<"u", "t">>}, uses |-> {"t"}]
QueryingText == [tables |-> {}, lines |-> {"u"}, links |-> {}, uses |-> {"t"}]
MCProjectTexts == {PlainText, LinkingText, QueryingText}
MCFirstProjects == {<<PlainText, LinkingText>>, <<QueryingText, Absent>>}
=============================================================================
