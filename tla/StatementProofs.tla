-------------------------- MODULE StatementProofs --------------------------
(***************************************************************************)
(* For any arguments and statements of any length: every statement that is *)
(* read is written and read again as the same tree.  Here are the kinds of *)
(* statements whose trees are not what was said, clause by clause: DEFINE, *)
(* USE, ACCESS and IF, with clauses that give more than their keyword,     *)
(* defaults, types of an access and lists of clauses; then the theorem for *)
(* all kinds.                                                              *)
(***************************************************************************)
EXTENDS QueryProofs

-----------------------------------------------------------------------------
(* DEFINE TABLE.  The type that is written is one that was given, so that   *)
(* SCHEMAFULL does not change it when it is read again.                     *)
TableTree(t) ==
  /\ PlainTree(t) /\ IsPermissions(t["PERMISSIONS"]) /\ IsTableType(t["TYPE"])
TableSound(p) ==
  TableTree(p.tree) /\ \E rk : Sound(TableSyntax, TableText, rk, DOMAIN TableDefault, {"typed"}, p)

LEMMA TableFacts ==
  /\ Syntax["defineTable"] = TableSyntax /\ Text["defineTable"] = TableText
  /\ Default("defineTable") = TableDefault /\ IsTree(TableDefault)
  /\ DOMAIN TableDefault = {"TYPE", "SCHEMA", "PERMISSIONS"} /\ NoRivals(TableText)
  /\ \E rk : Planned(TableSyntax, TableText, rk, DOMAIN TableDefault, {"typed"})
  /\ \A key : Simple(TableSyntax, TableText, DOMAIN TableDefault, {"typed"}, key)
  /\ \A key : key # "name" => Skippable(TableSyntax, key)
<1>1. DOMAIN TableDefault = {"TYPE", "SCHEMA", "PERMISSIONS"}
  BY DEF TableDefault
<1>2. NoRivals(TableText)
  BY DEF NoRivals, TableText, Rivals
<1>3. \A a \in DOMAIN TableSyntax : \A k \in TableSyntax[a].keys :
        k \in Words(TableText) /\ (k # "name" => ~TableSyntax[a].must)
  BY DEF Words, TableSyntax, TableText, Headed, May, Must, Loop, Stage
<1> QED
  BY <1>1, <1>2, <1>3, Layouts, Plans DEF Laid, Simple, Skippable

LEMMA TableBegins ==
  TableSound(Begin(Default("defineTable")))
<1>1. PICK t : t = TableDefault
  OBVIOUS
<1>2. PICK rk : Sound(TableSyntax, TableText, rk, DOMAIN t, {"typed"}, Begin(t))
  BY <1>1, TableFacts, SoundBegins
<1>3. PICK p : p = Begin(t) /\ p.tree = t
  BY AtParts DEF Begin
<1>4. TableTree(t)
  <2>1. t["PERMISSIONS"] = Permissions("NONE") /\ t["TYPE"] = PlainType("ANY") /\ "COMMENT" \notin DOMAIN t
    BY <1>1 DEF TableDefault
  <2>2. IsPermissions(Permissions("NONE"))
    BY DEF IsPermissions, Permissions
  <2>3. IsTableType(PlainType("ANY"))
    BY DEF PlainType, ReadTableType, IsTableType
  <2> QED
    BY <2>1, <2>2, <2>3 DEF TableTree, PlainTree
<1> QED
  BY <1>1, <1>2, <1>3, <1>4, TableFacts DEF TableSound

LEMMA TableStep ==
  ASSUME NEW p, TableSound(p), NEW key, NEW arg, NEW q \in Step("defineTable", p, key, arg)
  PROVE  TableSound(q)
<1>1. PICK t, D : t = p.tree /\ D = DOMAIN TableDefault
  OBVIOUS
<1>2. PICK rk : Sound(TableSyntax, TableText, rk, D, {"typed"}, p) /\ TableTree(t) /\ IsTree(t) /\ D \subseteq DOMAIN t
  BY <1>1 DEF TableSound, Sound, Held
<1>3. Read("defineTable", t, key, arg) = ReadTable(t, key, arg)
  BY DEF Read
<1>4. ASSUME NEW u \in ReadTable(t, key, arg)
      PROVE  TableTree(u) /\ Tame(TableSyntax, TableText, D, {"typed"}, t, key, u)
  <2>1. CASE key = "TYPE"
    <3>1. PICK x : u = With(With(t, "TYPE", x), "typed", "yes") /\ IsTableType(x)
      BY <1>4, <2>1 DEF ReadTable, ReadTableType, IsTableType
    <3>2. /\ IsTree(u) /\ DOMAIN u = DOMAIN t \cup {"TYPE", "typed"} /\ u["TYPE"] = x
          /\ \A k \in DOMAIN t : k \notin {"TYPE", "typed"} => u[k] = t[k]
      BY <3>1 DEF With, IsTree
    <3>3. TableTree(u)
      BY <1>1, <1>2, <3>1, <3>2, TableFacts DEF TableTree, PlainTree
    <3>4. Tame(TableSyntax, TableText, D, {"typed"}, t, key, u)
      BY <1>1, <1>2, <2>1, <3>2, TableFacts DEF Tame, Skippable
    <3> QED
      BY <3>3, <3>4
  <2>2. CASE key = "SCHEMA" /\ arg = "FULL" /\ ~Given(t, "typed")
    <3>1. PICK x : u = With(With(t, "TYPE", x), "SCHEMA", arg) /\ IsTableType(x)
      BY <1>4, <2>2 DEF ReadTable, PlainType, ReadTableType, IsTableType
    <3>2. /\ IsTree(u) /\ DOMAIN u = DOMAIN t \cup {"TYPE", "SCHEMA"} /\ u["TYPE"] = x
          /\ \A k \in DOMAIN t : k \notin {"TYPE", "SCHEMA"} => u[k] = t[k]
      BY <3>1 DEF With, IsTree
    <3>3. TableTree(u)
      BY <1>1, <1>2, <3>1, <3>2, TableFacts DEF TableTree, PlainTree
    <3>4. Tame(TableSyntax, TableText, D, {"typed"}, t, key, u)
      BY <1>1, <1>2, <2>2, <3>2, TableFacts DEF Tame, Skippable
    <3> QED
      BY <3>3, <3>4
  <2>3. CASE key = "PERMISSIONS"
    <3>1. PICK x : u = With(t, key, x) /\ IsPermissions(x)
      <4>1. IsPermissions(ReadPermissions(arg, FALSE))
        BY DEF IsPermissions, ReadPermissions
      <4> QED
        BY <1>4, <2>3, <4>1 DEF ReadTable
    <3>2. /\ DOMAIN u = DOMAIN t \cup {key} /\ u[key] = x
          /\ \A k \in DOMAIN t : k # key => u[k] = t[k]
      BY <3>1 DEF With
    <3>3. TableTree(u)
      BY <1>1, <1>2, <2>3, <3>1, <3>2, TableFacts DEF TableTree, PlainTree
    <3> QED
      BY <1>1, <1>2, <3>1, <3>3, TableFacts, GivingIsTame
  <2>4. CASE key \notin {"TYPE", "PERMISSIONS"} /\ ~(key = "SCHEMA" /\ arg = "FULL" /\ ~Given(t, "typed"))
    <3>1. u \in ReadPlain(t, key, arg)
      BY <1>4, <2>4 DEF ReadTable
    <3>2. Ordinary(TableSyntax, TableText, D, {"typed"}, t, key, u) /\ PlainTree(u)
      <4>1. Skippable(TableSyntax, "COMMENT") /\ "COMMENT" \notin D /\ PlainTree(t)
        BY <1>1, <1>2, TableFacts DEF TableTree
      <4>2. Simple(TableSyntax, TableText, D, {"typed"}, key)
        BY <1>1, TableFacts
      <4> QED
        BY <3>1, <4>1, <4>2, ReadPlainIsOrdinary
    <3>3. \A k \in {"PERMISSIONS", "TYPE"} : u[k] = t[k]
      BY <1>1, <1>2, <2>4, <3>1, TableFacts DEF ReadPlain, WithComment, Without, With
    <3> QED
      BY <1>2, <3>2, <3>3, OrdinaryIsTame DEF TableTree
  <2> QED
    BY <2>1, <2>2, <2>3, <2>4
<1>5. PICK s : s = "defineTable" /\ Syntax[s] = TableSyntax
  BY TableFacts
<1>6. \A u \in Read(s, p.tree, key, arg) : Tame(Syntax[s], TableText, D, {"typed"}, p.tree, key, u)
  BY <1>1, <1>3, <1>4, <1>5
<1>7. Sound(Syntax[s], TableText, rk, D, {"typed"}, q) /\ q.tree \in Read(s, p.tree, key, arg)
  BY <1>2, <1>5, <1>6, TableFacts, TameStep
<1> QED
  BY <1>1, <1>3, <1>4, <1>5, <1>7 DEF TableSound

LEMMA TableReturns ==
  ASSUME NEW p, TableSound(p), MayEnd("defineTable", p)
  PROVE  Returns("defineTable", p)
<1>1. PICK s, t, txt, D : s = "defineTable" /\ t = p.tree /\ txt = TableText /\ D = DOMAIN TableDefault
  OBVIOUS
<1>2. PICK rk : Sound(Syntax[s], txt, rk, D, {"typed"}, p) /\ TableTree(t)
  BY <1>1, TableFacts DEF TableSound
<1>3. Finished(s, txt, rk, {"typed"}, p)
  BY <1>1, <1>2, TableFacts DEF Finished
<1>4. Said(t, txt, Without(t, {"typed"}))
  BY <1>1, <1>2, WithoutLost
<1>5. PICK w : w = Without(t, {"typed"})
  OBVIOUS
<1>6. D \subseteq DOMAIN t /\ DOMAIN w = DOMAIN t \ {"typed"} /\ \A k \in DOMAIN w : w[k] = t[k]
  BY <1>1, <1>2, <1>5 DEF Sound, Held, Without
<1>7. PICK K : K = [k \in DOMAIN w |-> IF k = "PERMISSIONS" THEN KeptPermissions(t[k]) ELSE t[k]]
  OBVIOUS
<1>8. /\ IsTree(K) /\ DOMAIN K = DOMAIN t \cap Words(txt)
      /\ K["PERMISSIONS"] = KeptPermissions(t["PERMISSIONS"])
      /\ \A k \in DOMAIN K : k # "PERMISSIONS" => K[k] = t[k]
  <2>1. DOMAIN K = DOMAIN w
    BY <1>7
  <2>2. DOMAIN w = DOMAIN t \cap Words(txt)
    BY <1>4, <1>5 DEF Said
  <2>3. "PERMISSIONS" \in DOMAIN w
    BY <1>1, <1>6, TableFacts
  <2> QED
    BY <1>7, <2>1, <2>2, <2>3 DEF IsTree
<1>9. PICK X : X = [typed |-> "yes"]
  OBVIOUS
<1>10. /\ DOMAIN txt = 1..9 /\ Len(txt) = 9 /\ txt[3] = "TYPE" /\ txt[5] = "SCHEMA"
       /\ \A i \in 1..9 : txt[i] # "typed" /\ (txt[i] = "TYPE" <=> i = 3) /\ (txt[i] = "SCHEMA" <=> i = 5)
  BY <1>1 DEF TableText
<1>11. ASSUME NEW i \in 1..9, Given(t, txt[i]), NEW b, i = 5 => Given(b, "typed")
       PROVE  LET u == With(b, txt[i], K[txt[i]])
              IN  Read(s, b, txt[i], WriteArg(txt[i], t[txt[i]])) = {IF i = 3 THEN Over(X, u) ELSE u}
  <2>1. PICK k \in DOMAIN K : k = txt[i] /\ k \in DOMAIN t
    BY <1>8, <1>10, <1>11 DEF Given, Words
  <2>2. \A x : Read(s, b, k, x) = ReadTable(b, k, x)
    BY <1>1 DEF Read
  <2>3. CASE k = "TYPE"
    <3>1. ReadTableType(WriteTableType(t[k])) = t[k]
      BY <1>2, <2>3, TableTypeReread DEF TableTree
    <3>2. ReadTable(b, k, WriteArg(k, t[k])) = {With(With(b, k, t[k]), "typed", "yes")}
      BY <2>3, <3>1 DEF ReadTable, WriteArg
    <3>3. \A v : With(v, "typed", "yes") = Over(X, v)
      BY <1>9 DEF With, Over
    <3>4. i = 3 /\ K[k] = t[k]
      BY <1>8, <1>10, <2>1, <2>3
    <3> QED
      BY <2>1, <2>2, <3>2, <3>3, <3>4
  <2>4. CASE k = "PERMISSIONS"
    <3>1. IsPermissions(t[k])
      BY <1>2, <2>4 DEF TableTree
    <3>2. ReadPermissions(WritePermissions(t[k]), FALSE) = KeptPermissions(t[k])
      BY <3>1, PermissionsReread
    <3>3. WriteArg(k, t[k]) = WritePermissions(t[k]) /\ i # 3 /\ K[k] = KeptPermissions(t[k])
      BY <1>8, <1>10, <2>1, <2>4 DEF WriteArg
    <3>4. ReadTable(b, k, WritePermissions(t[k])) = {With(b, k, KeptPermissions(t[k]))}
      BY <2>4, <3>2 DEF ReadTable
    <3> QED
      BY <2>1, <2>2, <3>3, <3>4
  <2>5. CASE k \notin {"PERMISSIONS", "TYPE"}
    <3>1. WriteArg(k, t[k]) = t[k] /\ K[k] = t[k] /\ i # 3
      BY <1>8, <1>10, <2>1, <2>5 DEF WriteArg
    <3>2. ~(k = "SCHEMA" /\ t[k] = "FULL" /\ ~Given(b, "typed"))
      BY <1>10, <1>11, <2>1
    <3>3. ReadTable(b, k, t[k]) = ReadPlain(b, k, t[k])
      BY <2>5, <3>2 DEF ReadTable
    <3>4. k = "COMMENT" => t[k] # "NONE"
      BY <1>2, <2>1 DEF TableTree, PlainTree
    <3>5. ReadPlain(b, k, t[k]) = {With(b, k, t[k])}
      BY <3>4 DEF ReadPlain, WithComment
    <3> QED
      BY <2>1, <2>2, <3>1, <3>3, <3>5
  <2> QED
    BY <2>3, <2>4, <2>5
<1>12. \A i \in 4..10 : Begun(s, K, txt, 3, X, i) = Over([k \in Earlier(K, txt, i) |-> K[k]], Over(X, Default(s)))
  <2>1. "TYPE" \in DOMAIN K
    BY <1>1, <1>6, <1>8, <1>10, TableFacts DEF Words
  <2>2. \A i \in 4..10 : 3 < i
    OBVIOUS
  <2> QED
    BY <1>10, <2>1, <2>2 DEF Begun
<1>13. Given(Begun(s, K, txt, 3, X, 5), "typed")
  BY <1>9, <1>12 DEF Given, Over
<1>14. Complete(s, Begun(s, K, txt, 3, X, Len(txt) + 1))
  BY <1>1 DEF Complete
<1>15. RereadsToo(s, txt, t, K, 3, X)
  <2>1. 3 \in DOMAIN txt /\ \A j \in DOMAIN txt : j <= 3 => txt[j] \notin DOMAIN X
    BY <1>9, <1>10
  <2> QED
    BY <1>8, <1>10, <1>11, <1>13, <1>14, <2>1 DEF RereadsToo
<1>16. PICK r : r = Begun(s, K, txt, 3, X, Len(txt) + 1)
  OBVIOUS
<1>17. TreesOf(s, ShowAll(p.tree, txt)) = {AstOf(s, r)}
  BY <1>1, <1>3, <1>15, <1>16, TooReread
<1>18. AstOf(s, r) = AstOf(s, KeptTable(t))
  <2>1. r = Over([k \in Earlier(K, txt, 10) |-> K[k]], Over(X, Default(s)))
    BY <1>10, <1>12, <1>16
  <2>2. Earlier(K, txt, 10) = DOMAIN K
    <3>1. \A l \in 1..9 : l < 10
      OBVIOUS
    <3> QED
      BY <1>8, <1>10, <3>1 DEF Earlier, Words
  <2>3. DOMAIN Default(s) \subseteq DOMAIN K
    BY <1>1, <1>6, <1>7, TableFacts
  <2>4. Without(r, {"typed"}) = K
    BY <1>6, <1>7, <1>9, <2>1, <2>2, <2>3 DEF Without, Over
  <2>5. KeptTable(t) = [t EXCEPT !["PERMISSIONS"] = KeptPermissions(t["PERMISSIONS"])] /\ "PERMISSIONS" \in DOMAIN t
    BY <1>1, <1>6, TableFacts DEF KeptTable, Given
  <2>6. Without(KeptTable(t), {"typed"}) = K
    BY <1>6, <1>7, <2>5 DEF Without
  <2> QED
    BY <1>1, <2>4, <2>6 DEF AstOf
<1>19. Written(s, p.tree) = ShowAll(p.tree, txt) /\ ~Unreadable(s, p.tree) /\ Kept(s, p.tree) = KeptTable(t)
  BY <1>1, TableFacts DEF Written, Unreadable, Kept, RemoveSyntax
<1> QED
  BY <1>1, <1>17, <1>18, <1>19 DEF Returns

-----------------------------------------------------------------------------
(* A statement one clause of which is not read again.                       *)
LEMMA BeforeNext ==
  ASSUME NEW s, NEW K, NEW txt, NEW n \in Nat, DOMAIN txt = 1..n, NEW i \in 1..n
  PROVE  Before(s, K, txt, i + 1) =
           IF txt[i] \in DOMAIN K THEN With(Before(s, K, txt, i), txt[i], K[txt[i]]) ELSE Before(s, K, txt, i)
<1>1. PICK E, F, D : E = Earlier(K, txt, i) /\ F = Earlier(K, txt, i + 1) /\ D = DOMAIN Default(s)
  OBVIOUS
<1>2. F = E \cup (IF txt[i] \in DOMAIN K THEN {txt[i]} ELSE {})
  <2>1. \A l \in 1..n : l < i + 1 <=> l < i \/ l = i
    OBVIOUS
  <2> QED
    BY <1>1, <2>1 DEF Earlier
<1>3. PICK b : b = Before(s, K, txt, i)
  OBVIOUS
<1>4. b = [k \in D \cup E |-> IF k \in E THEN K[k] ELSE Default(s)[k]]
  BY <1>1, <1>3 DEF Before
<1>5. Before(s, K, txt, i + 1) = [k \in D \cup F |-> IF k \in F THEN K[k] ELSE Default(s)[k]]
  BY <1>1 DEF Before
<1>6. CASE txt[i] \notin DOMAIN K
  BY <1>2, <1>3, <1>4, <1>5, <1>6
<1>7. CASE txt[i] \in DOMAIN K
  <2>1. With(b, txt[i], K[txt[i]]) = [k \in D \cup F |-> IF k \in F THEN K[k] ELSE Default(s)[k]]
    BY <1>2, <1>4, <1>7 DEF With
  <2> QED
    BY <1>3, <1>5, <1>7, <2>1
<1> QED
  BY <1>6, <1>7

\* The clauses of t are read again as they are in K up to the c-th, which is not.
RefusedAt(s, txt, t, K, c) ==
  /\ DOMAIN K = DOMAIN t \cap Words(txt) /\ c \in DOMAIN txt /\ Given(t, txt[c])
  /\ \A i \in DOMAIN txt : i < c /\ Given(t, txt[i]) =>
       Read(s, Before(s, K, txt, i), txt[i], WriteArg(txt[i], t[txt[i]])) = {With(Before(s, K, txt, i), txt[i], K[txt[i]])}
  /\ Read(s, Before(s, K, txt, c), txt[c], WriteArg(txt[c], t[txt[c]])) = {}

LEMMA NotReread ==
  ASSUME NEW s, NEW txt, NEW rk, NEW Lost, NEW p, Finished(s, txt, rk, Lost, p), NEW K, NEW c,
         RefusedAt(s, txt, p.tree, K, c)
  PROVE  TreesOf(s, ShowAll(p.tree, txt)) = {}
<1>1. PICK n \in Nat : n = Len(txt) /\ DOMAIN txt = 1..n
  BY FinishedInOrder
<1>2. PICK t, tr : t = p.tree /\ tr = [i \in 0..n |-> Before(s, K, txt, i + 1)]
  OBVIOUS
<1>3. c \in 1..n /\ Given(t, txt[c]) /\ \A i \in 1..n : Given(t, txt[i]) <=> txt[i] \in DOMAIN K
  BY <1>1, <1>2 DEF RefusedAt, Given, Words
<1>4. \A i \in 1..n : tr[i] = Before(s, K, txt, i + 1) /\ tr[i - 1] = Before(s, K, txt, i)
  <2>1. \A i \in 1..n : i \in 0..n /\ i - 1 \in 0..n /\ (i - 1) + 1 = i
    OBVIOUS
  <2> QED
    BY <1>2, <2>1
<1>5. tr[0] = Default(s)
  <2>1. Earlier(K, txt, 1) = {}
    BY <1>1 DEF Earlier
  <2>2. tr[0] = Before(s, K, txt, 0 + 1)
    BY <1>2
  <2>3. IsTree(Default(s))
    BY DEF Finished
  <2>4. Before(s, K, txt, 1) = [k \in DOMAIN Default(s) |-> Default(s)[k]]
    BY <2>1 DEF Before
  <2> QED
    BY <2>2, <2>3, <2>4 DEF IsTree
<1>6. ASSUME NEW i \in 1..n, i < c
      PROVE  IF Given(t, txt[i])
             THEN Read(s, tr[i - 1], txt[i], WriteArg(txt[i], t[txt[i]])) = {tr[i]}
             ELSE tr[i] = tr[i - 1]
  <2>1. Before(s, K, txt, i + 1) =
          IF txt[i] \in DOMAIN K THEN With(Before(s, K, txt, i), txt[i], K[txt[i]]) ELSE Before(s, K, txt, i)
    BY <1>1, BeforeNext
  <2> QED
    BY <1>1, <1>2, <1>3, <1>4, <1>6, <2>1 DEF RefusedAt
<1>7. Refuses(s, txt, p.tree, tr, c)
  BY <1>1, <1>2, <1>3, <1>4, <1>5, <1>6 DEF Refuses, RefusedAt
<1> QED
  BY <1>7, RefusedAtLast

-----------------------------------------------------------------------------
(* DEFINE FIELD.  Its permissions never lose anything; a FLEXIBLE that is   *)
(* left over from an earlier type cannot be read again.                     *)
IsKind(x) == x = KindOf(x.type, x.flexible) /\ x.flexible \in BOOLEAN
FieldTree(t) ==
  /\ PlainTree(t) /\ IsPermissions(t["PERMISSIONS"]) /\ OfField(t["PERMISSIONS"])
  /\ Given(t, "KIND") => IsKind(t["KIND"])
FieldSound(p) == FieldTree(p.tree) /\ \E rk : Sound(FieldSyntax, FieldText, rk, DOMAIN FieldDefault, {}, p)

LEMMA FieldFacts ==
  /\ Syntax["defineField"] = FieldSyntax /\ Text["defineField"] = FieldText
  /\ Default("defineField") = FieldDefault /\ IsTree(FieldDefault)
  /\ DOMAIN FieldDefault = {"PERMISSIONS"} /\ NoRivals(FieldText)
  /\ \E rk : Planned(FieldSyntax, FieldText, rk, DOMAIN FieldDefault, {})
  /\ \A key : key # "FLEXIBLE" => Simple(FieldSyntax, FieldText, DOMAIN FieldDefault, {}, key)
  /\ \A key : key \notin {"name", "ON"} => Skippable(FieldSyntax, key)
<1>1. DOMAIN FieldDefault = {"PERMISSIONS"}
  BY DEF FieldDefault
<1>2. NoRivals(FieldText)
  BY DEF NoRivals, FieldText, Rivals
<1>3. \A a \in DOMAIN FieldSyntax : \A k \in FieldSyntax[a].keys :
        (k # "FLEXIBLE" => k \in Words(FieldText)) /\ (k \notin {"name", "ON"} => ~FieldSyntax[a].must)
  BY DEF Words, FieldSyntax, FieldText, HeadedOn, May, Must, Loop, Stage
<1> QED
  BY <1>1, <1>2, <1>3, Layouts, Plans DEF Laid, Simple, Skippable

LEMMA FieldBegins ==
  FieldSound(Begin(Default("defineField")))
<1>1. PICK t : t = FieldDefault
  OBVIOUS
<1>2. PICK rk : Sound(FieldSyntax, FieldText, rk, DOMAIN t, {}, Begin(t))
  BY <1>1, FieldFacts, SoundBegins
<1>3. PICK p : p = Begin(t) /\ p.tree = t
  BY AtParts DEF Begin
<1>4. FieldTree(t)
  <2>1. t["PERMISSIONS"] = Permissions("FULL") /\ DOMAIN t = {"PERMISSIONS"}
    BY <1>1 DEF FieldDefault
  <2>2. IsPermissions(Permissions("FULL")) /\ OfField(Permissions("FULL"))
    BY DEF IsPermissions, Permissions, OfField, Operation
  <2> QED
    BY <2>1, <2>2 DEF FieldTree, PlainTree, Given
<1> QED
  BY <1>1, <1>2, <1>3, <1>4, FieldFacts DEF FieldSound

LEMMA FieldGroups ==
  ASSUME NEW groups, IsGroups(groups), \A i \in DOMAIN groups : "delete" \notin groups[i][1]
  PROVE  IsPermissions(ReadPermissions(groups, TRUE)) /\ OfField(ReadPermissions(groups, TRUE))
<1>1. IsPermissions(ReadPermissions(groups, TRUE))
  BY DEF IsPermissions, ReadPermissions
<1>2. CASE \E i \in DOMAIN groups : groups[i][1] = Every
  <2>1. DOMAIN groups = {1} /\ groups[1][1] = Every /\ groups[1][2] \in {"NONE", "FULL"}
    BY <1>2 DEF IsGroups
  <2>2. \A o : {i \in DOMAIN groups : groups[i][1] = Every \/ o \in groups[i][1]} = {1}
    BY <2>1
  <2>3. Max({1}) = 1
    BY LastPosition
  <2>4. PICK v \in {"NONE", "FULL"} : v = groups[1][2]
    BY <2>1
  <2>5. ReadPermissions(groups, TRUE) = Permissions(v)
    BY <2>2, <2>3, <2>4 DEF ReadPermissions, Permissions
  <2>6. v = "FULL" => Permissions(v)["delete"] = "FULL"
    BY DEF Permissions, Operation
  <2> QED
    BY <1>1, <2>4, <2>5, <2>6 DEF OfField
<1>3. CASE \A i \in DOMAIN groups : groups[i][1] # Every
  <2>1. {i \in DOMAIN groups : groups[i][1] = Every \/ "delete" \in groups[i][1]} = {}
    BY <1>3
  <2>2. "delete" \in Operation
    BY DEF Operation
  <2>3. ReadPermissions(groups, TRUE)["delete"] = "FULL"
    BY <2>1, <2>2 DEF ReadPermissions
  <2> QED
    BY <1>1, <2>3 DEF OfField
<1> QED
  BY <1>2, <1>3

LEMMA FieldStep ==
  ASSUME NEW p, FieldSound(p), NEW key, NEW arg, NEW q \in Step("defineField", p, key, arg),
         key = "PERMISSIONS" => IsGroups(arg), key = "KIND" => arg.flexible \in BOOLEAN
  PROVE  FieldSound(q)
<1>1. PICK t, D : t = p.tree /\ D = DOMAIN FieldDefault
  OBVIOUS
<1>2. PICK rk : Sound(FieldSyntax, FieldText, rk, D, {}, p) /\ FieldTree(t) /\ IsTree(t) /\ D \subseteq DOMAIN t
  BY <1>1 DEF FieldSound, Sound, Held
<1>3. Read("defineField", t, key, arg) = ReadField(t, key, arg)
  BY DEF Read
<1>4. ASSUME NEW u \in ReadField(t, key, arg)
      PROVE  FieldTree(u) /\ Tame(FieldSyntax, FieldText, D, {}, t, key, u)
  <2>1. key # "FLEXIBLE"
    BY <1>4 DEF ReadField, Refused
  <2>2. Simple(FieldSyntax, FieldText, D, {}, key)
    BY <1>1, <2>1, FieldFacts
  <2>3. CASE key = "KIND"
    <3>1. PICK x, f : u = With(t, key, KindOf(x, f)) /\ f \in BOOLEAN
      <4>1. PICK f \in BOOLEAN : f = (arg.flexible \/ (Given(t, key) /\ t[key].flexible))
        OBVIOUS
      <4>2. u = With(t, key, KindOf(arg.type, f))
        BY <1>4, <2>3, <4>1 DEF ReadField, Unless, Refused
      <4> QED
        BY <4>1, <4>2
    <3>2. IsKind(KindOf(x, f))
      BY <3>1 DEF IsKind, KindOf
    <3>3. /\ DOMAIN u = DOMAIN t \cup {key} /\ u[key] = KindOf(x, f)
          /\ \A k \in DOMAIN t : k # key => u[k] = t[k]
      BY <3>1 DEF With
    <3>4. FieldTree(u)
      BY <1>1, <1>2, <2>3, <3>2, <3>3, FieldFacts DEF FieldTree, PlainTree, Given
    <3> QED
      BY <1>2, <2>2, <3>1, <3>4, GivingIsTame
  <2>4. CASE key = "PERMISSIONS"
    <3>1. u = With(t, key, ReadPermissions(arg, TRUE)) /\ \A i \in DOMAIN arg : "delete" \notin arg[i][1]
      BY <1>4, <2>4 DEF ReadField, Unless, Refused
    <3>2. PICK x : x = ReadPermissions(arg, TRUE) /\ IsPermissions(x) /\ OfField(x)
      BY <2>4, <3>1, FieldGroups
    <3>3. /\ DOMAIN u = DOMAIN t \cup {key} /\ u[key] = x
          /\ \A k \in DOMAIN t : k # key => u[k] = t[k]
      BY <3>1, <3>2 DEF With
    <3>4. FieldTree(u)
      BY <1>1, <1>2, <2>4, <3>2, <3>3, FieldFacts DEF FieldTree, PlainTree, Given
    <3> QED
      BY <1>2, <2>2, <3>1, <3>4, GivingIsTame
  <2>5. CASE key \notin {"KIND", "PERMISSIONS"}
    <3>1. u \in ReadPlain(t, key, arg)
      BY <1>4, <2>1, <2>5 DEF ReadField
    <3>2. Ordinary(FieldSyntax, FieldText, D, {}, t, key, u) /\ PlainTree(u)
      <4>1. Skippable(FieldSyntax, "COMMENT") /\ "COMMENT" \notin D /\ PlainTree(t)
        BY <1>1, <1>2, FieldFacts DEF FieldTree
      <4> QED
        BY <2>2, <3>1, <4>1, ReadPlainIsOrdinary
    <3>3. u["PERMISSIONS"] = t["PERMISSIONS"] /\ (Given(u, "KIND") <=> Given(t, "KIND")) /\ (Given(t, "KIND") => u["KIND"] = t["KIND"])
      BY <1>1, <1>2, <2>5, <3>1, FieldFacts DEF ReadPlain, WithComment, Without, With, Given
    <3> QED
      BY <1>2, <3>2, <3>3, OrdinaryIsTame DEF FieldTree
  <2> QED
    BY <2>3, <2>4, <2>5
<1>5. PICK s : s = "defineField" /\ Syntax[s] = FieldSyntax
  BY FieldFacts
<1>6. \A u \in Read(s, p.tree, key, arg) : Tame(Syntax[s], FieldText, D, {}, p.tree, key, u)
  BY <1>1, <1>3, <1>4, <1>5
<1>7. Sound(Syntax[s], FieldText, rk, D, {}, q) /\ q.tree \in Read(s, p.tree, key, arg)
  BY <1>2, <1>5, <1>6, FieldFacts, TameStep
<1> QED
  BY <1>1, <1>3, <1>4, <1>5, <1>7 DEF FieldSound

LEMMA FieldReturns ==
  ASSUME NEW p, FieldSound(p), MayEnd("defineField", p)
  PROVE  Returns("defineField", p)
<1>1. PICK s, t, txt, D : s = "defineField" /\ t = p.tree /\ txt = FieldText /\ D = DOMAIN FieldDefault
  OBVIOUS
<1>2. PICK rk : Sound(Syntax[s], txt, rk, D, {}, p) /\ FieldTree(t)
  BY <1>1, FieldFacts DEF FieldSound
<1>3. Finished(s, txt, rk, {}, p)
  BY <1>1, <1>2, FieldFacts DEF Finished
<1>4. IsTree(t) /\ DOMAIN t = DOMAIN t \cap Words(txt)
  <2>1. Said(p.tree, txt, Without(p.tree, {})) /\ Without(p.tree, {}) = p.tree
    BY <1>2, WithoutLost
  <2> QED
    BY <1>1, <2>1 DEF Said
<1>5. DOMAIN txt = 1..12 /\ txt[4] = "KIND" /\ \A i \in 1..12 : txt[i] = "KIND" => i = 4
  BY <1>1 DEF FieldText
<1>6. ASSUME NEW i \in 1..12, Given(t, txt[i]), i # 4, NEW b
      PROVE  Read(s, b, txt[i], WriteArg(txt[i], t[txt[i]])) = {With(b, txt[i], t[txt[i]])}
  <2>1. PICK k \in DOMAIN t : k = txt[i] /\ k # "KIND" /\ k # "FLEXIBLE" /\ k # "TYPE"
    BY <1>1, <1>5, <1>6 DEF Given, FieldText
  <2>2. \A x : Read(s, b, k, x) = ReadField(b, k, x)
    BY <1>1 DEF Read
  <2>3. CASE k = "PERMISSIONS"
    <3>1. /\ ReadPermissions(WritePermissions(t[k]), TRUE) = t[k]
          /\ \A j \in DOMAIN WritePermissions(t[k]) : "delete" \notin WritePermissions(t[k])[j][1]
      BY <1>2, <2>3, PermissionsReread DEF FieldTree
    <3>2. WriteArg(k, t[k]) = WritePermissions(t[k])
      BY <2>3 DEF WriteArg
    <3>3. ReadField(b, k, WritePermissions(t[k])) = {With(b, k, t[k])}
      BY <2>3, <3>1 DEF ReadField, Unless
    <3> QED
      BY <2>1, <2>2, <3>2, <3>3
  <2>4. CASE k # "PERMISSIONS"
    <3>1. WriteArg(k, t[k]) = t[k]
      BY <2>1, <2>4 DEF WriteArg
    <3>2. ReadField(b, k, t[k]) = ReadPlain(b, k, t[k])
      BY <2>1, <2>4 DEF ReadField
    <3>3. k = "COMMENT" => t[k] # "NONE"
      BY <1>2, <2>1 DEF FieldTree, PlainTree
    <3>4. ReadPlain(b, k, t[k]) = {With(b, k, t[k])}
      BY <3>3 DEF ReadPlain, WithComment
    <3> QED
      BY <2>1, <2>2, <3>1, <3>2, <3>4
  <2> QED
    BY <2>3, <2>4
<1>7. PICK b : b = Before(s, t, txt, 4)
  OBVIOUS
<1>8. ~Given(b, "KIND")
  <2>1. "KIND" \notin Earlier(t, txt, 4)
    BY <1>5 DEF Earlier
  <2> QED
    BY <1>1, <1>7, <2>1, FieldFacts DEF Before, Given
<1>9. PICK x : x = t["KIND"]
  OBVIOUS
<1>10. Given(t, "KIND") =>
         /\ IsKind(x)
         /\ Unreadable(s, t) <=> (x.flexible /\ x.type # "object")
         /\ Read(s, b, txt[4], WriteArg(txt[4], t[txt[4]]))
              = Unless(x.flexible /\ x.type # "object", With(b, txt[4], t[txt[4]]))
  <2> SUFFICES ASSUME Given(t, "KIND")
               PROVE  /\ IsKind(x)
                      /\ Unreadable(s, t) <=> (x.flexible /\ x.type # "object")
                      /\ Read(s, b, txt[4], WriteArg(txt[4], t[txt[4]]))
                           = Unless(x.flexible /\ x.type # "object", With(b, txt[4], t[txt[4]]))
    OBVIOUS
  <2>1. IsKind(x)
    BY <1>2, <1>9 DEF FieldTree
  <2>2. Unreadable(s, t) <=> (x.flexible /\ x.type # "object")
    BY <1>1, <1>9 DEF Unreadable
  <2>3. Read(s, b, "KIND", WriteArg("KIND", x)) = ReadField(b, "KIND", x)
    BY <1>1 DEF Read, WriteArg
  <2>4. KindOf(x.type, x.flexible \/ (Given(b, "KIND") /\ b["KIND"].flexible)) = x
    <3>1. (x.flexible \/ (Given(b, "KIND") /\ b["KIND"].flexible)) = x.flexible
      BY <1>8, <2>1 DEF IsKind
    <3> QED
      BY <2>1, <3>1 DEF IsKind
  <2>5. ReadField(b, "KIND", x) = Unless(x.flexible /\ x.type # "object", With(b, "KIND", x))
    BY <2>4 DEF ReadField
  <2> QED
    BY <1>5, <1>9, <2>1, <2>2, <2>3, <2>5
<1>11. Written(s, p.tree) = ShowAll(p.tree, txt) /\ Kept(s, p.tree) = t
  BY <1>1, FieldFacts DEF Written, Kept, RemoveSyntax
<1>12. CASE Unreadable(s, t)
  <2>1. Given(t, "KIND")
    BY <1>1, <1>12 DEF Unreadable
  <2>2. Read(s, b, txt[4], WriteArg(txt[4], t[txt[4]])) = {}
    <3>1. \A a, v : a => Unless(a, v) = {}
      BY DEF Unless, Refused
    <3> QED
      BY <1>10, <1>12, <2>1, <3>1
  <2>3. \A i \in DOMAIN txt : i < 4 /\ Given(t, txt[i]) =>
          Read(s, Before(s, t, txt, i), txt[i], WriteArg(txt[i], t[txt[i]])) = {With(Before(s, t, txt, i), txt[i], t[txt[i]])}
    <3>1. \A i \in 1..12 : i < 4 => i # 4
      OBVIOUS
    <3> QED
      BY <1>5, <1>6, <3>1
  <2>4. RefusedAt(s, txt, p.tree, t, 4)
    BY <1>1, <1>4, <1>5, <1>7, <2>1, <2>2, <2>3 DEF RefusedAt
  <2>5. TreesOf(s, ShowAll(p.tree, txt)) = {}
    BY <1>3, <2>4, NotReread
  <2> QED
    BY <1>1, <1>11, <1>12, <2>5 DEF Returns
<1>13. CASE ~Unreadable(s, t)
  <2>1. \A i \in DOMAIN txt : Given(t, txt[i]) =>
          Read(s, Before(s, t, txt, i), txt[i], WriteArg(txt[i], t[txt[i]])) = {With(Before(s, t, txt, i), txt[i], t[txt[i]])}
    <3>1. Given(t, txt[4]) => Read(s, b, txt[4], WriteArg(txt[4], t[txt[4]])) = {With(b, txt[4], t[txt[4]])}
      BY <1>5, <1>10, <1>13 DEF Unless
    <3> QED
      BY <1>5, <1>6, <1>7, <3>1
  <2>2. Complete(s, t)
    BY <1>1 DEF MayEnd
  <2>3. Rereads(s, txt, p.tree, t)
    BY <1>1, <1>4, <2>1, <2>2 DEF Rereads
  <2>4. TreesOf(s, ShowAll(p.tree, txt)) = {AstOf(s, t)}
    BY <1>3, <2>3, SoundReread
  <2> QED
    BY <1>1, <1>11, <1>13, <2>4 DEF Returns
<1> QED
  BY <1>12, <1>13

-----------------------------------------------------------------------------
(* DEFINE EVENT.  What ASYNC gives by default is replaced by the RETRY and  *)
(* the MAXDEPTH that are written after it.                                 *)
EventTree(t) ==
  /\ PlainTree(t)
  /\ \A k \in {"RETRY", "MAXDEPTH"} : Given(t, k) <=> Given(t, "ASYNC")
EventSound(p) == EventTree(p.tree) /\ \E rk : Sound(EventSyntax, EventText, rk, DOMAIN EventDefault, {}, p)

LEMMA EventFacts ==
  /\ Syntax["defineEvent"] = EventSyntax /\ Text["defineEvent"] = EventText
  /\ Default("defineEvent") = EventDefault /\ IsTree(EventDefault)
  /\ DOMAIN EventDefault = {"WHEN"} /\ NoRivals(EventText)
  /\ \E rk : Planned(EventSyntax, EventText, rk, DOMAIN EventDefault, {})
  /\ \A key : Simple(EventSyntax, EventText, DOMAIN EventDefault, {}, key)
  /\ Skippable(EventSyntax, "COMMENT")
  /\ \A a \in DOMAIN EventSyntax : "ASYNC" \in EventSyntax[a].keys =>
       ~EventSyntax[a].must /\ {"ASYNC", "RETRY", "MAXDEPTH"} \subseteq EventSyntax[a].keys \cap Words(EventText)
<1>1. DOMAIN EventDefault = {"WHEN"}
  BY DEF EventDefault
<1>2. NoRivals(EventText)
  BY DEF NoRivals, EventText, Rivals
<1>3. \A a \in DOMAIN EventSyntax : \A k \in EventSyntax[a].keys :
        k \in Words(EventText) /\ (k \notin {"name", "ON"} => ~EventSyntax[a].must)
  BY DEF Words, EventSyntax, EventText, HeadedOn, May, Must, Loop, Stage
<1>4. \A a \in DOMAIN EventSyntax : "ASYNC" \in EventSyntax[a].keys =>
        {"ASYNC", "RETRY", "MAXDEPTH"} \subseteq EventSyntax[a].keys
  BY DEF EventSyntax, HeadedOn, May, Must, Loop, Stage
<1> QED
  BY <1>1, <1>2, <1>3, <1>4, Layouts, Plans DEF Laid, Simple, Skippable

LEMMA EventBegins ==
  EventSound(Begin(Default("defineEvent")))
<1>1. PICK t : t = EventDefault
  OBVIOUS
<1>2. PICK rk : Sound(EventSyntax, EventText, rk, DOMAIN t, {}, Begin(t))
  BY <1>1, EventFacts, SoundBegins
<1>3. PICK p : p = Begin(t) /\ p.tree = t
  BY AtParts DEF Begin
<1>4. EventTree(t)
  BY <1>1, EventFacts DEF EventTree, PlainTree, Given
<1> QED
  BY <1>1, <1>2, <1>3, <1>4, EventFacts DEF EventSound

LEMMA EventStep ==
  ASSUME NEW p, EventSound(p), NEW key, NEW arg, NEW q \in Step("defineEvent", p, key, arg)
  PROVE  EventSound(q)
<1>1. PICK t, D : t = p.tree /\ D = DOMAIN EventDefault
  OBVIOUS
<1>2. PICK rk : Sound(EventSyntax, EventText, rk, D, {}, p) /\ EventTree(t) /\ IsTree(t) /\ D \subseteq DOMAIN t
  BY <1>1 DEF EventSound, Sound, Held
<1>3. Read("defineEvent", t, key, arg) = ReadEvent(t, key, arg)
  BY DEF Read
<1>4. ASSUME NEW u \in ReadEvent(t, key, arg)
      PROVE  EventTree(u) /\ Tame(EventSyntax, EventText, D, {}, t, key, u)
  <2>1. CASE key = "ASYNC"
    <3>1. u = With(With(With(t, key, arg), "RETRY", "3"), "MAXDEPTH", "10")
      BY <1>4, <2>1 DEF ReadEvent
    <3>2. /\ IsTree(u) /\ DOMAIN u = DOMAIN t \cup {"ASYNC", "RETRY", "MAXDEPTH"}
          /\ \A k \in DOMAIN t : k \notin {"ASYNC", "RETRY", "MAXDEPTH"} => u[k] = t[k]
      BY <2>1, <3>1 DEF With, IsTree
    <3>3. EventTree(u)
      BY <1>2, <3>2 DEF EventTree, PlainTree, Given
    <3>4. Tame(EventSyntax, EventText, D, {}, t, key, u)
      BY <1>1, <1>2, <2>1, <3>2, EventFacts DEF Tame
    <3> QED
      BY <3>3, <3>4
  <2>2. CASE key \in {"RETRY", "MAXDEPTH"}
    <3>1. Given(t, "ASYNC") /\ u = With(t, key, arg)
      BY <1>4, <2>2 DEF ReadEvent, Unless, Refused
    <3>2. /\ DOMAIN u = DOMAIN t \cup {key}
          /\ \A k \in DOMAIN t : k # key => u[k] = t[k]
      BY <3>1 DEF With
    <3>3. EventTree(u)
      BY <1>2, <2>2, <3>1, <3>2 DEF EventTree, PlainTree, Given
    <3> QED
      BY <1>1, <1>2, <3>1, <3>3, EventFacts, GivingIsTame
  <2>3. CASE key \notin {"ASYNC", "RETRY", "MAXDEPTH"}
    <3>1. u \in ReadPlain(t, key, arg)
      BY <1>4, <2>3 DEF ReadEvent
    <3>2. Ordinary(EventSyntax, EventText, D, {}, t, key, u) /\ PlainTree(u)
      <4>1. Skippable(EventSyntax, "COMMENT") /\ "COMMENT" \notin D /\ PlainTree(t)
        BY <1>1, <1>2, EventFacts DEF EventTree
      <4>2. Simple(EventSyntax, EventText, D, {}, key)
        BY <1>1, EventFacts
      <4> QED
        BY <3>1, <4>1, <4>2, ReadPlainIsOrdinary
    <3>3. \A k \in {"ASYNC", "RETRY", "MAXDEPTH"} : Given(u, k) <=> Given(t, k)
      BY <2>3, <3>1 DEF ReadPlain, WithComment, Without, With, Given
    <3> QED
      BY <1>2, <3>2, <3>3, OrdinaryIsTame DEF EventTree
  <2> QED
    BY <2>1, <2>2, <2>3
<1>5. PICK s : s = "defineEvent" /\ Syntax[s] = EventSyntax
  BY EventFacts
<1>6. \A u \in Read(s, p.tree, key, arg) : Tame(Syntax[s], EventText, D, {}, p.tree, key, u)
  BY <1>1, <1>3, <1>4, <1>5
<1>7. Sound(Syntax[s], EventText, rk, D, {}, q) /\ q.tree \in Read(s, p.tree, key, arg)
  BY <1>2, <1>5, <1>6, EventFacts, TameStep
<1> QED
  BY <1>1, <1>3, <1>4, <1>5, <1>7 DEF EventSound

LEMMA EventReturns ==
  ASSUME NEW p, EventSound(p), MayEnd("defineEvent", p)
  PROVE  Returns("defineEvent", p)
<1>1. PICK s, t, txt, D : s = "defineEvent" /\ t = p.tree /\ txt = EventText /\ D = DOMAIN EventDefault
  OBVIOUS
<1>2. PICK rk : Sound(Syntax[s], txt, rk, D, {}, p) /\ EventTree(t)
  BY <1>1, EventFacts DEF EventSound
<1>3. Finished(s, txt, rk, {}, p)
  BY <1>1, <1>2, EventFacts DEF Finished
<1>4. IsTree(t) /\ DOMAIN t = DOMAIN t \cap Words(txt) /\ D \subseteq DOMAIN t
  <2>1. Said(p.tree, txt, Without(p.tree, {})) /\ Without(p.tree, {}) = p.tree
    BY <1>2, WithoutLost
  <2> QED
    BY <1>1, <1>2, <2>1 DEF Said, Sound, Held
<1>5. PICK X : X = [RETRY |-> "3", MAXDEPTH |-> "10"]
  OBVIOUS
<1>6. /\ DOMAIN txt = 1..9 /\ Len(txt) = 9 /\ txt[4] = "ASYNC"
      /\ \A i \in 1..9 : /\ txt[i] = "ASYNC" <=> i = 4
                         /\ txt[i] \in {"RETRY", "MAXDEPTH"} => i > 4
                         /\ txt[i] \notin {"PERMISSIONS", "TYPE"}
  BY <1>1 DEF EventText
<1>7. ASSUME NEW i \in 1..9, Given(t, txt[i]), NEW b, i > 4 /\ Given(t, "ASYNC") => Given(b, "ASYNC")
      PROVE  LET u == With(b, txt[i], t[txt[i]])
             IN  Read(s, b, txt[i], WriteArg(txt[i], t[txt[i]])) = {IF i = 4 THEN Over(X, u) ELSE u}
  <2>1. PICK k \in DOMAIN t : k = txt[i]
    BY <1>7 DEF Given
  <2>2. Read(s, b, k, WriteArg(k, t[k])) = ReadEvent(b, k, t[k])
    BY <1>1, <1>6, <2>1 DEF Read, WriteArg
  <2>3. CASE k = "ASYNC"
    <3>1. ReadEvent(b, k, t[k]) = {With(With(With(b, k, t[k]), "RETRY", "3"), "MAXDEPTH", "10")}
      BY <2>3 DEF ReadEvent
    <3>2. \A v : With(With(v, "RETRY", "3"), "MAXDEPTH", "10") = Over(X, v)
      <4> TAKE v
      <4>1. DOMAIN X = {"RETRY", "MAXDEPTH"} /\ X["RETRY"] = "3" /\ X["MAXDEPTH"] = "10"
        BY <1>5
      <4> QED
        BY <4>1 DEF With, Over
    <3>3. i = 4
      BY <1>6, <2>1, <2>3
    <3> QED
      BY <2>1, <2>2, <3>1, <3>2, <3>3
  <2>4. CASE k \in {"RETRY", "MAXDEPTH"}
    <3>1. Given(b, "ASYNC") /\ i # 4
      BY <1>2, <1>6, <1>7, <2>1, <2>4 DEF EventTree
    <3>2. ReadEvent(b, k, t[k]) = {With(b, k, t[k])}
      BY <2>4, <3>1 DEF ReadEvent, Unless
    <3> QED
      BY <2>1, <2>2, <3>1, <3>2
  <2>5. CASE k \notin {"ASYNC", "RETRY", "MAXDEPTH"}
    <3>1. ReadEvent(b, k, t[k]) = ReadPlain(b, k, t[k]) /\ i # 4
      BY <1>6, <2>1, <2>5 DEF ReadEvent
    <3>2. k = "COMMENT" => t[k] # "NONE"
      BY <1>2, <2>1 DEF EventTree, PlainTree
    <3>3. ReadPlain(b, k, t[k]) = {With(b, k, t[k])}
      BY <3>2 DEF ReadPlain, WithComment
    <3> QED
      BY <2>1, <2>2, <3>1, <3>3
  <2> QED
    BY <2>3, <2>4, <2>5
<1>8. ASSUME NEW i \in 1..9, i > 4, Given(t, "ASYNC")
      PROVE  Given(Begun(s, t, txt, 4, X, i), "ASYNC")
  <2>1. "ASYNC" \in Earlier(t, txt, i)
    BY <1>6, <1>8 DEF Earlier, Given
  <2> QED
    BY <2>1 DEF Begun, Over, Given
<1>9. PICK r : r = Begun(s, t, txt, 4, X, Len(txt) + 1)
  OBVIOUS
<1>10. r = t
  <2>1. Earlier(t, txt, 10) = DOMAIN t
    <3>1. \A l \in 1..9 : l < 10
      OBVIOUS
    <3> QED
      BY <1>4, <1>6, <3>1 DEF Earlier, Words
  <2>2. r = Over([k \in DOMAIN t |-> t[k]], IF "ASYNC" \in DOMAIN t THEN Over(X, Default(s)) ELSE Default(s))
    BY <1>6, <1>9, <2>1 DEF Begun
  <2>3. DOMAIN Default(s) \subseteq DOMAIN t
    BY <1>1, <1>4, EventFacts
  <2>4. DOMAIN X = {"RETRY", "MAXDEPTH"}
    BY <1>5
  <2>5. "ASYNC" \in DOMAIN t => DOMAIN X \subseteq DOMAIN t
    BY <1>2, <2>4 DEF EventTree, Given
  <2> QED
    BY <1>4, <2>2, <2>3, <2>5 DEF Over, IsTree
<1>11. Complete(s, t)
  BY <1>1 DEF MayEnd
<1>12. RereadsToo(s, txt, p.tree, t, 4, X)
  <2>1. 4 \in DOMAIN txt /\ \A j \in DOMAIN txt : j <= 4 => txt[j] \notin DOMAIN X
    BY <1>5, <1>6
  <2> QED
    BY <1>1, <1>4, <1>6, <1>7, <1>8, <1>9, <1>10, <1>11, <2>1 DEF RereadsToo
<1>13. TreesOf(s, ShowAll(p.tree, txt)) = {AstOf(s, t)}
  BY <1>3, <1>9, <1>10, <1>12, TooReread
<1>14. Written(s, p.tree) = ShowAll(p.tree, txt) /\ ~Unreadable(s, p.tree) /\ Kept(s, p.tree) = t
  BY <1>1, EventFacts DEF Written, Unreadable, Kept, RemoveSyntax
<1> QED
  BY <1>1, <1>13, <1>14 DEF Returns

-----------------------------------------------------------------------------
(* DEFINE USER.  Its roles are written in capitals.                         *)
UserTree(t) == PlainTree(t) /\ ~(Given(t, "PASSWORD") /\ Given(t, "PASSHASH"))
UserSound(p) == UserTree(p.tree) /\ \E rk : Sound(UserSyntax, UserText, rk, DOMAIN UserDefault, {}, p)

LEMMA UserFacts ==
  /\ Syntax["defineUser"] = UserSyntax
  /\ Default("defineUser") = UserDefault /\ IsTree(UserDefault)
  /\ DOMAIN UserDefault = {"ROLES", "FOR_TOKEN", "FOR_SESSION"} /\ NoRivals(UserText)
  /\ \E rk : Planned(UserSyntax, UserText, rk, DOMAIN UserDefault, {})
  /\ \A key : Simple(UserSyntax, UserText, DOMAIN UserDefault, {}, key)
  /\ Skippable(UserSyntax, "COMMENT")
<1>1. DOMAIN UserDefault = {"ROLES", "FOR_TOKEN", "FOR_SESSION"} /\ IsTree(UserDefault)
  BY DEF UserDefault, With, IsTree
<1>2. NoRivals(UserText)
  BY DEF NoRivals, UserText, Rivals
<1>3. \A a \in DOMAIN UserSyntax : \A k \in UserSyntax[a].keys :
        k \in Words(UserText) /\ (k \notin {"name", "ON"} => ~UserSyntax[a].must)
  BY DEF Words, UserSyntax, UserText, HeadedOn, May, Must, Loop, Stage
<1>4. Syntax["defineUser"] = UserSyntax
  BY DEF Syntax, Removals, Over, RemoveSyntax, RemoveOnTableSyntax, RemoveOtherSyntax
<1>5. Default("defineUser") = UserDefault
  BY DEF Default, Defaults
<1> QED
  BY <1>1, <1>2, <1>3, <1>4, <1>5, Plans DEF Simple, Skippable

LEMMA UserBegins ==
  UserSound(Begin(Default("defineUser")))
<1>1. PICK t : t = UserDefault
  OBVIOUS
<1>2. PICK rk : Sound(UserSyntax, UserText, rk, DOMAIN t, {}, Begin(t))
  BY <1>1, UserFacts, SoundBegins
<1>3. PICK p : p = Begin(t) /\ p.tree = t
  BY AtParts DEF Begin
<1>4. UserTree(t)
  BY <1>1, UserFacts DEF UserTree, PlainTree, Given
<1> QED
  BY <1>1, <1>2, <1>3, <1>4, UserFacts DEF UserSound

LEMMA UserStep ==
  ASSUME NEW p, UserSound(p), NEW key, NEW arg, NEW q \in Step("defineUser", p, key, arg)
  PROVE  UserSound(q)
<1>1. PICK t, D : t = p.tree /\ D = DOMAIN UserDefault
  OBVIOUS
<1>2. PICK rk : Sound(UserSyntax, UserText, rk, D, {}, p) /\ UserTree(t) /\ IsTree(t) /\ D \subseteq DOMAIN t
  BY <1>1 DEF UserSound, Sound, Held
<1>3. Read("defineUser", t, key, arg) = ReadUser(t, key, arg)
  BY DEF Read
<1>4. ASSUME NEW u \in ReadUser(t, key, arg)
      PROVE  UserTree(u) /\ Tame(UserSyntax, UserText, D, {}, t, key, u)
  <2>1. CASE key \in {"PASSWORD", "PASSHASH"}
    <3>1. /\ key = "PASSWORD" => ~Given(t, "PASSHASH")
          /\ key = "PASSHASH" => ~Given(t, "PASSWORD")
          /\ u = With(t, key, arg)
      BY <1>4, <2>1 DEF ReadUser, Unless, Refused
    <3>2. DOMAIN u = DOMAIN t \cup {key} /\ \A k \in DOMAIN t : k # key => u[k] = t[k]
      BY <3>1 DEF With
    <3>3. UserTree(u)
      BY <1>2, <2>1, <3>1, <3>2 DEF UserTree, PlainTree, Given
    <3> QED
      BY <1>1, <1>2, <3>1, <3>3, UserFacts, GivingIsTame
  <2>2. CASE key \notin {"PASSWORD", "PASSHASH"}
    <3>1. u \in ReadPlain(t, key, arg)
      BY <1>4, <2>2 DEF ReadUser
    <3>2. Ordinary(UserSyntax, UserText, D, {}, t, key, u) /\ PlainTree(u)
      <4>1. Skippable(UserSyntax, "COMMENT") /\ "COMMENT" \notin D /\ PlainTree(t)
        BY <1>1, <1>2, UserFacts DEF UserTree
      <4>2. Simple(UserSyntax, UserText, D, {}, key)
        BY <1>1, UserFacts
      <4> QED
        BY <3>1, <4>1, <4>2, ReadPlainIsOrdinary
    <3>3. \A k \in {"PASSWORD", "PASSHASH"} : Given(u, k) <=> Given(t, k)
      BY <2>2, <3>1 DEF ReadPlain, WithComment, Without, With, Given
    <3> QED
      BY <1>2, <3>2, <3>3, OrdinaryIsTame DEF UserTree
  <2> QED
    BY <2>1, <2>2
<1>5. PICK s : s = "defineUser" /\ Syntax[s] = UserSyntax
  BY UserFacts
<1>6. \A u \in Read(s, p.tree, key, arg) : Tame(Syntax[s], UserText, D, {}, p.tree, key, u)
  BY <1>1, <1>3, <1>4, <1>5
<1>7. Sound(Syntax[s], UserText, rk, D, {}, q) /\ q.tree \in Read(s, p.tree, key, arg)
  BY <1>2, <1>5, <1>6, UserFacts, TameStep
<1> QED
  BY <1>1, <1>3, <1>4, <1>5, <1>7 DEF UserSound

\* Another tree with the same keywords is as sound.
LEMMA Alike ==
  ASSUME NEW syn, NEW txt, NEW rk, NEW D, NEW Lost, NEW p, Sound(syn, txt, rk, D, Lost, p),
         NEW t, IsTree(t), DOMAIN t = DOMAIN p.tree
  PROVE  \E q : q.tree = t /\ q.stage = p.stage /\ Sound(syn, txt, rk, D, Lost, q)
<1>1. PICK q : q.tree = t /\ q.stage = p.stage
  <2>1. At(p.stage, t).tree = t /\ At(p.stage, t).stage = p.stage
    BY AtParts
  <2> QED
    BY <2>1
<1> QED
  BY <1>1 DEF Sound, Held, Compatible, GivenIn, Given

LEMMA UserReturns ==
  ASSUME NEW p, UserSound(p), MayEnd("defineUser", p)
  PROVE  Returns("defineUser", p)
<1>1. PICK s, t, txt, D : s = "defineUser" /\ t = p.tree /\ txt = UserText /\ D = DOMAIN UserDefault
  OBVIOUS
<1>2. PICK rk : Sound(Syntax[s], txt, rk, D, {}, p) /\ UserTree(t)
  BY <1>1, UserFacts DEF UserSound
<1>3. IsTree(t) /\ DOMAIN t = DOMAIN t \cap Words(txt) /\ D \subseteq DOMAIN t
  <2>1. Said(p.tree, txt, Without(p.tree, {})) /\ Without(p.tree, {}) = p.tree
    BY <1>2, WithoutLost
  <2> QED
    BY <1>1, <1>2, <2>1 DEF Said, Sound, Held
<1>4. PICK w : w = InCapitals(t)
  OBVIOUS
<1>5. IsTree(w) /\ DOMAIN w = DOMAIN t /\ \A k \in DOMAIN t : k # "ROLES" => w[k] = t[k]
  BY <1>3, <1>4 DEF InCapitals, IsTree
<1>6. PICK q : q.tree = w /\ q.stage = p.stage /\ Sound(Syntax[s], txt, rk, D, {}, q)
  BY <1>1, <1>2, <1>5, Alike
<1>7. Finished(s, txt, rk, {}, q)
  BY <1>1, <1>6, UserFacts DEF Finished, MayEnd, Ends, Complete
<1>8. ASSUME NEW i \in DOMAIN txt, Given(w, txt[i]), NEW b, DOMAIN b \subseteq DOMAIN w
      PROVE  Read(s, b, txt[i], WriteArg(txt[i], w[txt[i]])) = {With(b, txt[i], w[txt[i]])}
  <2>1. PICK k \in DOMAIN w : k = txt[i] /\ k \notin {"PERMISSIONS", "TYPE"}
    BY <1>1, <1>8 DEF Given, UserText
  <2>2. Read(s, b, k, WriteArg(k, w[k])) = ReadUser(b, k, w[k])
    BY <1>1, <2>1 DEF Read, WriteArg
  <2>3. CASE k \in {"PASSWORD", "PASSHASH"}
    BY <1>2, <1>5, <1>8, <2>1, <2>2, <2>3 DEF ReadUser, Unless, UserTree, Given
  <2>4. CASE k \notin {"PASSWORD", "PASSHASH"}
    <3>1. ReadUser(b, k, w[k]) = ReadPlain(b, k, w[k])
      BY <2>4 DEF ReadUser
    <3>2. k = "COMMENT" => w[k] # "NONE"
      BY <1>2, <1>5, <2>1 DEF UserTree, PlainTree
    <3>3. ReadPlain(b, k, w[k]) = {With(b, k, w[k])}
      BY <3>2 DEF ReadPlain, WithComment
    <3> QED
      BY <2>1, <2>2, <3>1, <3>3
  <2> QED
    BY <2>3, <2>4
<1>9. ASSUME NEW i \in DOMAIN txt PROVE DOMAIN Before(s, w, txt, i) \subseteq DOMAIN w
  <2>1. DOMAIN Default(s) \subseteq DOMAIN w
    BY <1>1, <1>3, <1>5, UserFacts
  <2> QED
    BY <2>1 DEF Before, Earlier
<1>10. Rereads(s, txt, q.tree, w)
  <2>1. Complete(s, w)
    BY <1>1 DEF Complete
  <2> QED
    BY <1>3, <1>5, <1>6, <1>8, <1>9, <2>1 DEF Rereads
<1>11. TreesOf(s, ShowAll(q.tree, txt)) = {AstOf(s, w)}
  BY <1>7, <1>10, SoundReread
<1>12. Written(s, p.tree) = ShowAll(w, txt) /\ ~Unreadable(s, p.tree) /\ Kept(s, p.tree) = w
  BY <1>1, <1>4 DEF Written, WriteUser, Unreadable, Kept, RemoveSyntax
<1> QED
  BY <1>1, <1>6, <1>11, <1>12 DEF Returns

-----------------------------------------------------------------------------
(* DEFINE CONFIG GRAPHQL.                                                   *)
GraphQlTree(t) == Given(t, "INTROSPECTION") => t["INTROSPECTION"] # "AUTO"
GraphQlSound(p) == GraphQlTree(p.tree) /\ \E rk : Sound(GraphQlSyntax, GraphQlText, rk, DOMAIN GraphQlDefault, {}, p)

LEMMA GraphQlFacts ==
  /\ Syntax["configGraphQl"] = GraphQlSyntax /\ Text["configGraphQl"] = GraphQlText
  /\ Default("configGraphQl") = GraphQlDefault /\ IsTree(GraphQlDefault)
  /\ DOMAIN GraphQlDefault = {"TABLES", "FUNCTIONS"} /\ NoRivals(GraphQlText)
  /\ \E rk : Planned(GraphQlSyntax, GraphQlText, rk, DOMAIN GraphQlDefault, {})
  /\ \A key : key \notin {"NONE", "AUTO"} => Simple(GraphQlSyntax, GraphQlText, DOMAIN GraphQlDefault, {}, key)
  /\ \A key : Skippable(GraphQlSyntax, key)
<1>1. DOMAIN GraphQlDefault = {"TABLES", "FUNCTIONS"}
  BY DEF GraphQlDefault
<1>2. NoRivals(GraphQlText)
  BY DEF NoRivals, GraphQlText, Rivals
<1>3. \A a \in DOMAIN GraphQlSyntax : \A k \in GraphQlSyntax[a].keys :
        (k \notin {"NONE", "AUTO"} => k \in Words(GraphQlText)) /\ ~GraphQlSyntax[a].must
  BY DEF Words, GraphQlSyntax, GraphQlText, May, Loop, Stage
<1> QED
  BY <1>1, <1>2, <1>3, Layouts, Plans DEF Laid, Simple, Skippable

LEMMA GraphQlBegins ==
  GraphQlSound(Begin(Default("configGraphQl")))
<1>1. PICK t : t = GraphQlDefault
  OBVIOUS
<1>2. PICK rk : Sound(GraphQlSyntax, GraphQlText, rk, DOMAIN t, {}, Begin(t))
  BY <1>1, GraphQlFacts, SoundBegins
<1>3. PICK p : p = Begin(t) /\ p.tree = t
  BY AtParts DEF Begin
<1>4. GraphQlTree(t)
  BY <1>1, GraphQlFacts DEF GraphQlTree, Given
<1> QED
  BY <1>1, <1>2, <1>3, <1>4, GraphQlFacts DEF GraphQlSound

LEMMA GraphQlStep ==
  ASSUME NEW p, GraphQlSound(p), NEW key, NEW arg, NEW q \in Step("configGraphQl", p, key, arg)
  PROVE  GraphQlSound(q)
<1>1. PICK t, D : t = p.tree /\ D = DOMAIN GraphQlDefault
  OBVIOUS
<1>2. PICK rk : Sound(GraphQlSyntax, GraphQlText, rk, D, {}, p) /\ GraphQlTree(t) /\ IsTree(t) /\ D \subseteq DOMAIN t
  BY <1>1 DEF GraphQlSound, Sound, Held
<1>3. Read("configGraphQl", t, key, arg) = ReadGraphQl(t, key, arg)
  BY DEF Read
<1>4. ASSUME NEW u \in ReadGraphQl(t, key, arg)
      PROVE  GraphQlTree(u) /\ Tame(GraphQlSyntax, GraphQlText, D, {}, t, key, u)
  <2>1. CASE key \in {"NONE", "AUTO"}
    <3>1. u = With(With(t, "TABLES", key), "FUNCTIONS", key)
      BY <1>4, <2>1 DEF ReadGraphQl
    <3>2. /\ IsTree(u) /\ DOMAIN u = DOMAIN t
          /\ \A k \in DOMAIN t : k \notin {"TABLES", "FUNCTIONS"} => u[k] = t[k]
      BY <1>1, <1>2, <3>1, GraphQlFacts DEF With, IsTree
    <3>3. GraphQlTree(u)
      BY <1>2, <3>2 DEF GraphQlTree, Given
    <3>4. Tame(GraphQlSyntax, GraphQlText, D, {}, t, key, u)
      BY <1>1, <1>2, <3>2, GraphQlFacts DEF Tame, Skippable
    <3> QED
      BY <3>3, <3>4
  <2>2. CASE key = "INTROSPECTION" /\ arg = "AUTO"
    <3>1. u = Without(t, {key})
      BY <1>4, <2>2 DEF ReadGraphQl
    <3>2. DOMAIN u = DOMAIN t \ {key}
      BY <3>1 DEF Without
    <3>3. GraphQlTree(u)
      BY <2>2, <3>2 DEF GraphQlTree, Given
    <3>4. key \notin D /\ \A a \in DOMAIN GraphQlSyntax : key \in GraphQlSyntax[a].keys => ~GraphQlSyntax[a].must
      BY <1>1, <2>2, GraphQlFacts DEF Skippable
    <3> QED
      BY <1>2, <3>1, <3>3, <3>4, TakingIsTame
  <2>3. CASE key \notin {"NONE", "AUTO"} /\ ~(key = "INTROSPECTION" /\ arg = "AUTO")
    <3>1. u = With(t, key, arg)
      BY <1>4, <2>3 DEF ReadGraphQl
    <3>2. DOMAIN u = DOMAIN t \cup {key} /\ u[key] = arg /\ \A k \in DOMAIN t : k # key => u[k] = t[k]
      BY <3>1 DEF With
    <3>3. GraphQlTree(u)
      BY <1>2, <2>3, <3>2 DEF GraphQlTree, Given
    <3> QED
      BY <1>1, <1>2, <2>3, <3>1, <3>3, GraphQlFacts, GivingIsTame
  <2> QED
    BY <2>1, <2>2, <2>3
<1>5. PICK s : s = "configGraphQl" /\ Syntax[s] = GraphQlSyntax
  BY GraphQlFacts
<1>6. \A u \in Read(s, p.tree, key, arg) : Tame(Syntax[s], GraphQlText, D, {}, p.tree, key, u)
  BY <1>1, <1>3, <1>4, <1>5
<1>7. Sound(Syntax[s], GraphQlText, rk, D, {}, q) /\ q.tree \in Read(s, p.tree, key, arg)
  BY <1>2, <1>5, <1>6, GraphQlFacts, TameStep
<1> QED
  BY <1>1, <1>3, <1>4, <1>5, <1>7 DEF GraphQlSound

LEMMA GraphQlReturns ==
  ASSUME NEW p, GraphQlSound(p), MayEnd("configGraphQl", p)
  PROVE  Returns("configGraphQl", p)
<1>1. PICK s, t, txt, D : s = "configGraphQl" /\ t = p.tree /\ txt = GraphQlText /\ D = DOMAIN GraphQlDefault
  OBVIOUS
<1>2. PICK rk : Sound(Syntax[s], txt, rk, D, {}, p) /\ GraphQlTree(t)
  BY <1>1, GraphQlFacts DEF GraphQlSound
<1>3. Finished(s, txt, rk, {}, p)
  BY <1>1, <1>2, GraphQlFacts DEF Finished
<1>4. ASSUME NEW i \in DOMAIN txt, Given(t, txt[i]), NEW b
      PROVE  Read(s, b, txt[i], WriteArg(txt[i], t[txt[i]])) = {With(b, txt[i], t[txt[i]])}
  <2>1. PICK k : k = txt[i] /\ k \notin {"PERMISSIONS", "TYPE", "NONE", "AUTO"} /\ Given(t, k)
    BY <1>1, <1>4 DEF GraphQlText
  <2>2. WriteArg(k, t[k]) = t[k]
    BY <2>1 DEF WriteArg
  <2>3. Read(s, b, k, t[k]) = ReadGraphQl(b, k, t[k])
    BY <1>1 DEF Read
  <2>4. ReadGraphQl(b, k, t[k]) = {With(b, k, t[k])}
    BY <1>2, <2>1 DEF ReadGraphQl, GraphQlTree
  <2> QED
    BY <2>1, <2>2, <2>3, <2>4
<1>5. AsWritten(s, txt, p.tree)
  BY <1>1, <1>4 DEF AsWritten
<1>6. Without(p.tree, {}) = p.tree /\ Complete(s, p.tree)
  BY <1>1, <1>2, WithoutLost DEF MayEnd
<1>7. TreesOf(s, ShowAll(p.tree, txt)) = {AstOf(s, Without(p.tree, {}))}
  BY <1>3, <1>5, <1>6, AsWrittenReread
<1>8. Written(s, p.tree) = ShowAll(p.tree, txt) /\ ~Unreadable(s, p.tree) /\ Kept(s, p.tree) = p.tree
  BY <1>1, GraphQlFacts DEF Written, Unreadable, Kept, RemoveSyntax
<1> QED
  BY <1>1, <1>6, <1>7, <1>8 DEF Returns

-----------------------------------------------------------------------------
(* Statements with a keyword that two stages know.                          *)

\* The clauses of t come in the order of the stages st.
Arranged(s, txt, st, t) ==
  /\ IsSyntax(Syntax[s]) /\ IsText(txt) /\ IsTree(Default(s)) /\ DOMAIN Default(s) \subseteq DOMAIN t
  /\ InOrder(Syntax[s], Len(txt), GivenIn(t, txt), txt, st)

LEMMA ArrangedReread ==
  ASSUME NEW s, NEW txt, NEW st, NEW t, NEW K, Arranged(s, txt, st, t), DOMAIN t \subseteq Words(txt),
         Rereads(s, txt, t, K)
  PROVE  TreesOf(s, ShowAll(t, txt)) = {AstOf(s, K)}
<1>1. PICK n \in Nat : n = Len(txt) /\ DOMAIN txt = 1..n
  BY DEF Arranged, IsText
<1>2. PICK G, arg, tr : /\ G = GivenIn(t, txt) /\ arg = [i \in 1..n |-> WriteArg(txt[i], t[txt[i]])]
                        /\ tr = [i \in 0..n |-> Before(s, K, txt, i + 1)]
  OBVIOUS
<1>3. \A i \in 1..n : (i \in G <=> Given(t, txt[i])) /\ (Given(t, txt[i]) <=> txt[i] \in DOMAIN K) /\ arg[i] = WriteArg(txt[i], t[txt[i]])
  BY <1>1, <1>2 DEF GivenIn, Rereads, Words, Given
<1>4. \A i \in 1..n : tr[i] = Before(s, K, txt, i + 1) /\ tr[i - 1] = Before(s, K, txt, i)
  <2>1. \A i \in 1..n : i \in 0..n /\ i - 1 \in 0..n /\ (i - 1) + 1 = i
    OBVIOUS
  <2> QED
    BY <1>2, <2>1
<1>5. tr[0] = Default(s)
  <2>1. Earlier(K, txt, 1) = {}
    BY <1>1 DEF Earlier
  <2>2. tr[0] = Before(s, K, txt, 0 + 1)
    BY <1>2
  <2>3. IsTree(Default(s))
    BY DEF Arranged
  <2>4. Before(s, K, txt, 1) = [k \in DOMAIN Default(s) |-> Default(s)[k]]
    BY <2>1 DEF Before
  <2> QED
    BY <2>2, <2>3, <2>4 DEF IsTree
<1>6. tr[n] = K
  <2>1. Earlier(K, txt, n + 1) = DOMAIN K
    <3>1. \A l \in 1..n : l < n + 1
      OBVIOUS
    <3> QED
      BY <1>1, <3>1 DEF Earlier, Rereads, Words
  <2>2. DOMAIN Default(s) \subseteq DOMAIN K /\ IsTree(K)
    BY DEF Arranged, Rereads
  <2>3. tr[n] = Before(s, K, txt, n + 1)
    BY <1>2
  <2> QED
    BY <2>1, <2>2, <2>3 DEF Before, IsTree
<1>7. Reread(s, n, G, txt, arg, tr)
  <2>1. ASSUME NEW i \in 1..n
        PROVE  IF i \in G THEN Read(s, tr[i - 1], txt[i], arg[i]) = {tr[i]} ELSE tr[i] = tr[i - 1]
    <3>1. Before(s, K, txt, i + 1) =
            IF txt[i] \in DOMAIN K THEN With(Before(s, K, txt, i), txt[i], K[txt[i]]) ELSE Before(s, K, txt, i)
      BY <1>1, BeforeNext
    <3> QED
      BY <1>1, <1>3, <1>4, <3>1 DEF Rereads
  <2> QED
    BY <2>1 DEF Reread
<1>8. Regular(s, n, G, txt, arg, st, tr)
  BY <1>1, <1>2, <1>5, <1>6, <1>7 DEF Regular, Arranged, Rereads
<1>9. TreesOf(s, FlattenSeq(Optional(n, G, txt, arg))) = {AstOf(s, tr[n])}
  BY <1>8, OrderedReread
<1>10. ShowAll(t, txt) = FlattenSeq(Optional(n, G, txt, arg))
  <2>1. ASSUME NEW i \in 1..n
        PROVE  Show(t, txt[i]) = IF i \in G THEN << <<txt[i], arg[i]>> >> ELSE <<>>
    BY <1>3 DEF Show
  <2>2. [i \in DOMAIN txt |-> Show(t, txt[i])] = Optional(n, G, txt, arg)
    BY <1>1, <2>1 DEF Optional
  <2> QED
    BY <2>2 DEF ShowAll
<1> QED
  BY <1>6, <1>9, <1>10

\* DEFINE CONFIG DEFAULT: both names are always written.
ConfigDefaultSound(p) ==
  /\ IsTree(p.tree) /\ p.stage \in 0..3
  /\ {"NAMESPACE", "DATABASE"} \subseteq DOMAIN p.tree /\ DOMAIN p.tree \subseteq {"kind", "NAMESPACE", "DATABASE"}

LEMMA ConfigDefaultFacts ==
  /\ Syntax["configDefault"] = ConfigDefaultSyntax /\ Text["configDefault"] = ConfigDefaultText
  /\ Default("configDefault") = ConfigDefaultDefault /\ IsTree(ConfigDefaultDefault)
  /\ DOMAIN ConfigDefaultDefault = {"NAMESPACE", "DATABASE"} /\ IsSyntax(ConfigDefaultSyntax)
  /\ DOMAIN ConfigDefaultSyntax = 1..3
  /\ \A a \in 1..3 : \A k \in ConfigDefaultSyntax[a].keys : k \in {"kind", "NAMESPACE", "DATABASE"}
<1>1. Syntax["configDefault"] = ConfigDefaultSyntax
  BY DEF Syntax, Removals, Over, RemoveSyntax, RemoveOnTableSyntax, RemoveOtherSyntax
<1>2. Text["configDefault"] = ConfigDefaultText
  BY DEF Text, Removals, Over, RemoveSyntax, RemoveOnTableSyntax, RemoveOtherSyntax
<1>3. Default("configDefault") = ConfigDefaultDefault
  BY DEF Default, Defaults
<1>4. IsTree(ConfigDefaultDefault) /\ DOMAIN ConfigDefaultDefault = {"NAMESPACE", "DATABASE"}
  BY DEF ConfigDefaultDefault, IsTree
<1>5. DOMAIN ConfigDefaultSyntax = 1..3 /\ Len(ConfigDefaultSyntax) = 3
  BY DEF ConfigDefaultSyntax
<1>6. \A a \in 1..3 : \A k \in ConfigDefaultSyntax[a].keys : k \in {"kind", "NAMESPACE", "DATABASE"}
  BY DEF ConfigDefaultSyntax, May, OneOf, Loop, Stage
<1> QED
  BY <1>1, <1>2, <1>3, <1>4, <1>5, <1>6 DEF IsSyntax

LEMMA ConfigDefaultBegins ==
  ConfigDefaultSound(Begin(Default("configDefault")))
<1>1. PICK t, p : t = ConfigDefaultDefault /\ p = Begin(t) /\ p.tree = t /\ p.stage = 0
  BY AtParts DEF Begin
<1> QED
  BY <1>1, ConfigDefaultFacts DEF ConfigDefaultSound

LEMMA ConfigDefaultStep ==
  ASSUME NEW p, ConfigDefaultSound(p), NEW key, NEW arg, NEW q \in Step("configDefault", p, key, arg)
  PROVE  ConfigDefaultSound(q)
<1>1. PICK s, t, u : s = "configDefault" /\ t = p.tree /\ u = q.tree
  OBVIOUS
<1>2. p.stage \in Nat /\ IsSyntax(Syntax[s]) /\ Syntax[s] = ConfigDefaultSyntax
  BY <1>1, ConfigDefaultFacts DEF ConfigDefaultSound
<1>3. u \in Read(s, t, key, arg) /\ q.stage \in DOMAIN Syntax[s] /\ key \in Syntax[s][q.stage].keys
  BY <1>1, <1>2, StepTaken
<1>4. key \in {"kind", "NAMESPACE", "DATABASE"} /\ q.stage \in 0..3
  BY <1>2, <1>3, ConfigDefaultFacts
<1>5. Read(s, t, key, arg) = ReadPlain(t, key, arg)
  BY <1>1 DEF Read
<1>6. u = With(t, key, arg)
  BY <1>3, <1>4, <1>5 DEF ReadPlain
<1>7. IsTree(u) /\ DOMAIN u = DOMAIN t \cup {key}
  BY <1>6 DEF With, IsTree
<1> QED
  BY <1>1, <1>4, <1>7 DEF ConfigDefaultSound

LEMMA ConfigDefaultReturns ==
  ASSUME NEW p, ConfigDefaultSound(p), MayEnd("configDefault", p)
  PROVE  Returns("configDefault", p)
<1>1. PICK s, t, txt : s = "configDefault" /\ t = p.tree /\ txt = ConfigDefaultText
  OBVIOUS
<1>2. PICK st : st = <<1, 2, 3>>
  OBVIOUS
<1>3. DOMAIN txt = 1..3 /\ Len(txt) = 3 /\ txt[1] = "kind" /\ txt[2] = "NAMESPACE" /\ txt[3] = "DATABASE"
  BY <1>1 DEF ConfigDefaultText
<1>4. Syntax[s] = ConfigDefaultSyntax /\ DOMAIN ConfigDefaultSyntax = 1..3 /\ st[1] = 1 /\ st[2] = 2 /\ st[3] = 3
  BY <1>1, <1>2, ConfigDefaultFacts
<1>5. GivenIn(t, txt) \in {{2, 3}, {1, 2, 3}}
  <2>1. \A i : i \in 1..3 <=> i \in {1, 2, 3}
    OBVIOUS
  <2>2. 2 \in GivenIn(t, txt) /\ 3 \in GivenIn(t, txt) /\ GivenIn(t, txt) \subseteq {1, 2, 3}
    BY <1>1, <1>3, <2>1 DEF ConfigDefaultSound, GivenIn, Given
  <2> QED
    BY <2>2
<1>6. InOrder(Syntax[s], 3, GivenIn(t, txt), txt, st)
  <2>1. /\ ConfigDefaultSyntax[1].keys = {"kind"} /\ ~ConfigDefaultSyntax[1].must
        /\ ConfigDefaultSyntax[2].keys = {"NAMESPACE", "DATABASE"} /\ ConfigDefaultSyntax[2].must /\ ~ConfigDefaultSyntax[2].loops
        /\ ConfigDefaultSyntax[3].keys = {"NAMESPACE", "DATABASE"} /\ ~ConfigDefaultSyntax[3].must
    BY DEF ConfigDefaultSyntax, May, OneOf, Loop, Stage
  <2>2. PICK G : G = GivenIn(t, txt) /\ 2 \in G /\ 3 \in G /\ G \subseteq {1, 2, 3}
    BY <1>5
  <2>3. \A a : a \in 1..3 <=> a = 1 \/ a = 2 \/ a = 3
    OBVIOUS
  <2>4. \A i \in G : i \in 1..3 /\ st[i] = i /\ txt[i] \in ConfigDefaultSyntax[i].keys
    BY <1>3, <1>4, <2>1, <2>2
  <2>5. \A i \in G : \A a \in 1..3 : a < i /\ txt[i] \in ConfigDefaultSyntax[a].keys => i = 3 /\ a = 2
    BY <1>3, <2>1, <2>2, <2>3
  <2> QED
    BY <1>4, <2>1, <2>2, <2>3, <2>4, <2>5 DEF InOrder
<1>7. Arranged(s, txt, st, t)
  BY <1>1, <1>3, <1>4, <1>6, ConfigDefaultFacts DEF Arranged, IsText, ConfigDefaultSound
<1>8. DOMAIN t \subseteq Words(txt)
  BY <1>1, <1>3 DEF Words, ConfigDefaultSound
<1>9. ASSUME NEW i \in DOMAIN txt, NEW b
      PROVE  Read(s, b, txt[i], WriteArg(txt[i], t[txt[i]])) = {With(b, txt[i], t[txt[i]])}
  <2>1. txt[i] \in {"kind", "NAMESPACE", "DATABASE"}
    BY <1>1 DEF ConfigDefaultText
  <2> QED
    BY <1>1, <2>1 DEF WriteArg, Read, ReadPlain
<1>10. Rereads(s, txt, t, t)
  BY <1>1, <1>8, <1>9 DEF Rereads, MayEnd, ConfigDefaultSound
<1>11. TreesOf(s, ShowAll(t, txt)) = {AstOf(s, t)}
  BY <1>7, <1>8, <1>10, ArrangedReread
<1>12. Written(s, t) = ShowAll(t, txt) /\ ~Unreadable(s, t) /\ Kept(s, t) = t
  BY <1>1, ConfigDefaultFacts DEF Written, Unreadable, Kept, RemoveSyntax
<1> QED
  BY <1>1, <1>11, <1>12 DEF Returns

\* USE: a namespace, a database, or both of them.
UseSound(p) ==
  /\ IsTree(p.tree) /\ p.stage \in 0..2
  /\ IF p.stage = 0 THEN DOMAIN p.tree = {}
     ELSE DOMAIN p.tree \in {{"NAMESPACE"}, {"DATABASE"}, {"DEFAULT"}, {"NAMESPACE", "DATABASE"}}

LEMMA UseFacts ==
  /\ Syntax["use"] = UseSyntax /\ Text["use"] = UseText
  /\ Default("use") = NoTree /\ IsTree(NoTree) /\ DOMAIN NoTree = {}
  /\ IsSyntax(UseSyntax) /\ DOMAIN UseSyntax = 1..2 /\ Len(UseSyntax) = 2
  /\ UseSyntax[1].keys = {"NAMESPACE", "DATABASE", "DEFAULT"} /\ UseSyntax[1].must /\ ~UseSyntax[1].loops
  /\ UseSyntax[2].keys = {"DATABASE"} /\ ~UseSyntax[2].must /\ ~UseSyntax[2].loops
<1>1. Syntax["use"] = UseSyntax
  BY DEF Syntax, Removals, Over, RemoveSyntax, RemoveOnTableSyntax, RemoveOtherSyntax
<1>2. Text["use"] = UseText
  BY DEF Text, Removals, Over, RemoveSyntax, RemoveOnTableSyntax, RemoveOtherSyntax
<1>3. Default("use") = NoTree
  BY DEF Default, Defaults
<1>4. IsTree(NoTree) /\ DOMAIN NoTree = {}
  BY DEF NoTree, IsTree
<1>5. DOMAIN UseSyntax = 1..2 /\ Len(UseSyntax) = 2
  BY DEF UseSyntax
<1>6. /\ UseSyntax[1].keys = {"NAMESPACE", "DATABASE", "DEFAULT"} /\ UseSyntax[1].must /\ ~UseSyntax[1].loops
      /\ UseSyntax[2].keys = {"DATABASE"} /\ ~UseSyntax[2].must /\ ~UseSyntax[2].loops
  BY DEF UseSyntax, May, OneOf, Stage
<1> QED
  BY <1>1, <1>2, <1>3, <1>4, <1>5, <1>6 DEF IsSyntax

LEMMA UseBegins ==
  UseSound(Begin(Default("use")))
<1>1. PICK t, p : t = NoTree /\ p = Begin(t) /\ p.tree = t /\ p.stage = 0
  BY AtParts DEF Begin
<1> QED
  BY <1>1, UseFacts DEF UseSound

LEMMA UseStep ==
  ASSUME NEW p, UseSound(p), NEW key, NEW arg, NEW q \in Step("use", p, key, arg)
  PROVE  UseSound(q)
<1>1. PICK s, t, u : s = "use" /\ t = p.tree /\ u = q.tree
  OBVIOUS
<1>2. p.stage \in Nat /\ IsSyntax(Syntax[s]) /\ Syntax[s] = UseSyntax
  BY <1>1, UseFacts DEF UseSound
<1>3. /\ u \in Read(s, t, key, arg) /\ q.stage \in DOMAIN Syntax[s] /\ key \in Syntax[s][q.stage].keys
      /\ q.stage > p.stage \/ (q.stage = p.stage /\ Syntax[s][q.stage].loops)
      /\ \A b \in DOMAIN Syntax[s] : p.stage < b /\ b < q.stage => ~Syntax[s][b].must
  BY <1>1, <1>2, StepTaken
<1>4. q.stage \in 1..2 /\ (p.stage = 0 => q.stage = 1) /\ (p.stage # 0 => q.stage = 2)
  BY <1>2, <1>3, UseFacts DEF UseSound
<1>5. Read(s, t, key, arg) = ReadUse(t, key, arg)
  BY <1>1 DEF Read
<1>6. u = With(t, key, arg) /\ ~Given(t, "DATABASE") /\ ~Given(t, "DEFAULT")
  BY <1>3, <1>5 DEF ReadUse, Unless, Refused
<1>7. IsTree(u) /\ DOMAIN u = DOMAIN t \cup {key}
  BY <1>6 DEF With, IsTree
<1>8. /\ q.stage = 1 => key \in {"NAMESPACE", "DATABASE", "DEFAULT"}
      /\ q.stage = 2 => key = "DATABASE"
  BY <1>2, <1>3, UseFacts
<1>9. CASE p.stage = 0
  <2>1. DOMAIN t = {}
    BY <1>1, <1>9 DEF UseSound
  <2>2. DOMAIN u = {key}
    BY <1>7, <2>1
  <2> QED
    BY <1>1, <1>4, <1>7, <1>8, <1>9, <2>2 DEF UseSound
<1>10. CASE p.stage # 0
  <2>1. DOMAIN t = {"NAMESPACE"}
    BY <1>1, <1>6, <1>10 DEF UseSound, Given
  <2>2. DOMAIN u = {"NAMESPACE", "DATABASE"}
    BY <1>4, <1>7, <1>8, <1>10, <2>1
  <2> QED
    BY <1>1, <1>4, <1>7, <2>2 DEF UseSound
<1> QED
  BY <1>9, <1>10

LEMMA UseReturns ==
  ASSUME NEW p, UseSound(p), MayEnd("use", p)
  PROVE  Returns("use", p)
<1>1. PICK s, t, txt : s = "use" /\ t = p.tree /\ txt = UseText
  OBVIOUS
<1>2. p.stage # 0
  BY UseFacts DEF MayEnd, Ends, UseSound
<1>3. DOMAIN t \in {{"NAMESPACE"}, {"DATABASE"}, {"DEFAULT"}, {"NAMESPACE", "DATABASE"}} /\ IsTree(t)
  BY <1>1, <1>2 DEF UseSound
<1>4. DOMAIN txt = 1..3 /\ Len(txt) = 3 /\ txt[1] = "NAMESPACE" /\ txt[2] = "DATABASE" /\ txt[3] = "DEFAULT"
  BY <1>1 DEF UseText
<1>5. PICK st, G : /\ st = [i \in 1..3 |-> IF i = 2 /\ "NAMESPACE" \in DOMAIN t THEN 2 ELSE 1]
                   /\ G = GivenIn(t, txt)
  OBVIOUS
<1>6. \A i : i \in 1..3 <=> i = 1 \/ i = 2 \/ i = 3
  OBVIOUS
<1>7. /\ G \subseteq {1, 2, 3} /\ (1 \in G <=> "NAMESPACE" \in DOMAIN t)
      /\ (2 \in G <=> "DATABASE" \in DOMAIN t) /\ (3 \in G <=> "DEFAULT" \in DOMAIN t)
  BY <1>4, <1>5, <1>6 DEF GivenIn, Given
<1>8. G \in {{1}, {2}, {3}, {1, 2}} /\ st[1] = 1 /\ st[3] = 1 /\ st[2] = IF 1 \in G THEN 2 ELSE 1
  <2>1. st[1] = 1 /\ st[3] = 1 /\ st[2] = IF 1 \in G THEN 2 ELSE 1
    BY <1>5, <1>7
  <2>2. CASE DOMAIN t = {"NAMESPACE"}
    BY <1>7, <2>1, <2>2
  <2>3. CASE DOMAIN t = {"DATABASE"}
    BY <1>7, <2>1, <2>3
  <2>4. CASE DOMAIN t = {"DEFAULT"}
    BY <1>7, <2>1, <2>4
  <2>5. CASE DOMAIN t = {"NAMESPACE", "DATABASE"}
    BY <1>7, <2>1, <2>5
  <2> QED
    BY <1>3, <2>2, <2>3, <2>4, <2>5
<1>9. InOrder(UseSyntax, 3, G, txt, st)
  <2>1. \A a : a \in 1..2 <=> a = 1 \/ a = 2
    OBVIOUS
  <2> QED
    BY <1>4, <1>6, <1>8, <2>1, UseFacts DEF InOrder
<1>10. Arranged(s, txt, st, t)
  BY <1>1, <1>4, <1>5, <1>9, UseFacts DEF Arranged, IsText
<1>11. DOMAIN t \subseteq Words(txt)
  BY <1>3, <1>4 DEF Words
<1>12. ASSUME NEW i \in DOMAIN txt, Given(t, txt[i])
       PROVE  Read(s, Before(s, t, txt, i), txt[i], WriteArg(txt[i], t[txt[i]]))
                = {With(Before(s, t, txt, i), txt[i], t[txt[i]])}
  <2>1. PICK b : b = Before(s, t, txt, i)
    OBVIOUS
  <2>2. DOMAIN b = Earlier(t, txt, i)
    BY <1>1, <2>1, UseFacts, WrittenBefore
  <2>3. ~Given(b, "DATABASE") /\ ~Given(b, "DEFAULT")
    <3>1. i \in G /\ \A j \in 1..3 : txt[j] \in DOMAIN t => j \in G
      BY <1>4, <1>5, <1>12 DEF GivenIn, Given
    <3>2. \A j \in 1..3 : j < i /\ txt[j] \in DOMAIN t => j = 1
      BY <1>6, <1>8, <3>1
    <3> QED
      BY <1>4, <2>2, <3>2 DEF Earlier, Given
  <2>4. Read(s, b, txt[i], t[txt[i]]) = {With(b, txt[i], t[txt[i]])}
    BY <1>1, <2>3 DEF Read, ReadUse, Unless
  <2>5. WriteArg(txt[i], t[txt[i]]) = t[txt[i]]
    BY <1>1 DEF WriteArg, UseText
  <2> QED
    BY <2>1, <2>4, <2>5
<1>13. Rereads(s, txt, t, t)
  BY <1>1, <1>3, <1>11, <1>12 DEF Rereads, MayEnd
<1>14. TreesOf(s, ShowAll(t, txt)) = {AstOf(s, t)}
  BY <1>10, <1>11, <1>13, ArrangedReread
<1>15. Written(s, t) = ShowAll(t, txt) /\ ~Unreadable(s, t) /\ Kept(s, t) = t
  BY <1>1, UseFacts DEF Written, Unreadable, Kept, RemoveSyntax
<1> QED
  BY <1>1, <1>14, <1>15 DEF Returns

\* ACCESS: one thing is done, and only a PURGE is FOR some time.
AccessVerbs == {"GRANT", "SHOW", "REVOKE", "PURGE"}
AccessTree(t) ==
  /\ IsTree(t) /\ DOMAIN t \subseteq {"name", "ON", "FOR"} \cup AccessVerbs
  /\ \A k, l \in AccessVerbs : Given(t, k) /\ Given(t, l) => k = l
  /\ Given(t, "FOR") => Given(t, "PURGE") /\ t["FOR"] # "0ns"
AccessSound(p) ==
  /\ AccessTree(p.tree) /\ p.stage \in 0..5
  /\ p.stage >= 1 => Given(p.tree, "name")
  /\ p.stage >= 3 <=> \E k \in AccessVerbs : Given(p.tree, k)

LEMMA AccessFacts ==
  /\ Syntax["access"] = AccessSyntax /\ Text["access"] = AccessText
  /\ Default("access") = NoTree /\ IsTree(NoTree) /\ DOMAIN NoTree = {}
  /\ IsSyntax(AccessSyntax) /\ DOMAIN AccessSyntax = 1..5 /\ Len(AccessSyntax) = 5
  /\ AccessSyntax[1].keys = {"name"} /\ AccessSyntax[1].must /\ ~AccessSyntax[1].loops
  /\ AccessSyntax[2].keys = {"ON"} /\ ~AccessSyntax[2].must /\ ~AccessSyntax[2].loops
  /\ AccessSyntax[3].keys = AccessVerbs /\ AccessSyntax[3].must /\ ~AccessSyntax[3].loops
  /\ AccessSyntax[4].keys = {"PURGE"} /\ ~AccessSyntax[4].must
  /\ AccessSyntax[5].keys = {"FOR"} /\ ~AccessSyntax[5].must /\ ~AccessSyntax[5].loops
<1>1. Syntax["access"] = AccessSyntax
  BY DEF Syntax, Removals, Over, RemoveSyntax, RemoveOnTableSyntax, RemoveOtherSyntax
<1>2. Text["access"] = AccessText
  BY DEF Text, Removals, Over, RemoveSyntax, RemoveOnTableSyntax, RemoveOtherSyntax
<1>3. Default("access") = NoTree
  BY DEF Default, Defaults
<1>4. IsTree(NoTree) /\ DOMAIN NoTree = {}
  BY DEF NoTree, IsTree
<1>5. DOMAIN AccessSyntax = 1..5 /\ Len(AccessSyntax) = 5
  BY DEF AccessSyntax
<1>6. /\ AccessSyntax[1].keys = {"name"} /\ AccessSyntax[1].must /\ ~AccessSyntax[1].loops
      /\ AccessSyntax[2].keys = {"ON"} /\ ~AccessSyntax[2].must /\ ~AccessSyntax[2].loops
      /\ AccessSyntax[3].keys = AccessVerbs /\ AccessSyntax[3].must /\ ~AccessSyntax[3].loops
      /\ AccessSyntax[4].keys = {"PURGE"} /\ ~AccessSyntax[4].must
      /\ AccessSyntax[5].keys = {"FOR"} /\ ~AccessSyntax[5].must /\ ~AccessSyntax[5].loops
  BY DEF AccessSyntax, Must, May, OneOf, Loop, Stage, AccessVerbs
<1> QED
  BY <1>1, <1>2, <1>3, <1>4, <1>5, <1>6 DEF IsSyntax

LEMMA AccessBegins ==
  AccessSound(Begin(Default("access")))
<1>1. PICK t, p : t = NoTree /\ p = Begin(t) /\ p.tree = t /\ p.stage = 0
  BY AtParts DEF Begin
<1> QED
  BY <1>1, AccessFacts DEF AccessSound, AccessTree, Given

LEMMA AccessStep ==
  ASSUME NEW p, AccessSound(p), NEW key, NEW arg, NEW q \in Step("access", p, key, arg)
  PROVE  AccessSound(q)
<1>1. PICK s, t, u : s = "access" /\ t = p.tree /\ u = q.tree
  OBVIOUS
<1>2. p.stage \in Nat /\ IsSyntax(Syntax[s]) /\ Syntax[s] = AccessSyntax
  BY <1>1, AccessFacts DEF AccessSound
<1>3. /\ u \in Read(s, t, key, arg) /\ q.stage \in DOMAIN Syntax[s] /\ key \in Syntax[s][q.stage].keys
      /\ q.stage > p.stage \/ (q.stage = p.stage /\ Syntax[s][q.stage].loops)
      /\ \A b \in DOMAIN Syntax[s] : p.stage < b /\ b < q.stage => ~Syntax[s][b].must
  BY <1>1, <1>2, StepTaken
<1>4. PICK z, y : z = p.stage /\ y = q.stage /\ z \in 0..5 /\ y \in 1..5
  BY <1>2, <1>3, AccessFacts DEF AccessSound
<1>5. /\ y = 1 => key = "name" /\ z = 0
      /\ y = 2 => key = "ON" /\ z = 1
      /\ y = 3 => key \in AccessVerbs /\ z \in {1, 2}
      /\ y = 4 => key = "PURGE" /\ z >= 3
      /\ y = 5 => key = "FOR" /\ z >= 3
  <2>1. /\ y > z \/ (y = z /\ AccessSyntax[y].loops)
        /\ key \in AccessSyntax[y].keys
        /\ ~(z < 1 /\ 1 < y) /\ ~(z < 3 /\ 3 < y)
    BY <1>2, <1>3, <1>4, AccessFacts
  <2>2. y = 1 \/ y = 2 \/ y = 3 \/ y = 4 \/ y = 5
    BY <1>4
  <2>3. CASE y = 1
    BY <1>4, <2>1, <2>3, AccessFacts
  <2>4. CASE y = 2
    BY <1>4, <2>1, <2>4, AccessFacts
  <2>5. CASE y = 3
    BY <1>4, <2>1, <2>5, AccessFacts
  <2>6. CASE y = 4
    BY <1>4, <2>1, <2>6, AccessFacts
  <2>7. CASE y = 5
    BY <1>4, <2>1, <2>7, AccessFacts
  <2> QED
    BY <2>2, <2>3, <2>4, <2>5, <2>6, <2>7
<1>6. Read(s, t, key, arg) = ReadAccess(t, key, arg)
  BY <1>1 DEF Read
<1>7. AccessTree(t) /\ (z >= 1 => Given(t, "name")) /\ (z >= 3 <=> \E k \in AccessVerbs : Given(t, k))
  BY <1>1, <1>4 DEF AccessSound
<1>8. /\ (u = t /\ key = "FOR") \/ \E x : u = With(t, key, x) /\ (key = "FOR" => x # "0ns")
      /\ key = "FOR" => Given(t, "PURGE")
      /\ key = "PURGE" => \A k \in AccessVerbs : Given(t, k) => k = "PURGE"
  <2>1. CASE key = "PURGE" /\ Given(t, "PURGE")
    <3>1. u = With(t, key, arg \cup t["PURGE"])
      BY <1>3, <1>6, <2>1 DEF ReadAccess, Unless, Refused
    <3>2. \A k \in AccessVerbs : Given(t, k) => k = "PURGE"
      BY <1>7, <2>1 DEF AccessTree, AccessVerbs
    <3> QED
      BY <2>1, <3>1, <3>2
  <2>2. CASE key = "PURGE" /\ ~Given(t, "PURGE")
    <3>1. u = With(t, key, arg) /\ ~Given(t, "GRANT") /\ ~Given(t, "SHOW") /\ ~Given(t, "REVOKE")
      BY <1>3, <1>6, <2>2 DEF ReadAccess, Unless, Refused
    <3> QED
      BY <2>2, <3>1 DEF AccessVerbs
  <2>3. CASE key = "FOR"
    BY <1>3, <1>6, <2>3 DEF ReadAccess, Refused
  <2>4. CASE key \notin {"PURGE", "FOR"}
    BY <1>3, <1>6, <2>4 DEF ReadAccess
  <2> QED
    BY <2>1, <2>2, <2>3, <2>4
<1>9. CASE u = t /\ key = "FOR"
  <2>1. y = 5 /\ z >= 3
    BY <1>4, <1>5, <1>9 DEF AccessVerbs
  <2> QED
    BY <1>1, <1>4, <1>7, <1>9, <2>1 DEF AccessSound
<1>10. CASE \E x : u = With(t, key, x) /\ (key = "FOR" => x # "0ns")
  <2>1. PICK x : u = With(t, key, x) /\ (key = "FOR" => x # "0ns")
    BY <1>10
  <2>2. /\ IsTree(u) /\ DOMAIN u = DOMAIN t \cup {key} /\ u[key] = x
        /\ \A k \in DOMAIN t : k # key => u[k] = t[k]
        /\ \A k : Given(u, k) <=> Given(t, k) \/ k = key
    BY <2>1 DEF With, IsTree, Given
  <2>3. key \in {"name", "ON", "FOR"} \cup AccessVerbs
    BY <1>4, <1>5 DEF AccessVerbs
  <2>4. \A k, l \in AccessVerbs : Given(u, k) /\ Given(u, l) => k = l
    <3>1. CASE key \notin AccessVerbs
      BY <1>7, <2>2, <3>1 DEF AccessTree
    <3>2. CASE y = 3
      <4>1. \A k \in AccessVerbs : ~Given(t, k)
        BY <1>4, <1>5, <1>7, <3>2
      <4> QED
        BY <2>2, <4>1
    <3>3. CASE y = 4
      <4>1. key = "PURGE" /\ \A k \in AccessVerbs : Given(t, k) => k = "PURGE"
        BY <1>5, <1>8, <3>3
      <4> QED
        BY <2>2, <4>1
    <3>4. key \in AccessVerbs => y = 3 \/ y = 4
      BY <1>4, <1>5 DEF AccessVerbs
    <3> QED
      BY <3>1, <3>2, <3>3, <3>4
  <2>5. Given(u, "FOR") => Given(u, "PURGE") /\ u["FOR"] # "0ns"
    BY <1>7, <1>8, <2>1, <2>2 DEF AccessTree, Given
  <2>6. AccessTree(u)
    BY <1>7, <2>2, <2>3, <2>4, <2>5 DEF AccessTree
  <2>7. Given(u, "name")
    <3>1. z >= 1 \/ key = "name"
      BY <1>4, <1>5
    <3> QED
      BY <1>7, <2>2, <3>1
  <2>8. y >= 3 <=> \E k \in AccessVerbs : Given(u, k)
    <3>1. CASE y < 3
      <4>1. key \notin AccessVerbs /\ z < 3
        BY <1>4, <1>5, <3>1 DEF AccessVerbs
      <4> QED
        BY <1>4, <1>7, <2>2, <3>1, <4>1
    <3>2. CASE y >= 3
      <4>1. key \in AccessVerbs \/ z >= 3
        BY <1>4, <1>5, <3>2 DEF AccessVerbs
      <4> QED
        BY <1>7, <2>2, <3>2, <4>1
    <3> QED
      BY <1>4, <3>1, <3>2
  <2> QED
    BY <1>1, <1>4, <2>6, <2>7, <2>8 DEF AccessSound
<1> QED
  BY <1>8, <1>9, <1>10

LEMMA AccessReturns ==
  ASSUME NEW p, AccessSound(p), MayEnd("access", p)
  PROVE  Returns("access", p)
<1>1. PICK s, t, txt : s = "access" /\ t = p.tree /\ txt = AccessText
  OBVIOUS
<1>2. p.stage >= 3
  <2>1. ~(p.stage < 3)
    BY AccessFacts DEF MayEnd, Ends, AccessSound
  <2> QED
    BY <2>1 DEF AccessSound
<1>3. AccessTree(t) /\ Given(t, "name") /\ \E k \in AccessVerbs : Given(t, k)
  BY <1>1, <1>2 DEF AccessSound
<1>4. /\ DOMAIN txt = 1..7 /\ Len(txt) = 7 /\ txt[1] = "name" /\ txt[2] = "ON" /\ txt[3] = "GRANT"
      /\ txt[4] = "SHOW" /\ txt[5] = "REVOKE" /\ txt[6] = "PURGE" /\ txt[7] = "FOR"
  BY <1>1 DEF AccessText
<1>5. PICK st, G : st = <<1, 2, 3, 3, 3, 3, 5>> /\ G = GivenIn(t, txt)
  OBVIOUS
<1>6. \A i : i \in 1..7 <=> i \in {1, 2, 3, 4, 5, 6, 7}
  OBVIOUS
<1>7. /\ st[1] = 1 /\ st[2] = 2 /\ st[3] = 3 /\ st[4] = 3 /\ st[5] = 3 /\ st[6] = 3 /\ st[7] = 5
      /\ G \subseteq {1, 2, 3, 4, 5, 6, 7} /\ 1 \in G /\ \A i \in G : Given(t, txt[i])
  BY <1>3, <1>4, <1>5, <1>6 DEF GivenIn
<1>8. \A i, j \in G : i \in {3, 4, 5, 6} /\ j \in {3, 4, 5, 6} => i = j
  <2>1. \A i, j \in {3, 4, 5, 6} : txt[i] \in AccessVerbs /\ (txt[i] = txt[j] => i = j)
    BY <1>4 DEF AccessVerbs
  <2> QED
    BY <1>3, <1>7, <2>1 DEF AccessTree
<1>9. \E i \in G : i \in {3, 4, 5, 6}
  BY <1>3, <1>4, <1>5, <1>6 DEF AccessVerbs, GivenIn
<1>10. InOrder(AccessSyntax, 7, G, txt, st)
  <2>1. \A a : a \in 1..5 <=> a = 1 \/ a = 2 \/ a = 3 \/ a = 4 \/ a = 5
    OBVIOUS
  <2>2. \A i \in G : i \in 1..7 /\ st[i] \in 1..5 /\ txt[i] \in AccessSyntax[st[i]].keys
    BY <1>4, <1>6, <1>7, <2>1, AccessFacts DEF AccessVerbs
  <2>3. \A i, j \in G : i < j => st[i] < st[j]
    BY <1>7, <1>8
  <2>4. \A a \in 1..5 : AccessSyntax[a].must => \E i \in G : st[i] = a
    BY <1>7, <1>9, <2>1, AccessFacts
  <2>5. \A i \in G : \A a \in 1..5 : a < st[i] => txt[i] \notin AccessSyntax[a].keys
    <3>1. TAKE i \in G
    <3>2. TAKE a \in 1..5
    <3>3. HAVE a < st[i]
    <3>4. i = 1 \/ i = 2 \/ i = 7 \/ i \in {3, 4, 5, 6}
      BY <1>7
    <3>5. CASE i = 1
      BY <1>7, <2>1, <3>3, <3>5
    <3>6. CASE i = 2
      <4>1. a = 1
        BY <1>7, <2>1, <3>3, <3>6
      <4> QED
        BY <1>4, <3>6, <4>1, AccessFacts
    <3>7. CASE i = 7
      <4>1. txt[i] = "FOR" /\ a \in {1, 2, 3, 4}
        BY <1>4, <1>7, <2>1, <3>3, <3>7
      <4> QED
        BY <4>1, AccessFacts DEF AccessVerbs
    <3>8. CASE i \in {3, 4, 5, 6}
      <4>1. a \in {1, 2} /\ txt[i] \notin {"name", "ON"}
        BY <1>4, <1>7, <2>1, <3>3, <3>8
      <4> QED
        BY <4>1, AccessFacts
    <3> QED
      BY <3>4, <3>5, <3>6, <3>7, <3>8
  <2> QED
    BY <2>2, <2>3, <2>4, <2>5, AccessFacts DEF InOrder
<1>11. Arranged(s, txt, st, t)
  BY <1>1, <1>4, <1>5, <1>10, AccessFacts DEF Arranged, IsText
<1>12. DOMAIN t \subseteq Words(txt)
  <2>1. \A i \in {1, 2, 3, 4, 5, 6, 7} : txt[i] \in Words(txt)
    BY <1>4, <1>6 DEF Words
  <2>2. /\ "name" \in Words(txt) /\ "ON" \in Words(txt) /\ "FOR" \in Words(txt)
        /\ "GRANT" \in Words(txt) /\ "SHOW" \in Words(txt) /\ "REVOKE" \in Words(txt)
        /\ "PURGE" \in Words(txt)
    BY <1>4, <2>1
  <2> QED
    BY <1>3, <2>2 DEF AccessTree, AccessVerbs
<1>13. ASSUME NEW i \in DOMAIN txt, Given(t, txt[i])
       PROVE  Read(s, Before(s, t, txt, i), txt[i], WriteArg(txt[i], t[txt[i]]))
                = {With(Before(s, t, txt, i), txt[i], t[txt[i]])}
  <2>1. PICK b : b = Before(s, t, txt, i)
    OBVIOUS
  <2>2. DOMAIN b = Earlier(t, txt, i) /\ \A j \in DOMAIN txt : j < i /\ txt[j] \in DOMAIN t => txt[j] \in Earlier(t, txt, i)
    BY <1>1, <2>1, AccessFacts, WrittenBefore
  <2>3. i \in G
    BY <1>5, <1>13 DEF GivenIn
  <2>4. CASE i = 6
    <3>1. ~Given(b, "PURGE") /\ ~Given(b, "GRANT") /\ ~Given(b, "SHOW") /\ ~Given(b, "REVOKE")
      <4>1. \A k \in DOMAIN b : Given(t, k) /\ \E j \in DOMAIN txt : j < i /\ txt[j] = k
        BY <2>2 DEF Earlier, Given
      <4>2. \A j \in DOMAIN txt : j < i => txt[j] # "PURGE"
        BY <1>4, <1>6, <2>4
      <4>3. Given(t, "PURGE") /\ "PURGE" \in AccessVerbs
        BY <1>4, <1>13, <2>4 DEF AccessVerbs
      <4> QED
        BY <1>3, <4>1, <4>2, <4>3 DEF AccessTree, AccessVerbs, Given
    <3>2. ReadAccess(b, "PURGE", t["PURGE"]) = {With(b, "PURGE", t["PURGE"])}
      BY <3>1 DEF ReadAccess, Unless
    <3> QED
      BY <1>1, <1>4, <2>1, <2>4, <3>2 DEF Read, WriteArg
  <2>5. CASE i = 7
    <3>1. Given(b, "PURGE") /\ t["FOR"] # "0ns"
      BY <1>3, <1>4, <1>13, <2>2, <2>5 DEF AccessTree, Given
    <3>2. ReadAccess(b, "FOR", t["FOR"]) = {With(b, "FOR", t["FOR"])}
      BY <3>1 DEF ReadAccess
    <3> QED
      BY <1>1, <1>4, <2>1, <2>5, <3>2 DEF Read, WriteArg
  <2>6. CASE i \notin {6, 7}
    <3>1. PICK k : k = txt[i] /\ k \notin {"PURGE", "FOR", "PERMISSIONS", "TYPE"}
      BY <1>4, <1>6, <2>6
    <3>2. ReadAccess(b, k, t[k]) = {With(b, k, t[k])}
      BY <3>1 DEF ReadAccess
    <3>3. Read(s, b, k, WriteArg(k, t[k])) = ReadAccess(b, k, t[k])
      BY <1>1, <3>1 DEF Read, WriteArg
    <3> QED
      BY <2>1, <3>1, <3>2, <3>3
  <2> QED
    BY <2>4, <2>5, <2>6
<1>14. Rereads(s, txt, t, t)
  BY <1>1, <1>3, <1>12, <1>13 DEF Rereads, MayEnd, AccessTree
<1>15. TreesOf(s, ShowAll(t, txt)) = {AstOf(s, t)}
  BY <1>11, <1>12, <1>14, ArrangedReread
<1>16. Written(s, t) = ShowAll(t, txt) /\ ~Unreadable(s, t) /\ Kept(s, t) = t
  BY <1>1, AccessFacts DEF Written, Unreadable, Kept, RemoveSyntax
<1> QED
  BY <1>1, <1>15, <1>16 DEF Returns

-----------------------------------------------------------------------------
(* A statement whose clauses are not what its tree says, written otherwise.  *)

\* The clauses that are left in order when some are not written.
LEMMA FewerInOrder ==
  ASSUME NEW syn, NEW txt, NEW st, NEW D, Fits(syn, txt, st, D), NEW n, NEW G, InOrder(syn, n, G, txt, st),
         NEW H, H \subseteq G, \A i \in G : i \notin H => Skippable(syn, txt[i]), G \subseteq DOMAIN txt
  PROVE  InOrder(syn, n, H, txt, st)
<1>1. \A i \in G : i \in DOMAIN txt /\ st[i] \in DOMAIN syn /\ txt[i] \in syn[st[i]].keys
  BY DEF InOrder
<1>2. \A i \in G : i \notin H => ~syn[st[i]].must
  BY <1>1 DEF Skippable
<1>3. \A a \in DOMAIN syn : syn[a].must => \E i \in H : st[i] = a
  BY <1>2 DEF InOrder
<1>4. \A i \in H : \A a \in DOMAIN syn : txt[i] \in syn[a].keys => st[i] = a
  BY <1>1 DEF Fits
<1>5. \A i \in H : \A a \in DOMAIN syn : ~(a < st[i] /\ txt[i] \in syn[a].keys)
  <2>1. \A a \in DOMAIN syn : a \in Int
    BY DEF Fits, IsSyntax
  <2> QED
    BY <1>1, <1>4, <2>1
<1> QED
  BY <1>1, <1>3, <1>5 DEF InOrder

\* DEFINE ACCESS.  A JWT and a type as they are in a tree: written they are
\* read again as they were, but for what Kept names.
IsJwt(j) ==
  /\ j = Jwt(j.verify, j.key, j.issues, j.alg, j.issuerKey)
  /\ WriteJwt(j) # NoJwt /\ ~JwtRefused(WriteJwt(j)) /\ ReadJwt(WriteJwt(j)) = KeptJwt(j)
IsType(x) == x = Type(x.kind, x.subject, x.signup, x.signin, x.refresh, x.jwt) /\ IsJwt(x.jwt)

LEMMA TypeParts ==
  ASSUME NEW a, NEW b, NEW c, NEW d, NEW e, NEW f, NEW x, x = Type(a, b, c, d, e, f)
  PROVE  /\ x.kind = a /\ x.subject = b /\ x.signup = c /\ x.signin = d /\ x.refresh = e /\ x.jwt = f
         /\ \A g : [x EXCEPT !.jwt = g] = Type(a, b, c, d, e, g)
BY DEF Type

LEMMA JwtReread ==
  /\ IsJwt(JwtDefault)
  /\ \A x : JwtText(x) /\ x # NoJwt /\ ~JwtRefused(x) => IsJwt(ReadJwt(x))
<1>1. IsJwt(JwtDefault)
  BY DEF IsJwt, JwtDefault, Jwt, WriteJwt, NoJwt, JwtRefused, ReadJwt, KeptJwt, Symmetric, Or
<1>2. ASSUME NEW x, JwtText(x), x # NoJwt, ~JwtRefused(x)
      PROVE  IsJwt(ReadJwt(x))
  <2>1. PICK v, k, i, a, r : x = Jwt(v, k, i, a, r) /\ i \in BOOLEAN /\ (~i => a = "")
    BY <1>2 DEF JwtText
  <2>2. x.verify = v /\ x.key = k /\ x.issues = i /\ x.alg = a /\ x.issuerKey = r
    BY <2>1 DEF Jwt
  <2>3. CASE ~i /\ ~Symmetric(v)
    <3>1. ReadJwt(x) = x /\ WriteJwt(x) = x
      BY <2>1, <2>2, <2>3 DEF ReadJwt, WriteJwt, Jwt
    <3>2. KeptJwt(x) = x
      BY <2>2, <2>3 DEF KeptJwt
    <3>3. x = Jwt(x.verify, x.key, x.issues, x.alg, x.issuerKey)
      BY <2>1, <2>2
    <3> QED
      BY <1>2, <3>1, <3>2, <3>3 DEF IsJwt
  <2>4. CASE i \/ Symmetric(v)
    <3>1. PICK b, q : /\ b = Or(a, IF v = "URL" THEN "HS512" ELSE v)
                      /\ q = Or(r, IF Symmetric(v) THEN k ELSE "random")
      OBVIOUS
    <3>0. PICK t : t = TRUE
      OBVIOUS
    <3>2. PICK j : j = ReadJwt(x) /\ j = Jwt(v, k, t, b, q)
      BY <2>2, <2>4, <3>0, <3>1 DEF ReadJwt
    <3>3. j.verify = v /\ j.key = k /\ j.issues = t /\ j.alg = b /\ j.issuerKey = q
      BY <3>2 DEF Jwt
    <3>12. \A y : [j EXCEPT !.alg = y] = Jwt(v, k, t, y, q)
      <4>1. TAKE y
      <4> QED
        BY <3>2 DEF Jwt
    <3>4. v # "URL" => b = v
      BY <1>2, <2>2, <3>1 DEF JwtRefused, Or
    <3>5. Or(q, IF Symmetric(v) THEN k ELSE "random") = q
      BY <3>1 DEF Or
    <3>14. \A y : LET w == Jwt(v, k, t, y, q)
                 IN  w.verify = v /\ w.key = k /\ w.issues = t /\ w.alg = y /\ w.issuerKey = q
      BY DEF Jwt
    <3>10. PICK w, y : y = "" /\ w = WriteJwt(j) /\ w = Jwt(v, k, t, y, q)
      BY <3>12 DEF WriteJwt
    <3>13. w.verify = v /\ w.key = k /\ w.issues = t /\ w.alg = y /\ w.issuerKey = q
      BY <3>10, <3>14
    <3>11. w.verify = v /\ w.key = k /\ w.issues = t /\ w.alg = "" /\ w.issuerKey = q
      BY <3>10, <3>13
    <3>6. w # NoJwt /\ ~JwtRefused(w)
      <4>1. NoJwt.issues = FALSE
        BY DEF NoJwt, Jwt
      <4> QED
        BY <3>0, <3>11, <4>1 DEF JwtRefused
    <3>7. ReadJwt(w) = Jwt(v, k, t, IF v = "URL" THEN "HS512" ELSE v, q)
      <4>1. ReadJwt(w) = Jwt(v, k, t, Or("", IF v = "URL" THEN "HS512" ELSE v), q)
        BY <3>0, <3>5, <3>11 DEF ReadJwt
      <4> QED
        BY <4>1 DEF Or
    <3>8. KeptJwt(j) = Jwt(v, k, t, IF v = "URL" THEN "HS512" ELSE v, q)
      BY <3>0, <3>2, <3>3, <3>4, <3>12 DEF KeptJwt
    <3>9. j = Jwt(j.verify, j.key, j.issues, j.alg, j.issuerKey)
      BY <3>2, <3>3
    <3> QED
      BY <3>2, <3>6, <3>7, <3>8, <3>9, <3>10 DEF IsJwt
  <2> QED
    BY <2>1, <2>3, <2>4
<1> QED
  BY <1>1, <1>2

LEMMA TypeReread ==
  /\ IsType(RecordDefault)
  /\ \A x : TypeText(x) /\ ~JwtRefused(x.jwt) => IsType(ReadType(x))
  /\ \A y : IsType(y) => /\ ~JwtRefused(WriteType(y).jwt) /\ ReadType(WriteType(y)) = KeptType(y)
                         /\ OnlyOnDatabase(WriteType(y)) <=> OnlyOnDatabase(y)
<1>1. IsType(RecordDefault)
  BY JwtReread DEF IsType, RecordDefault, Type
<1>2. ASSUME NEW x, TypeText(x), ~JwtRefused(x.jwt) PROVE IsType(ReadType(x))
  <2>1. PICK j : j = (IF x.jwt = NoJwt THEN JwtDefault ELSE ReadJwt(x.jwt)) /\ IsJwt(j)
    BY <1>2, JwtReread DEF TypeText
  <2>2. ReadType(x) = Type(x.kind, x.subject, x.signup, x.signin, x.refresh, j)
    <3>1. ReadType(x) = [x EXCEPT !.jwt = j]
      BY <2>1 DEF ReadType
    <3>2. PICK a, b, c, d, e, f : x = Type(a, b, c, d, e, f)
      BY <1>2 DEF TypeText
    <3> QED
      BY <3>1, <3>2 DEF Type
  <2> QED
    BY <2>1, <2>2 DEF IsType, Type
<1>3. ASSUME NEW y, IsType(y)
      PROVE  /\ ~JwtRefused(WriteType(y).jwt) /\ ReadType(WriteType(y)) = KeptType(y)
             /\ OnlyOnDatabase(WriteType(y)) <=> OnlyOnDatabase(y)
  <2>1. PICK a, b, c, d, e, j : y = Type(a, b, c, d, e, j) /\ IsJwt(j)
    BY <1>3 DEF IsType
  <2>2. y.kind = a /\ y.subject = b /\ y.jwt = j
    BY <2>1, TypeParts
  <2>3. PICK w : w = IF a = "BEARER" THEN NoJwt ELSE WriteJwt(j)
    OBVIOUS
  <2>4. PICK x : x = WriteType(y) /\ x = Type(a, b, c, d, e, w)
    BY <2>1, <2>2, <2>3, TypeParts DEF WriteType
  <2>5. x.kind = a /\ x.subject = b /\ x.jwt = w
    BY <2>4, TypeParts
  <2>6. ~JwtRefused(w)
    BY <2>1, <2>3 DEF IsJwt, JwtRefused, NoJwt, Jwt
  <2>7. (IF w = NoJwt THEN JwtDefault ELSE ReadJwt(w)) = (IF a = "BEARER" THEN JwtDefault ELSE KeptJwt(j))
    BY <2>1, <2>3 DEF IsJwt
  <2>8. PICK z : z = (IF a = "BEARER" THEN JwtDefault ELSE KeptJwt(j))
    OBVIOUS
  <2>9. ReadType(x) = Type(a, b, c, d, e, z)
    BY <2>4, <2>5, <2>7, <2>8 DEF ReadType, Type
  <2>10. KeptType(y) = Type(a, b, c, d, e, z)
    BY <2>1, <2>2, <2>8 DEF KeptType, Type
  <2>11. OnlyOnDatabase(x) <=> OnlyOnDatabase(y)
    BY <2>2, <2>5 DEF OnlyOnDatabase
  <2> QED
    BY <2>4, <2>5, <2>6, <2>9, <2>10, <2>11
<1> QED
  BY <1>1, <1>2, <1>3

DefineAccessTree(t) == PlainTree(t) /\ IsType(t["TYPE"])
DefineAccessSound(p) ==
  DefineAccessTree(p.tree) /\ \E rk : Sound(DefineAccessSyntax, DefineAccessText, rk, DOMAIN DefineAccessDefault, {}, p)

LEMMA DefineAccessFacts ==
  /\ Syntax["defineAccess"] = DefineAccessSyntax
  /\ Default("defineAccess") = DefineAccessDefault /\ IsTree(DefineAccessDefault)
  /\ DOMAIN DefineAccessDefault = {"FOR_GRANT", "FOR_TOKEN", "FOR_SESSION", "TYPE"}
  /\ DefineAccessDefault["TYPE"] = RecordDefault
  /\ \A k \in {"FOR_GRANT", "FOR_TOKEN", "FOR_SESSION"} : DefineAccessDefault[k] = DurationDefault[k]
  /\ NoRivals(DefineAccessText)
  /\ \E rk : Planned(DefineAccessSyntax, DefineAccessText, rk, DOMAIN DefineAccessDefault, {})
  /\ \A key : Simple(DefineAccessSyntax, DefineAccessText, DOMAIN DefineAccessDefault, {}, key)
  /\ \A k \in {"FOR_GRANT", "FOR_TOKEN", "COMMENT"} : Skippable(DefineAccessSyntax, k)
  /\ DOMAIN DefineAccessSyntax = 1..4 /\ DefineAccessSyntax[3].must /\ DefineAccessSyntax[3].keys = {"ON"}
<1>1. /\ DOMAIN DefineAccessDefault = {"FOR_GRANT", "FOR_TOKEN", "FOR_SESSION", "TYPE"} /\ IsTree(DefineAccessDefault)
      /\ DefineAccessDefault["TYPE"] = RecordDefault
      /\ \A k \in {"FOR_GRANT", "FOR_TOKEN", "FOR_SESSION"} : DefineAccessDefault[k] = DurationDefault[k]
  BY DEF DefineAccessDefault, DurationDefault, NoTree, With, IsTree
<1>2. NoRivals(DefineAccessText)
  BY DEF NoRivals, DefineAccessText, Rivals
<1>3. \A a \in DOMAIN DefineAccessSyntax : \A k \in DefineAccessSyntax[a].keys :
        k \in Words(DefineAccessText) /\ (k \notin {"name", "ON"} => ~DefineAccessSyntax[a].must)
  BY DEF Words, DefineAccessSyntax, DefineAccessText, HeadedOn, May, Must, Loop, Stage
<1>4. Syntax["defineAccess"] = DefineAccessSyntax
  BY DEF Syntax, Removals, Over, RemoveSyntax, RemoveOnTableSyntax, RemoveOtherSyntax
<1>5. Default("defineAccess") = DefineAccessDefault
  BY DEF Default, Defaults
<1>6. Planned(DefineAccessSyntax, DefineAccessText, <<1, 2, 3, 4, 4, 4, 4, 4, 4>>,
              {"FOR_GRANT", "FOR_TOKEN", "FOR_SESSION", "TYPE"}, {})
  BY DEF DefineAccessSyntax, DefineAccessText, Planned, Fits, IsSyntax, IsText, Words, Rivals,
         HeadedOn, May, Must, Loop, Stage
<1>7. DOMAIN DefineAccessSyntax = 1..4 /\ DefineAccessSyntax[3].must /\ DefineAccessSyntax[3].keys = {"ON"}
  BY DEF DefineAccessSyntax, HeadedOn, May, Must, Loop, Stage
<1>8. \E rk : Planned(DefineAccessSyntax, DefineAccessText, rk, DOMAIN DefineAccessDefault, {})
  BY <1>1, <1>6
<1>9. \A key : Simple(DefineAccessSyntax, DefineAccessText, DOMAIN DefineAccessDefault, {}, key)
  BY <1>3 DEF Simple
<1>10. \A k \in {"FOR_GRANT", "FOR_TOKEN", "COMMENT"} : Skippable(DefineAccessSyntax, k)
  BY <1>3 DEF Skippable
<1> QED
  BY <1>1, <1>2, <1>4, <1>5, <1>7, <1>8, <1>9, <1>10

LEMMA DefineAccessBegins ==
  DefineAccessSound(Begin(Default("defineAccess")))
<1>1. PICK t : t = DefineAccessDefault
  OBVIOUS
<1>2. PICK rk : Sound(DefineAccessSyntax, DefineAccessText, rk, DOMAIN t, {}, Begin(t))
  BY <1>1, DefineAccessFacts, SoundBegins
<1>3. PICK p : p = Begin(t) /\ p.tree = t
  BY AtParts DEF Begin
<1>4. DefineAccessTree(t)
  BY <1>1, DefineAccessFacts, TypeReread DEF DefineAccessTree, PlainTree
<1> QED
  BY <1>1, <1>2, <1>3, <1>4, DefineAccessFacts DEF DefineAccessSound

LEMMA DefineAccessStep ==
  ASSUME NEW p, DefineAccessSound(p), NEW key, NEW arg, NEW q \in Step("defineAccess", p, key, arg),
         key = "TYPE" => TypeText(arg)
  PROVE  DefineAccessSound(q)
<1>1. PICK t, D : t = p.tree /\ D = DOMAIN DefineAccessDefault
  OBVIOUS
<1>2. PICK rk : /\ Sound(DefineAccessSyntax, DefineAccessText, rk, D, {}, p)
                /\ DefineAccessTree(t) /\ IsTree(t) /\ D \subseteq DOMAIN t
  BY <1>1 DEF DefineAccessSound, Sound, Held
<1>3. Read("defineAccess", t, key, arg) = ReadDefineAccess(t, key, arg)
  BY DEF Read
<1>4. ASSUME NEW u \in ReadDefineAccess(t, key, arg)
      PROVE  DefineAccessTree(u) /\ Tame(DefineAccessSyntax, DefineAccessText, D, {}, t, key, u)
  <2>1. CASE key = "TYPE"
    <3>1. ~JwtRefused(arg.jwt) /\ u = With(t, key, ReadType(arg))
      BY <1>4, <2>1 DEF ReadDefineAccess, Unless, Refused
    <3>2. DOMAIN u = DOMAIN t \cup {key} /\ u[key] = ReadType(arg) /\ \A k \in DOMAIN t : k # key => u[k] = t[k]
      BY <3>1 DEF With
    <3>3. IsType(u["TYPE"])
      BY <2>1, <3>1, <3>2, TypeReread
    <3>4. DefineAccessTree(u)
      BY <1>2, <2>1, <3>2, <3>3 DEF DefineAccessTree, PlainTree
    <3> QED
      BY <1>1, <1>2, <3>1, <3>4, DefineAccessFacts, GivingIsTame
  <2>2. CASE key # "TYPE"
    <3>1. u \in ReadPlain(t, key, arg)
      BY <1>4, <2>2 DEF ReadDefineAccess
    <3>2. Ordinary(DefineAccessSyntax, DefineAccessText, D, {}, t, key, u) /\ PlainTree(u)
      <4>1. Skippable(DefineAccessSyntax, "COMMENT") /\ "COMMENT" \notin D /\ PlainTree(t)
        BY <1>1, <1>2, DefineAccessFacts DEF DefineAccessTree
      <4>2. Simple(DefineAccessSyntax, DefineAccessText, D, {}, key)
        BY <1>1, DefineAccessFacts
      <4> QED
        BY <3>1, <4>1, <4>2, ReadPlainIsOrdinary
    <3>3. u["TYPE"] = t["TYPE"]
      <4>1. "TYPE" \in DOMAIN t
        BY <1>1, <1>2, DefineAccessFacts
      <4> QED
        BY <2>2, <3>1, <4>1 DEF ReadPlain, WithComment, Without, With
    <3> QED
      BY <1>2, <3>2, <3>3, OrdinaryIsTame DEF DefineAccessTree
  <2> QED
    BY <2>1, <2>2
<1>5. PICK s : s = "defineAccess" /\ Syntax[s] = DefineAccessSyntax /\ NoRivals(DefineAccessText)
  BY DefineAccessFacts
<1>6. \A u \in Read(s, p.tree, key, arg) : Tame(Syntax[s], DefineAccessText, D, {}, p.tree, key, u)
  BY <1>1, <1>3, <1>4, <1>5
<1>7. Sound(Syntax[s], DefineAccessText, rk, D, {}, q) /\ q.tree \in Read(s, p.tree, key, arg)
  BY <1>2, <1>5, <1>6, TameStep
<1> QED
  BY <1>1, <1>3, <1>4, <1>5, <1>7 DEF DefineAccessSound

LEMMA DefineAccessReturns ==
  ASSUME NEW p, DefineAccessSound(p), MayEnd("defineAccess", p)
  PROVE  Returns("defineAccess", p)
<1>1. PICK s, t, txt, D, y : /\ s = "defineAccess" /\ t = p.tree /\ txt = DefineAccessText
                             /\ D = DOMAIN DefineAccessDefault /\ y = t["TYPE"]
  OBVIOUS
<1>2. PICK rk : Sound(Syntax[s], txt, rk, D, {}, p) /\ PlainTree(t) /\ IsType(y)
  BY <1>1, DefineAccessFacts DEF DefineAccessSound, DefineAccessTree
<1>3. IsTree(t) /\ DOMAIN t = DOMAIN t \cap Words(txt) /\ D \subseteq DOMAIN t
  <2>1. Said(p.tree, txt, Without(p.tree, {})) /\ Without(p.tree, {}) = p.tree
    BY <1>2, WithoutLost
  <2> QED
    BY <1>1, <1>2, <2>1 DEF Said, Sound, Held
<1>4. /\ DOMAIN txt = 1..9 /\ Len(txt) = 9 /\ txt[1] = "kind" /\ txt[2] = "name" /\ txt[3] = "ON" /\ txt[4] = "TYPE"
      /\ txt[5] = "AUTHENTICATE" /\ txt[6] = "FOR_GRANT" /\ txt[7] = "FOR_TOKEN" /\ txt[8] = "FOR_SESSION"
      /\ txt[9] = "COMMENT"
  BY <1>1 DEF DefineAccessText
<1>5. Finished(s, txt, rk, {}, p)
  BY <1>1, <1>2, DefineAccessFacts DEF Finished
<1>6. InOrder(Syntax[s], 9, GivenIn(t, txt), txt, rk)
  BY <1>1, <1>4, <1>5, FinishedInOrder
<1>7. PICK U, H, K, arg : /\ U = Unwritten(y) /\ H = {i \in GivenIn(t, txt) : txt[i] \notin U} /\ K = KeptAccess(t)
                          /\ arg = [i \in 1..9 |-> IF i = 4 THEN WriteType(y) ELSE t[txt[i]]]
  OBVIOUS
<1>8. U \subseteq {"FOR_GRANT", "FOR_TOKEN"}
  BY <1>7 DEF Unwritten
<1>9. \A i \in 1..9 : i \in H <=> Given(t, txt[i]) /\ txt[i] \notin U
  BY <1>4, <1>7 DEF GivenIn
<1>10. InOrder(Syntax[s], 9, H, txt, rk)
  <2>1. \A i \in GivenIn(t, txt) : i \notin H => Skippable(Syntax[s], txt[i])
    BY <1>1, <1>4, <1>7, <1>8, <1>9, DefineAccessFacts DEF GivenIn
  <2>2. Fits(Syntax[s], txt, rk, D) /\ H \subseteq GivenIn(t, txt) /\ GivenIn(t, txt) \subseteq DOMAIN txt
    BY <1>2, <1>7 DEF Sound, Planned, GivenIn
  <2> QED
    BY <1>6, <2>1, <2>2, FewerInOrder
<1>11. /\ IsTree(K) /\ DOMAIN K = DOMAIN t
       /\ \A k \in DOMAIN t : k # "TYPE" => K[k] = IF k \in U THEN DurationDefault[k] ELSE t[k]
       /\ K["TYPE"] = KeptType(y)
  <2>1. K = [k \in DOMAIN t |-> IF k = "TYPE" THEN KeptType(y) ELSE IF k \in U THEN DurationDefault[k] ELSE t[k]]
    BY <1>1, <1>7, <1>8 DEF KeptAccess
  <2>2. "TYPE" \in DOMAIN t
    BY <1>1, <1>3, DefineAccessFacts
  <2> QED
    BY <2>1, <2>2 DEF IsTree
<1>12. Written(s, t) = FlattenSeq(Optional(9, H, txt, arg))
  <2>5. PICK shown : shown = Without(t, U)
    OBVIOUS
  <2>1. shown = Without(t, U) /\ DOMAIN shown = DOMAIN t \ U /\ \A k \in DOMAIN shown : shown[k] = t[k]
    BY <2>5 DEF Without
  <2>2. ASSUME NEW i \in 1..9
        PROVE  (IF txt[i] = "TYPE" THEN << <<"TYPE", WriteType(y)>> >> ELSE Show(shown, txt[i]))
                 = IF i \in H THEN << <<txt[i], arg[i]>> >> ELSE <<>>
    <3>1. CASE i = 4
      <4>1. i \in H
        BY <1>1, <1>3, <1>4, <1>8, <1>9, <3>1, DefineAccessFacts DEF Given
      <4> QED
        BY <1>4, <1>7, <3>1, <4>1
    <3>2. CASE i # 4
      <4>1. txt[i] \notin {"TYPE", "PERMISSIONS"}
        <5>1. i \in {1, 2, 3, 5, 6, 7, 8, 9}
          BY <3>2
        <5> QED
          BY <1>4, <5>1
      <4>2. Given(shown, txt[i]) <=> i \in H
        BY <1>9, <2>1 DEF Given
      <4>3. i \in H => WriteArg(txt[i], shown[txt[i]]) = arg[i]
        BY <1>7, <2>1, <3>2, <4>1, <4>2 DEF WriteArg, Given
      <4> QED
        BY <4>1, <4>2, <4>3 DEF Show
    <3> QED
      BY <3>1, <3>2
  <2>3. [i \in DOMAIN txt |-> IF txt[i] = "TYPE" THEN << <<"TYPE", WriteType(y)>> >> ELSE Show(shown, txt[i])]
          = Optional(9, H, txt, arg)
    BY <1>4, <2>2 DEF Optional
  <2>4. Written(s, t) = WriteDefineAccess(t)
    BY <1>1 DEF Written
  <2> QED
    BY <1>1, <1>7, <2>1, <2>3, <2>4 DEF WriteDefineAccess
<1>13. 3 \in H /\ 4 \in H
  <2>1. PICK i \in H : rk[i] = 3
    BY <1>1, <1>10, DefineAccessFacts DEF InOrder
  <2>2. i \in 1..9 /\ txt[i] = "ON"
    BY <1>1, <1>10, <2>1, DefineAccessFacts DEF InOrder
  <2>3. i = 3
    BY <1>4, <2>2
  <2> QED
    BY <1>1, <1>3, <1>4, <1>8, <1>9, <2>1, <2>3, DefineAccessFacts DEF Given
<1>14. PICK x : /\ x = WriteType(y) /\ ~JwtRefused(x.jwt) /\ ReadType(x) = KeptType(y)
                /\ OnlyOnDatabase(x) <=> OnlyOnDatabase(y)
  BY <1>2, TypeReread
<1>15. ASSUME NEW i \in H, i # 4, NEW b
       PROVE  Read(s, b, txt[i], arg[i]) = {With(b, txt[i], K[txt[i]])}
  <2>1. i \in 1..9 /\ Given(t, txt[i]) /\ txt[i] \notin U
    BY <1>10, <1>9, <1>15 DEF InOrder
  <2>2. PICK k : k = txt[i] /\ k # "TYPE"
    <3>1. i \in {1, 2, 3, 5, 6, 7, 8, 9}
      BY <1>15, <2>1
    <3> QED
      BY <1>4, <3>1
  <2>3. arg[i] = t[k] /\ K[k] = t[k]
    BY <1>7, <1>11, <1>15, <2>1, <2>2 DEF Given
  <2>4. k = "COMMENT" => t[k] # "NONE"
    BY <1>2, <2>1, <2>2 DEF PlainTree, Given
  <2>5. Read(s, b, k, t[k]) = ReadPlain(b, k, t[k])
    BY <1>1, <2>2 DEF Read, ReadDefineAccess
  <2>6. ReadPlain(b, k, t[k]) = {With(b, k, t[k])}
    BY <2>4 DEF ReadPlain, WithComment
  <2> QED
    BY <2>2, <2>3, <2>5, <2>6
<1>16. ASSUME NEW b
       PROVE  Read(s, b, txt[4], arg[4])
                = IF OnlyOnDatabase(y) /\ b["ON"] # "DATABASE" THEN {} ELSE {With(b, txt[4], K[txt[4]])}
  <2>1. arg[4] = x /\ K["TYPE"] = ReadType(x)
    BY <1>7, <1>11, <1>14
  <2>2. Read(s, b, "TYPE", x) = ReadDefineAccess(b, "TYPE", x)
    BY <1>1 DEF Read
  <2> QED
    BY <1>4, <1>14, <2>1, <2>2 DEF ReadDefineAccess, Unless, Refused
<1>17. Unreadable(s, t) <=> OnlyOnDatabase(y) /\ t["ON"] # "DATABASE"
  BY <1>1 DEF Unreadable
<1>18. Kept(s, t) = K
  BY <1>1, <1>7 DEF Kept, RemoveSyntax
<1>19. "ON" \in DOMAIN t /\ K["ON"] = t["ON"]
  BY <1>4, <1>8, <1>9, <1>11, <1>13 DEF Given
<1>20. CASE ~Unreadable(s, t)
  <2>1. PICK at : at = [i \in 1..9 |-> {txt[i]}]
    OBVIOUS
  <2>2. GivenBy(H, at, 9) = DOMAIN t \ U
    <3>1. \A k : k \in GivenBy(H, at, 9) <=> \E i \in 1..9 : i \in H /\ k = txt[i]
      <4>1. \A i \in H : i \in 1..9 /\ i <= 9
        BY <1>10 DEF InOrder
      <4> QED
        BY <2>1, <4>1 DEF GivenBy
    <3>2. \A k \in DOMAIN t : \E i \in 1..9 : k = txt[i]
      BY <1>3, <1>4 DEF Words
    <3> QED
      BY <1>9, <3>1, <3>2 DEF Given
  <2>3. /\ Default(s) = DefineAccessDefault /\ IsTree(Default(s)) /\ D = {"FOR_GRANT", "FOR_TOKEN", "FOR_SESSION", "TYPE"}
        /\ \A k \in {"FOR_GRANT", "FOR_TOKEN", "FOR_SESSION"} : DefineAccessDefault[k] = DurationDefault[k]
    BY <1>1, DefineAccessFacts
  <2>4. DOMAIN K = DOMAIN Default(s) \cup GivenBy(H, at, 9)
    BY <1>1, <1>3, <1>8, <1>11, <2>2, <2>3
  <2>5. \A k \in DOMAIN Default(s) : k \notin GivenBy(H, at, 9) => K[k] = Default(s)[k]
    <3>1. \A k \in D : k \notin DOMAIN t \ U => k \in U /\ k \in DOMAIN t
      BY <1>3
    <3>2. \A k \in U : k \in {"FOR_GRANT", "FOR_TOKEN"} /\ k # "TYPE"
      BY <1>8
    <3> QED
      BY <1>1, <1>11, <2>2, <2>3, <3>1, <3>2
  <2>6. ASSUME NEW i \in H
        PROVE  Read(s, Part(s, K, H, at, i - 1), txt[i], arg[i]) = {Overlaid(Part(s, K, H, at, i - 1), at[i], K)}
    <3>1. PICK b : b = Part(s, K, H, at, i - 1)
      OBVIOUS
    <3>2. Overlaid(b, at[i], K) = With(b, txt[i], K[txt[i]])
      <4>1. at[i] = {txt[i]}
        BY <1>10, <2>1 DEF InOrder
      <4> QED
        BY <4>1 DEF Overlaid, With
    <3>3. i = 4 => b["ON"] = t["ON"]
      <4>1. ASSUME i = 4 PROVE "ON" \in GivenBy(H, at, i - 1)
        <5>1. 3 \in {k \in H : k <= i - 1} /\ at[3] = {"ON"}
          BY <1>4, <1>13, <2>1, <4>1
        <5> QED
          BY <5>1 DEF GivenBy
      <4> QED
        BY <1>19, <3>1, <4>1 DEF Part
    <3>4. CASE i # 4
      BY <1>15, <3>1, <3>2, <3>4
    <3>5. CASE i = 4
      BY <1>16, <1>17, <1>20, <3>1, <3>2, <3>3, <3>5
    <3> QED
      BY <3>4, <3>5
  <2>7. Gives(s, 9, H, txt, arg, rk, at, K)
    <3>1. Complete(s, K) /\ IsSyntax(Syntax[s])
      BY <1>1, DefineAccessFacts, <1>5, FinishedInOrder DEF Complete
    <3> QED
      BY <1>10, <1>11, <2>3, <2>4, <2>5, <2>6, <3>1 DEF Gives
  <2>8. TreesOf(s, FlattenSeq(Optional(9, H, txt, arg))) = {AstOf(s, K)}
    BY <2>7, WrittenReread
  <2> QED
    BY <1>1, <1>12, <1>18, <1>20, <2>8 DEF Returns
<1>21. CASE Unreadable(s, t)
  <2>1. PICK tr : tr = [i \in 0..9 |-> Before(s, K, txt, i + 1)]
    OBVIOUS
  <2>2. \A i \in 1..9 : tr[i] = Before(s, K, txt, i + 1) /\ tr[i - 1] = Before(s, K, txt, i)
    <3>1. \A i \in 1..9 : i \in 0..9 /\ i - 1 \in 0..9 /\ (i - 1) + 1 = i
      OBVIOUS
    <3> QED
      BY <2>1, <3>1
  <2>3. tr[0] = Default(s)
    <3>1. Earlier(K, txt, 1) = {}
      BY <1>4 DEF Earlier
    <3>2. tr[0] = Before(s, K, txt, 0 + 1)
      BY <2>1
    <3>3. IsTree(Default(s))
      BY <1>5 DEF Finished
    <3>4. Before(s, K, txt, 1) = [k \in DOMAIN Default(s) |-> Default(s)[k]]
      BY <3>1 DEF Before
    <3> QED
      BY <3>2, <3>3, <3>4 DEF IsTree
  <2>4. ASSUME NEW i \in 1..9, i < 4
        PROVE  IF i \in H THEN Read(s, tr[i - 1], txt[i], arg[i]) = {tr[i]} ELSE tr[i] = tr[i - 1]
    <3>1. Before(s, K, txt, i + 1) =
            IF txt[i] \in DOMAIN K THEN With(Before(s, K, txt, i), txt[i], K[txt[i]]) ELSE Before(s, K, txt, i)
      <4>1. PICK n \in Nat : n = 9 /\ DOMAIN txt = 1..n /\ i \in 1..n
        BY <1>4
      <4> QED
        BY <4>1, BeforeNext
    <3>2. i \in {1, 2, 3}
      BY <2>4
    <3>3. txt[i] \notin U
      BY <1>4, <1>8, <3>2
    <3>4. txt[i] \in DOMAIN K <=> i \in H
      BY <1>9, <1>11, <3>3 DEF Given
    <3> QED
      BY <1>15, <2>2, <2>4, <3>1, <3>4
  <2>5. Read(s, tr[4 - 1], txt[4], arg[4]) = {}
    <3>1. tr[4 - 1] = Before(s, K, txt, 4) /\ 3 \in DOMAIN txt
      BY <1>4, <2>2
    <3>2. "ON" \in Earlier(K, txt, 4)
      BY <1>4, <1>11, <1>19 DEF Earlier
    <3>3. Before(s, K, txt, 4)["ON"] = t["ON"]
      BY <1>19, <3>2 DEF Before
    <3> QED
      BY <1>16, <1>17, <1>21, <3>1, <3>3
  <2>6. TreesOf(s, FlattenSeq(Optional(9, H, txt, arg))) = {}
    <3>1. IsSyntax(Syntax[s])
      BY <1>5, FinishedInOrder
    <3>2. PICK n \in Nat, c \in 1..9 : n = 9 /\ c = 4
      OBVIOUS
    <3> QED
      BY <1>10, <1>13, <2>3, <2>4, <2>5, <3>1, <3>2, RefusedReread
  <2> QED
    BY <1>1, <1>12, <1>21, <2>6 DEF Returns
<1> QED
  BY <1>20, <1>21

-----------------------------------------------------------------------------
(* DEFINE INDEX.  The kind of index is a clause of its own when it is        *)
(* written; as the keyword "index" of the tree it has no place in the text.  *)
IndexClauses == <<"kind", "name", "ON", "FIELDS", "COMMENT", "CONCURRENTLY">>

\* An index that is in a tree.
IsIndex(x) ==
  /\ x.kind = "INDEX" => x = IndexDefault["index"]
  /\ x.kind \in IndexKinds \cup {"INDEX"}
  /\ x.kind = "FULLTEXT" => ReadFullText(x) = x
  /\ x.kind = "HNSW" => ~(x.m > 127) /\ ReadHnsw(x) = x
IndexTree(t) == PlainTree(t) /\ Given(t, "index") /\ IsIndex(t["index"])
IndexSound(p) ==
  IndexTree(p.tree) /\ \E rk : Sound(IndexSyntax, IndexClauses, rk, {}, {"index"}, p)

LEMMA IndexReread ==
  ASSUME NEW key \in IndexKinds, NEW x, IsIndexText(key, x)
  PROVE  /\ key \in {"UNIQUE", "COUNT"} => IsIndex(x)
         /\ key = "FULLTEXT" => IsIndex(ReadFullText(x))
         /\ key = "HNSW" /\ ~(x.m > 127) => IsIndex(ReadHnsw(x))
<1>1. PICK o, m, z : x = IndexOf(key, o, m, z) /\ (key = "HNSW" => m \in Nat \cup {NotGiven})
  <2>1. x = IndexOf(key, x.options, x.m, x.m0) /\ (key = "HNSW" => x.m \in Nat \cup {NotGiven})
    BY DEF IsIndexText
  <2> QED
    BY <2>1
<1>2. x.kind = key /\ x.options = o /\ x.m = m /\ x.m0 = z
  BY <1>1 DEF IndexOf
<1>3. CASE key \in {"UNIQUE", "COUNT"}
  BY <1>2, <1>3 DEF IsIndex, IndexKinds
<1>4. CASE key = "FULLTEXT"
  <2>1. PICK d, e : d = FullTextDefault /\ e = Over(o, d)
    OBVIOUS
  <2>2. Over(e, d) = e
    BY <2>1 DEF Over
  <2>3. PICK y : y = ReadFullText(x) /\ y = IndexOf(key, e, 0, 0)
    BY <1>2, <2>1 DEF ReadFullText
  <2>4. y.kind = key /\ y.options = e
    BY <2>3 DEF IndexOf
  <2>5. ReadFullText(y) = y
    BY <2>1, <2>2, <2>3, <2>4 DEF ReadFullText
  <2> QED
    BY <1>4, <2>3, <2>4, <2>5 DEF IsIndex, IndexKinds
<1>5. CASE key = "HNSW" /\ ~(x.m > 127)
  <2>1. PICK d, e : d = HnswDefault /\ e = Over(o, d)
    OBVIOUS
  <2>2. Over(e, d) = e
    BY <2>1 DEF Over
  <2>3. PICK n : n = (IF m = NotGiven THEN 12 ELSE m) /\ n \in 0..127
    BY <1>1, <1>2, <1>5 DEF NotGiven
  <2>4. PICK k : k = (IF z = NotGiven THEN Capped(2 * n) ELSE z) /\ k # NotGiven
    BY <2>3 DEF Capped, NotGiven
  <2>5. PICK y : y = ReadHnsw(x) /\ y = IndexOf(key, e, n, k)
    BY <1>2, <2>1, <2>3, <2>4 DEF ReadHnsw
  <2>6. y.kind = key /\ y.options = e /\ y.m = n /\ y.m0 = k
    BY <2>5 DEF IndexOf
  <2>7. ReadHnsw(y) = y
    <3>1. n # NotGiven
      BY <2>3 DEF NotGiven
    <3> QED
      BY <2>1, <2>2, <2>4, <2>5, <2>6, <3>1 DEF ReadHnsw
  <2> QED
    BY <1>5, <2>3, <2>5, <2>6, <2>7 DEF IsIndex, IndexKinds
<1> QED
  BY <1>3, <1>4, <1>5

LEMMA IndexFacts ==
  /\ Syntax["defineIndex"] = IndexSyntax /\ IsSyntax(IndexSyntax)
  /\ Default("defineIndex") = IndexDefault /\ IsTree(IndexDefault) /\ DOMAIN IndexDefault = {"index"}
  /\ IsIndex(IndexDefault["index"]) /\ NoRivals(IndexClauses)
  /\ \E rk : Planned(IndexSyntax, IndexClauses, rk, {}, {"index"})
  /\ \A key : key \notin IndexKinds => Simple(IndexSyntax, IndexClauses, {}, {"index"}, key)
  /\ Skippable(IndexSyntax, "COMMENT") /\ \A key \in IndexKinds : Skippable(IndexSyntax, key)
  /\ \A a \in DOMAIN IndexSyntax : "index" \notin IndexSyntax[a].keys
<1>1. DOMAIN IndexDefault = {"index"} /\ IsTree(IndexDefault)
  BY DEF IndexDefault, IsTree
<1>2. IsIndex(IndexDefault["index"])
  BY DEF IsIndex, IndexDefault, IndexOf
<1>3. NoRivals(IndexClauses)
  BY DEF NoRivals, IndexClauses, Rivals
<1>4. \A a \in DOMAIN IndexSyntax : \A k \in IndexSyntax[a].keys :
        (k \notin IndexKinds => k \in Words(IndexClauses)) /\ (k \notin {"name", "ON"} => ~IndexSyntax[a].must)
  BY DEF Words, IndexSyntax, IndexClauses, IndexKinds, HeadedOn, May, Must, Loop, Stage
<1>5. Syntax["defineIndex"] = IndexSyntax
  BY DEF Syntax, Removals, Over, RemoveSyntax, RemoveOnTableSyntax, RemoveOtherSyntax
<1>6. Default("defineIndex") = IndexDefault
  BY DEF Default, Defaults
<1>7. Planned(IndexSyntax, IndexClauses, <<1, 2, 3, 4, 4, 4>>, {}, {"index"})
  BY DEF IndexSyntax, IndexClauses, Planned, Fits, IsSyntax, IsText, Words, Rivals,
         HeadedOn, May, Must, Loop, Stage
<1>8. IsSyntax(IndexSyntax)
  BY <1>7 DEF Planned, Fits
<1>9. \A key : key \notin IndexKinds => Simple(IndexSyntax, IndexClauses, {}, {"index"}, key)
  BY <1>4 DEF Simple
<1>10. Skippable(IndexSyntax, "COMMENT") /\ \A key \in IndexKinds : Skippable(IndexSyntax, key)
  BY <1>4 DEF Skippable, IndexKinds
<1>11. \A a \in DOMAIN IndexSyntax : "index" \notin IndexSyntax[a].keys
  BY DEF IndexSyntax, HeadedOn, May, Must, Loop, Stage
<1> QED
  BY <1>1, <1>2, <1>3, <1>5, <1>6, <1>7, <1>8, <1>9, <1>10, <1>11

LEMMA IndexBegins ==
  IndexSound(Begin(Default("defineIndex")))
<1>1. PICK t, p : t = IndexDefault /\ p = Begin(t) /\ p.tree = t /\ p.stage = 0
  BY AtParts DEF Begin
<1>2. PICK rk : Planned(IndexSyntax, IndexClauses, rk, {}, {"index"})
  BY IndexFacts
<1>3. Held(IndexSyntax, IndexClauses, {}, {"index"}, p)
  <2>1. \A a \in DOMAIN IndexSyntax : a > 0
    BY IndexFacts DEF IsSyntax
  <2>2. 0 \in 0..Len(IndexSyntax) /\ \A a \in DOMAIN IndexSyntax : ~(a <= 0)
    BY <2>1, IndexFacts DEF IsSyntax
  <2> QED
    BY <1>1, <2>2, IndexFacts DEF Held
<1>4. Compatible(p.tree, IndexClauses)
  BY IndexFacts DEF Compatible, NoRivals, GivenIn
<1>5. IndexTree(t)
  BY <1>1, IndexFacts DEF IndexTree, PlainTree, Given
<1> QED
  BY <1>1, <1>2, <1>3, <1>4, <1>5, IndexFacts DEF IndexSound, Sound

LEMMA IndexStep ==
  ASSUME NEW p, IndexSound(p), NEW key, NEW arg, NEW q \in Step("defineIndex", p, key, arg),
         key \in IndexKinds => IsIndexText(key, arg)
  PROVE  IndexSound(q)
<1>1. PICK t : t = p.tree
  OBVIOUS
<1>2. PICK rk : /\ Sound(IndexSyntax, IndexClauses, rk, {}, {"index"}, p)
                /\ IndexTree(t) /\ IsTree(t)
  BY <1>1 DEF IndexSound, Sound, Held
<1>3. Read("defineIndex", t, key, arg) = ReadIndex(t, key, arg)
  BY DEF Read
<1>8. key # "index"
  <2>1. PICK s : s = "defineIndex"
    OBVIOUS
  <2>2. IsSyntax(Syntax[s]) /\ p.stage \in Nat /\ q \in Step(s, p, key, arg)
    BY <1>2, <2>1, IndexFacts DEF Sound, Held, IsSyntax
  <2>3. q.stage \in DOMAIN Syntax[s] /\ key \in Syntax[s][q.stage].keys
    BY <2>2, StepTaken
  <2> QED
    BY <2>1, <2>3, IndexFacts
<1>4. ASSUME NEW u \in ReadIndex(t, key, arg)
      PROVE  IndexTree(u) /\ Tame(IndexSyntax, IndexClauses, {}, {"index"}, t, key, u)
  <2>1. CASE key \in IndexKinds
    <3>1. \E x : u = With(t, "index", x) /\ IsIndex(x)
      <4>1. IsIndexText(key, arg)
        BY <2>1
      <4>2. CASE key = "FULLTEXT"
        <5>1. u = With(t, "index", ReadFullText(arg))
          BY <1>4, <4>2 DEF ReadIndex
        <5> QED
          BY <2>1, <4>1, <4>2, <5>1, IndexReread
      <4>3. CASE key = "HNSW"
        <5>1. ~(arg.m > 127) /\ u = With(t, "index", ReadHnsw(arg))
          BY <1>4, <4>3 DEF ReadIndex, Unless, Refused
        <5> QED
          BY <2>1, <4>1, <4>3, <5>1, IndexReread
      <4>4. CASE key \in {"UNIQUE", "COUNT"}
        <5>1. u = With(t, "index", arg)
          BY <1>4, <4>4 DEF ReadIndex
        <5> QED
          BY <2>1, <4>1, <4>4, <5>1, IndexReread
      <4> QED
        BY <2>1, <4>2, <4>3, <4>4 DEF IndexKinds
    <3>2. PICK x : u = With(t, "index", x) /\ IsIndex(x)
      BY <3>1
    <3>3. /\ IsTree(u) /\ DOMAIN u = DOMAIN t /\ u["index"] = x
          /\ \A k \in DOMAIN t : k # "index" => u[k] = t[k]
      BY <1>2, <3>2 DEF With, IsTree, IndexTree, Given
    <3>4. IndexTree(u)
      BY <1>2, <3>2, <3>3 DEF IndexTree, PlainTree, Given
    <3>5. Tame(IndexSyntax, IndexClauses, {}, {"index"}, t, key, u)
      BY <2>1, <3>3, IndexFacts DEF Tame, Skippable
    <3> QED
      BY <3>4, <3>5
  <2>2. CASE key \notin IndexKinds
    <3>1. u \in ReadPlain(t, key, arg)
      BY <1>4, <2>2 DEF ReadIndex, IndexKinds
    <3>2. Ordinary(IndexSyntax, IndexClauses, {}, {"index"}, t, key, u) /\ PlainTree(u)
      <4>1. Skippable(IndexSyntax, "COMMENT") /\ "COMMENT" \notin {} /\ PlainTree(t)
        BY <1>1, <1>2, IndexFacts DEF IndexTree
      <4>2. Simple(IndexSyntax, IndexClauses, {}, {"index"}, key)
        BY <2>2, IndexFacts
      <4> QED
        BY <3>1, <4>1, <4>2, ReadPlainIsOrdinary
    <3>3. Given(u, "index") /\ u["index"] = t["index"]
      BY <1>2, <1>8, <3>1 DEF ReadPlain, WithComment, Without, With, IndexTree, Given
    <3> QED
      BY <1>2, <3>2, <3>3, OrdinaryIsTame DEF IndexTree
  <2> QED
    BY <2>1, <2>2
<1>5. PICK s : s = "defineIndex" /\ Syntax[s] = IndexSyntax /\ NoRivals(IndexClauses)
  BY IndexFacts
<1>6. \A u \in Read(s, p.tree, key, arg) : Tame(Syntax[s], IndexClauses, {}, {"index"}, p.tree, key, u)
  BY <1>1, <1>3, <1>4, <1>5
<1>7. Sound(Syntax[s], IndexClauses, rk, {}, {"index"}, q) /\ q.tree \in Read(s, p.tree, key, arg)
  BY <1>2, <1>5, <1>6, TameStep
<1> QED
  BY <1>1, <1>3, <1>4, <1>5, <1>7 DEF IndexSound

LEMMA IndexReturns ==
  ASSUME NEW p, IndexSound(p), MayEnd("defineIndex", p)
  PROVE  Returns("defineIndex", p)
<1>1. PICK s, t, txt, x : s = "defineIndex" /\ t = p.tree /\ txt = IndexText /\ x = t["index"]
  OBVIOUS
<1>2. PICK rk : Sound(Syntax[s], IndexClauses, rk, {}, {"index"}, p) /\ IndexTree(t)
  BY <1>1, IndexFacts DEF IndexSound
<1>3. /\ DOMAIN txt = 1..7 /\ txt[1] = "kind" /\ txt[2] = "name" /\ txt[3] = "ON" /\ txt[4] = "FIELDS"
      /\ txt[5] = "index" /\ txt[6] = "COMMENT" /\ txt[7] = "CONCURRENTLY"
  BY <1>1 DEF IndexText
<1>4. \A i : i \in 1..7 <=> i \in {1, 2, 3, 4, 5, 6, 7}
  OBVIOUS
<1>5. /\ IsTree(t) /\ \A k \in DOMAIN t : k = "index" \/ k \in Words(IndexClauses)
  BY <1>1, <1>2 DEF Sound, Held
<1>6. DOMAIN t \subseteq {"kind", "name", "ON", "FIELDS", "index", "COMMENT", "CONCURRENTLY"}
  BY <1>5 DEF Words, IndexClauses
<1>7. PICK key, st, at, H, arg :
        /\ key = [i \in 1..7 |-> IF i = 5 THEN x.kind ELSE txt[i]] /\ st = <<1, 2, 3, 4, 4, 4, 4>>
        /\ at = [i \in 1..7 |-> {txt[i]}]
        /\ H = {i \in 1..7 : IF i = 5 THEN x.kind # "INDEX" ELSE Given(t, txt[i])}
        /\ arg = [i \in 1..7 |-> t[txt[i]]]
  OBVIOUS
<1>8. /\ st[1] = 1 /\ st[2] = 2 /\ st[3] = 3 /\ st[4] = 4 /\ st[5] = 4 /\ st[6] = 4 /\ st[7] = 4
      /\ key[1] = "kind" /\ key[2] = "name" /\ key[3] = "ON" /\ key[4] = "FIELDS" /\ key[5] = x.kind
      /\ key[6] = "COMMENT" /\ key[7] = "CONCURRENTLY"
  BY <1>3, <1>7
<1>9. PICK syn : syn = Syntax[s] /\ DOMAIN syn = 1..4 /\ Len(syn) = 4
  BY <1>1, IndexFacts DEF IndexSyntax, HeadedOn
<1>10. /\ syn[1].keys = {"kind"} /\ syn[2].keys = {"name"} /\ syn[2].must /\ syn[3].keys = {"ON"} /\ syn[3].must
       /\ syn[4].keys = {"FIELDS", "CONCURRENTLY", "COMMENT"} \cup IndexKinds /\ ~syn[1].must /\ ~syn[4].must
       /\ syn[4].loops
  <2>1. syn = IndexSyntax
    BY <1>1, <1>9, IndexFacts
  <2> QED
    BY <2>1 DEF IndexSyntax, HeadedOn, May, Must, Loop, Stage, IndexKinds
<1>11. x.kind \in IndexKinds \cup {"INDEX"} /\ "index" \in DOMAIN t
  BY <1>1, <1>2 DEF IndexTree, IsIndex, Given
<1>12. 2 \in H /\ 3 \in H
  <2>1. p.stage >= 3
    <3>1. p.stage \in 0..4 /\ \A j \in p.stage + 1..4 : ~syn[j].must
      BY <1>1, <1>2, <1>9 DEF MayEnd, Ends, Sound, Held
    <3>2. ~(p.stage < 3)
      BY <1>10, <3>1
    <3> QED
      BY <3>1, <3>2
  <2>2. \A a \in 1..4 : a <= p.stage /\ syn[a].must => \E k \in syn[a].keys : k \in DOMAIN p.tree
    BY <1>2, <1>9 DEF Sound, Held
  <2>3. p.stage \in 0..4
    BY <1>2, <1>9 DEF Sound, Held
  <2>4. (\E k \in syn[2].keys : k \in DOMAIN t) /\ (\E k \in syn[3].keys : k \in DOMAIN t)
    BY <1>1, <1>10, <2>1, <2>2, <2>3
  <2> QED
    BY <1>3, <1>7, <1>10, <2>4 DEF Given
<1>13. InOrder(syn, 7, H, key, st)
  <2>1. \A i \in H : i \in 1..7 /\ st[i] \in 1..4 /\ key[i] \in syn[st[i]].keys
    <3>1. TAKE i \in H
    <3>2. i \in {1, 2, 3, 4, 5, 6, 7} /\ (i = 5 => x.kind \in IndexKinds)
      BY <1>4, <1>7, <1>11
    <3> QED
      BY <1>4, <1>8, <1>10, <3>2
  <2>2. \A i, j \in H : i < j => st[i] < st[j] \/ (st[i] = st[j] /\ syn[st[i]].loops)
    <3>1. TAKE i, j \in H
    <3>2. i \in {1, 2, 3, 4, 5, 6, 7} /\ j \in {1, 2, 3, 4, 5, 6, 7}
      BY <1>4, <1>7
    <3> QED
      BY <1>8, <1>10, <3>2
  <2>3. \A a : a \in 1..4 <=> a = 1 \/ a = 2 \/ a = 3 \/ a = 4
    OBVIOUS
  <2>4. \A a \in 1..4 : syn[a].must => \E i \in H : st[i] = a
    BY <1>8, <1>10, <1>12, <2>3
  <2>5. \A i \in H : \A a \in 1..4 : ~(a < st[i] /\ key[i] \in syn[a].keys)
    <3>1. TAKE i \in H
    <3>2. TAKE a \in 1..4
    <3>3. a < st[i] => a \in {1, 2, 3} /\ st[i] \in {2, 3, 4}
      BY <2>1, <2>3
    <3>4. CASE i = 2
      BY <1>8, <1>10, <2>3, <3>4
    <3>5. CASE i = 3
      BY <1>8, <1>10, <2>3, <3>5
    <3>6. CASE i \notin {2, 3}
      <4>1. i \in {1, 4, 5, 6, 7}
        BY <1>4, <1>7, <3>6
      <4>2. st[i] = 1 \/ key[i] \in syn[4].keys
        BY <1>8, <2>1, <4>1
      <4>3. a = 1 \/ a = 2 \/ a = 3 => ~(key[i] \in syn[4].keys /\ key[i] \in syn[a].keys)
        BY <1>10 DEF IndexKinds
      <4> QED
        BY <2>3, <3>3, <4>2, <4>3
    <3> QED
      BY <3>4, <3>5, <3>6
  <2> QED
    BY <1>9, <2>1, <2>2, <2>4, <2>5 DEF InOrder
<1>14. Written(s, t) = FlattenSeq(Optional(7, H, key, arg))
  <2>1. ASSUME NEW i \in 1..7
        PROVE  (IF txt[i] = "index" THEN ShowIndex(x) ELSE Show(t, txt[i]))
                 = IF i \in H THEN << <<key[i], arg[i]>> >> ELSE <<>>
    <3>1. CASE i = 5
      BY <1>1, <1>3, <1>7, <1>8, <3>1 DEF ShowIndex
    <3>2. CASE i # 5
      <4>1. i \in {1, 2, 3, 4, 6, 7}
        BY <1>4, <3>2
      <4>2. txt[i] \notin {"index", "TYPE", "PERMISSIONS"}
        BY <1>3, <4>1
      <4>3. key[i] = txt[i] /\ arg[i] = t[txt[i]] /\ (i \in H <=> Given(t, txt[i]))
        BY <1>7, <3>2
      <4> QED
        BY <4>2, <4>3 DEF Show, WriteArg
    <3> QED
      BY <3>1, <3>2
  <2>2. [i \in DOMAIN txt |-> IF txt[i] = "index" THEN ShowIndex(x) ELSE Show(t, txt[i])] = Optional(7, H, key, arg)
    BY <1>3, <2>1 DEF Optional
  <2>3. Written(s, t) = WriteIndex(t)
    BY <1>1 DEF Written
  <2> QED
    BY <1>1, <2>2, <2>3 DEF WriteIndex
<1>15. \A k : k \in GivenBy(H, at, 7) <=> \E i \in H : k = txt[i]
  <2>1. \A i \in H : i \in 1..7 /\ i <= 7
    BY <1>7
  <2> QED
    BY <1>7, <2>1 DEF GivenBy
<1>16. Default(s) = IndexDefault /\ IsTree(Default(s)) /\ DOMAIN Default(s) = {"index"}
  BY <1>1, IndexFacts
<1>17. DOMAIN t = DOMAIN Default(s) \cup GivenBy(H, at, 7)
  <2>1. \A k \in DOMAIN t : k = "index" \/ \E i \in H : k = txt[i]
    <3>1. \A i \in {1, 2, 3, 4, 6, 7} : txt[i] \in DOMAIN t => i \in H
      BY <1>4, <1>7 DEF Given
    <3>2. TAKE k \in DOMAIN t
    <3>3. k = "index" \/ \E i \in {1, 2, 3, 4, 6, 7} : txt[i] = k
      BY <1>3, <1>6
    <3> QED
      BY <3>1, <3>3
  <2>2. \A i \in H : txt[i] \in DOMAIN t
    <3>1. \A i \in H : i = 5 \/ Given(t, txt[i])
      BY <1>7
    <3> QED
      BY <1>3, <1>11, <3>1 DEF Given
  <2> QED
    BY <1>11, <1>15, <1>16, <2>1, <2>2
<1>18. \A k \in DOMAIN Default(s) : k \notin GivenBy(H, at, 7) => t[k] = Default(s)[k]
  <2>1. ASSUME 5 \notin H PROVE x = IndexDefault["index"]
    <3>1. x.kind = "INDEX"
      BY <1>4, <1>7, <2>1
    <3> QED
      BY <1>1, <1>2, <3>1 DEF IndexTree, IsIndex
  <2> QED
    BY <1>1, <1>3, <1>15, <1>16, <2>1
<1>19. ASSUME NEW i \in H, NEW b
       PROVE  Read(s, b, key[i], arg[i]) = {Overlaid(b, at[i], t)}
  <2>1. Overlaid(b, at[i], t) = With(b, txt[i], t[txt[i]])
    <3>1. at[i] = {txt[i]}
      BY <1>7
    <3> QED
      BY <3>1 DEF Overlaid, With
  <2>2. Read(s, b, key[i], arg[i]) = ReadIndex(b, key[i], arg[i])
    BY <1>1 DEF Read
  <2>3. CASE i = 5
    <3>1. arg[i] = x /\ x.kind \in IndexKinds /\ key[i] = x.kind /\ txt[i] = "index"
      BY <1>1, <1>3, <1>7, <1>11, <2>3
    <3>2. IsIndex(x)
      BY <1>1, <1>2 DEF IndexTree
    <3>3. ReadIndex(b, x.kind, x) = {With(b, "index", x)}
      <4>1. CASE x.kind = "FULLTEXT"
        BY <3>2, <4>1 DEF ReadIndex, IsIndex
      <4>2. CASE x.kind = "HNSW"
        BY <3>2, <4>2 DEF ReadIndex, IsIndex, Unless
      <4>3. CASE x.kind \in {"UNIQUE", "COUNT"}
        BY <4>3 DEF ReadIndex
      <4> QED
        BY <3>1, <4>1, <4>2, <4>3 DEF IndexKinds
    <3> QED
      BY <1>1, <2>1, <2>2, <3>1, <3>3
  <2>4. CASE i # 5
    <3>1. i \in {1, 2, 3, 4, 6, 7} /\ Given(t, txt[i]) /\ key[i] = txt[i] /\ arg[i] = t[txt[i]]
      BY <1>4, <1>7, <2>4
    <3>2. PICK k : k = txt[i] /\ k \notin {"FULLTEXT", "HNSW", "UNIQUE", "COUNT"}
      BY <1>3, <3>1
    <3>3. k = "COMMENT" => t[k] # "NONE"
      BY <1>2, <3>1, <3>2 DEF IndexTree, PlainTree, Given
    <3>4. ReadIndex(b, k, t[k]) = ReadPlain(b, k, t[k])
      BY <3>2 DEF ReadIndex
    <3>5. ReadPlain(b, k, t[k]) = {With(b, k, t[k])}
      BY <3>3 DEF ReadPlain, WithComment
    <3> QED
      BY <2>1, <2>2, <3>1, <3>2, <3>4, <3>5
  <2> QED
    BY <2>3, <2>4
<1>20. Gives(s, 7, H, key, arg, st, at, t)
  <2>1. Complete(s, t) /\ IsSyntax(syn)
    BY <1>1, <1>9, IndexFacts DEF MayEnd
  <2> QED
    BY <1>5, <1>9, <1>13, <1>16, <1>17, <1>18, <1>19, <2>1 DEF Gives
<1>21. TreesOf(s, FlattenSeq(Optional(7, H, key, arg))) = {AstOf(s, t)}
  BY <1>20, WrittenReread
<1>22. ~Unreadable(s, t) /\ Kept(s, t) = t
  BY <1>1 DEF Unreadable, Kept, RemoveSyntax
<1> QED
  BY <1>1, <1>14, <1>21, <1>22 DEF Returns

-----------------------------------------------------------------------------
(* DEFINE API.  Its actions are clauses FOR, any number of them.             *)
ApiKeys == {"kind", "name", "FOR_ANY", "FOR", "THEN", "COMMENT"}
IsApiConfig(c) == ReadApiConfig(c) = c
IsAction(a) == [a EXCEPT !.config = ReadApiConfig(a.config)] = a
ApiTree(t) ==
  /\ IsTree(t) /\ PlainTree(t) /\ DOMAIN t \subseteq ApiKeys /\ {"FOR_ANY", "FOR"} \subseteq DOMAIN t
  /\ Given(t, "THEN") => t["THEN"] # ""
  /\ IsApiConfig(t["FOR_ANY"]) /\ t["FOR"] \in Seq({t["FOR"][i] : i \in DOMAIN t["FOR"]})
  /\ \A i \in DOMAIN t["FOR"] : IsAction(t["FOR"][i])
ApiSound(p) == ApiTree(p.tree) /\ p.stage \in 0..4 /\ (p.stage >= 2 => Given(p.tree, "name"))

LEMMA ApiFacts ==
  /\ Syntax["defineApi"] = ApiSyntax /\ IsSyntax(ApiSyntax)
  /\ Default("defineApi") = ApiDefault /\ IsTree(ApiDefault) /\ DOMAIN ApiDefault = {"FOR_ANY", "FOR"}
  /\ ApiDefault["FOR"] = <<>> /\ ApiDefault["FOR_ANY"] = ApiConfig("FULL", <<>>)
  /\ DOMAIN ApiSyntax = 1..4 /\ Len(ApiSyntax) = 4
  /\ ApiSyntax[1].keys = {"kind"} /\ ~ApiSyntax[1].must
  /\ ApiSyntax[2].keys = {"name"} /\ ApiSyntax[2].must
  /\ ApiSyntax[3].keys = {"FOR_ANY", "FOR"} /\ ~ApiSyntax[3].must /\ ApiSyntax[3].loops
  /\ ApiSyntax[4].keys = {"COMMENT"} /\ ~ApiSyntax[4].must
<1>1. Syntax["defineApi"] = ApiSyntax
  BY DEF Syntax, Removals, Over, RemoveSyntax, RemoveOnTableSyntax, RemoveOtherSyntax
<1>2. Default("defineApi") = ApiDefault
  BY DEF Default, Defaults
<1>3. /\ IsTree(ApiDefault) /\ DOMAIN ApiDefault = {"FOR_ANY", "FOR"}
      /\ ApiDefault["FOR"] = <<>> /\ ApiDefault["FOR_ANY"] = ApiConfig("FULL", <<>>)
  BY DEF ApiDefault, With, IsTree
<1>4. DOMAIN ApiSyntax = 1..4 /\ Len(ApiSyntax) = 4
  BY DEF ApiSyntax
<1>5. /\ ApiSyntax[1].keys = {"kind"} /\ ~ApiSyntax[1].must
      /\ ApiSyntax[2].keys = {"name"} /\ ApiSyntax[2].must
      /\ ApiSyntax[3].keys = {"FOR_ANY", "FOR"} /\ ~ApiSyntax[3].must /\ ApiSyntax[3].loops
      /\ ApiSyntax[4].keys = {"COMMENT"} /\ ~ApiSyntax[4].must
  BY DEF ApiSyntax, May, Must, Loop, Stage
<1> QED
  BY <1>1, <1>2, <1>3, <1>4, <1>5 DEF IsSyntax

LEMMA ConfigsAreRead ==
  /\ \A c : IsApiConfig(ReadApiConfig(c))
  /\ IsApiConfig(ApiConfig("FULL", <<>>))
  /\ \A a : IsActionText(a) => IsAction([a EXCEPT !.config = ReadApiConfig(a.config)])
<1>0. ASSUME NEW x, NEW y, x # "" PROVE IsApiConfig(ApiConfig(x, y))
  <2>1. ApiConfig(x, y).permission = x /\ ApiConfig(x, y).middleware = y
    BY DEF ApiConfig
  <2> QED
    BY <1>0, <2>1 DEF IsApiConfig, ReadApiConfig, Or
<1>1. ASSUME NEW c PROVE IsApiConfig(ReadApiConfig(c))
  <2>1. Or(c.permission, "FULL") # ""
    BY DEF Or
  <2> QED
    BY <1>0, <2>1 DEF ReadApiConfig
<1>2. IsApiConfig(ApiConfig("FULL", <<>>))
  BY <1>0
<1>3. ASSUME NEW a, IsActionText(a) PROVE IsAction([a EXCEPT !.config = ReadApiConfig(a.config)])
  <2>1. PICK x, y, z : a = [methods |-> x, config |-> y, action |-> z]
    BY <1>3 DEF IsActionText
  <2>2. PICK c : c = ReadApiConfig(a.config) /\ ReadApiConfig(c) = c
    BY <1>1 DEF IsApiConfig
  <2>5. [a EXCEPT !.config = c] = [methods |-> x, config |-> c, action |-> z]
    BY <2>1
  <2>3. PICK b : b = [a EXCEPT !.config = c] /\ b = [methods |-> x, config |-> c, action |-> z]
    BY <2>5
  <2>4. b.config = c /\ [b EXCEPT !.config = c] = b
    BY <2>3
  <2> QED
    BY <2>2, <2>3, <2>4 DEF IsAction
<1> QED
  BY <1>1, <1>2, <1>3

LEMMA ApiBegins ==
  ApiSound(Begin(Default("defineApi")))
<1>1. PICK t, p : t = ApiDefault /\ p = Begin(t) /\ p.tree = t /\ p.stage = 0
  BY AtParts DEF Begin
<1>2. ApiTree(t)
  <2>1. t["FOR"] = <<>> /\ DOMAIN <<>> = {} /\ <<>> \in Seq({})
    BY <1>1, ApiFacts
  <2>2. {t["FOR"][i] : i \in DOMAIN t["FOR"]} = {}
    BY <2>1
  <2> QED
    BY <1>1, <2>1, <2>2, ApiFacts, ConfigsAreRead DEF ApiTree, PlainTree, ApiKeys, Given
<1> QED
  BY <1>1, <1>2, ApiFacts DEF ApiSound

LEMMA ApiStep ==
  ASSUME NEW p, ApiSound(p), NEW key, NEW arg, NEW q \in Step("defineApi", p, key, arg),
         key = "FOR" => IsActionText(arg)
  PROVE  ApiSound(q)
<1>1. PICK s, t, u : s = "defineApi" /\ t = p.tree /\ u = q.tree
  OBVIOUS
<1>2. p.stage \in Nat /\ IsSyntax(Syntax[s]) /\ Syntax[s] = ApiSyntax
  BY <1>1, ApiFacts DEF ApiSound
<1>3. /\ u \in Read(s, t, key, arg) /\ q.stage \in DOMAIN Syntax[s] /\ key \in Syntax[s][q.stage].keys
      /\ q.stage > p.stage \/ (q.stage = p.stage /\ Syntax[s][q.stage].loops)
      /\ \A b \in DOMAIN Syntax[s] : p.stage < b /\ b < q.stage => ~Syntax[s][b].must
  BY <1>1, <1>2, StepTaken
<1>4. PICK z, y : z = p.stage /\ y = q.stage /\ z \in 0..4 /\ y \in 1..4
  BY <1>2, <1>3, ApiFacts DEF ApiSound
<1>5. /\ y = 1 \/ y = 2 \/ y = 3 \/ y = 4
      /\ key \in ApiSyntax[y].keys /\ (y > 2 => ~(z < 2))
      /\ y >= z
  BY <1>2, <1>3, <1>4, ApiFacts
<1>6. key \in {"kind", "name", "FOR_ANY", "FOR", "COMMENT"} /\ (y = 2 => key = "name") /\ (key = "COMMENT" => y = 4)
  BY <1>5, ApiFacts
<1>7. ApiTree(t) /\ (z >= 2 => Given(t, "name"))
  BY <1>1, <1>4 DEF ApiSound
<1>8. Read(s, t, key, arg) = ReadApi(t, key, arg)
  BY <1>1 DEF Read
<1>9. ApiTree(u) /\ (Given(t, "name") \/ key = "name" => Given(u, "name"))
  <2>1. CASE key = "FOR_ANY"
    <3>1. PICK c : c = ReadApiConfig(arg.config) /\ IsApiConfig(c)
      BY ConfigsAreRead
    <3>2. u = With(IF arg.then = "" THEN t ELSE With(t, "THEN", arg.then), key, c)
      BY <1>3, <1>8, <2>1, <3>1 DEF ReadApi
    <3>3. CASE arg.then = ""
      <4>1. /\ IsTree(u) /\ DOMAIN u = DOMAIN t /\ u["FOR_ANY"] = c
            /\ \A k \in DOMAIN t : k # "FOR_ANY" => u[k] = t[k]
        BY <1>7, <2>1, <3>2, <3>3 DEF With, IsTree, ApiTree
      <4> QED
        BY <1>7, <2>1, <3>1, <4>1 DEF ApiTree, PlainTree, Given
    <3>4. CASE arg.then # ""
      <4>1. /\ IsTree(u) /\ DOMAIN u = DOMAIN t \cup {"THEN"} /\ u["FOR_ANY"] = c /\ u["THEN"] = arg.then
            /\ \A k \in DOMAIN t : k \notin {"THEN", "FOR_ANY"} => u[k] = t[k]
        BY <1>7, <2>1, <3>2, <3>4 DEF With, IsTree, ApiTree
      <4> QED
        BY <1>7, <2>1, <3>1, <3>4, <4>1 DEF ApiTree, PlainTree, Given, ApiKeys
    <3> QED
      BY <3>3, <3>4
  <2>2. CASE key = "FOR"
    <3>1. PICK a : a = [arg EXCEPT !.config = ReadApiConfig(arg.config)] /\ IsAction(a)
      BY <2>2, ConfigsAreRead
    <3>2. u = With(t, key, Append(t["FOR"], a))
      BY <1>3, <1>8, <2>2, <3>1 DEF ReadApi
    <3>3. PICK w, V : w = t["FOR"] /\ V = {w[i] : i \in DOMAIN w} /\ w \in Seq(V)
      BY <1>7 DEF ApiTree
    <3>4. PICK x : x = Append(w, a)
      OBVIOUS
    <3>5. PICK W : W = V \cup {a}
      OBVIOUS
    <3>6. w \in Seq(W) /\ a \in W
      BY <3>3, <3>5
    <3>7. /\ x \in Seq(W) /\ \A i \in DOMAIN x : x[i] = a \/ (i \in DOMAIN w /\ x[i] = w[i])
      BY <3>4, <3>6
    <3>8. x \in Seq({x[i] : i \in DOMAIN x}) /\ \A i \in DOMAIN x : IsAction(x[i])
      <4>1. \A i \in DOMAIN x : IsAction(x[i])
        BY <1>7, <3>1, <3>3, <3>7 DEF ApiTree
      <4>2. PICK n \in Nat : x \in [1..n -> W] /\ n = Len(x)
        BY <3>7
      <4>3. PICK X : X = {x[i] : i \in DOMAIN x}
        OBVIOUS
      <4>4. x \in [1..n -> X]
        BY <4>2, <4>3
      <4> QED
        BY <4>1, <4>3, <4>4
    <3>9. /\ IsTree(u) /\ DOMAIN u = DOMAIN t /\ u["FOR"] = x
          /\ \A k \in DOMAIN t : k # "FOR" => u[k] = t[k]
      BY <1>7, <2>2, <3>2, <3>3, <3>4 DEF With, IsTree, ApiTree
    <3> QED
      BY <1>7, <2>2, <3>8, <3>9 DEF ApiTree, PlainTree, Given
  <2>3. CASE key \notin {"FOR_ANY", "FOR"}
    <3>1. u \in ReadPlain(t, key, arg)
      BY <1>3, <1>8, <2>3 DEF ReadApi
    <3>2. CASE key = "COMMENT" /\ arg = "NONE"
      <4>1. /\ IsTree(u) /\ DOMAIN u = DOMAIN t \ {"COMMENT"} /\ \A k \in DOMAIN u : u[k] = t[k]
        BY <3>1, <3>2 DEF ReadPlain, WithComment, Without, IsTree
      <4> QED
        BY <1>7, <3>2, <4>1 DEF ApiTree, PlainTree, Given
    <3>3. CASE ~(key = "COMMENT" /\ arg = "NONE")
      <4>1. /\ IsTree(u) /\ DOMAIN u = DOMAIN t \cup {key} /\ u[key] = arg
            /\ \A k \in DOMAIN t : k # key => u[k] = t[k]
        BY <3>1, <3>3 DEF ReadPlain, WithComment, With, IsTree
      <4>2. /\ key \in ApiKeys /\ key \notin {"THEN", "FOR_ANY", "FOR"} /\ (key = "COMMENT" => arg # "NONE")
        BY <1>6, <2>3, <3>3 DEF ApiKeys
      <4>3. /\ \A k \in {"THEN", "FOR_ANY", "FOR"} : (k \in DOMAIN u <=> k \in DOMAIN t) /\ (k \in DOMAIN t => u[k] = t[k])
            /\ PlainTree(u)
        BY <1>7, <4>1, <4>2 DEF PlainTree, ApiTree
      <4> QED
        BY <1>7, <4>1, <4>2, <4>3 DEF ApiTree, Given
    <3> QED
      BY <3>2, <3>3
  <2> QED
    BY <2>1, <2>2, <2>3
<1>10. y >= 2 => Given(u, "name")
  <2>1. y >= 2 => y = 2 \/ z >= 2
    BY <1>4, <1>5
  <2> QED
    BY <1>6, <1>7, <1>9, <2>1
<1> QED
  BY <1>1, <1>4, <1>9, <1>10 DEF ApiSound

LEMMA MinOfOne ==
  ASSUME NEW b \in Nat
  PROVE  Min({b}) = b
BY MinIsLeast

\* One clause that is taken by the stage b.
LEMMA OneClause ==
  ASSUME NEW s, NEW p, NEW key, NEW arg, NEW b \in Nat, NEW u,
         Takes(Syntax[s], p, key) = {b}, Read(s, p.tree, key, arg) = {u}
  PROVE  LeadsTo(s, {p}, << <<key, arg>> >>, {At(b, u)})
<1>1. Min({b}) = b
  BY MinOfOne
<1>2. Step(s, p, key, arg) = {At(b, u)}
  BY <1>1 DEF Step, Reads
<1>3. ReadOn(s, {p}, <<key, arg>>) = {At(b, u)}
  BY <1>2 DEF ReadOn
<1> QED
  BY <1>3, LeadsOn

\* The stages of an API that take its clauses.
LEMMA ApiTakes ==
  ASSUME NEW p, p.stage \in 0..4
  PROVE  /\ p.stage = 0 => Takes(ApiSyntax, p, "kind") = {1}
         /\ p.stage \in {0, 1} => Takes(ApiSyntax, p, "name") = {2}
         /\ p.stage \in {2, 3} => Takes(ApiSyntax, p, "FOR_ANY") = {3} /\ Takes(ApiSyntax, p, "FOR") = {3}
         /\ p.stage = 3 => Takes(ApiSyntax, p, "COMMENT") = {4}
         /\ p.stage \in {3, 4} => Ends(ApiSyntax, p)
<1>1. PICK z : z = p.stage /\ z \in 0..4
  OBVIOUS
<1>2. \A i : i \in 1..4 <=> i = 1 \/ i = 2 \/ i = 3 \/ i = 4
  OBVIOUS
<1>3. ASSUME NEW key, NEW a \in 1..4, NEW b \in 0..4, z = b,
             \A i \in 1..4 : key \in ApiSyntax[i].keys <=> i = a,
             b < a \/ (b = 3 /\ a = 3), ~(b < 2 /\ 2 < a)
      PROVE  Takes(ApiSyntax, p, key) = {a}
  <2>1. a \in Reachable(ApiSyntax, p)
    <3>1. \A j \in b + 1..a - 1 : ~ApiSyntax[j].must
      BY <1>2, <1>3, ApiFacts
    <3>2. a > b \/ (a = b /\ ApiSyntax[a].loops)
      BY <1>3, ApiFacts
    <3> QED
      BY <1>1, <1>3, <3>1, <3>2, ApiFacts DEF Reachable
  <2>2. Reachable(ApiSyntax, p) \subseteq 1..4
    BY ApiFacts DEF Reachable
  <2> QED
    BY <1>3, <2>1, <2>2 DEF Takes
<1>4. /\ \A i \in 1..4 : "kind" \in ApiSyntax[i].keys <=> i = 1
      /\ \A i \in 1..4 : "name" \in ApiSyntax[i].keys <=> i = 2
      /\ \A i \in 1..4 : "FOR_ANY" \in ApiSyntax[i].keys <=> i = 3
      /\ \A i \in 1..4 : "FOR" \in ApiSyntax[i].keys <=> i = 3
      /\ \A i \in 1..4 : "COMMENT" \in ApiSyntax[i].keys <=> i = 4
  BY <1>2, ApiFacts
<1>5. z = 0 => Takes(ApiSyntax, p, "kind") = {1}
  BY <1>1, <1>3, <1>4
<1>6. z \in {0, 1} => Takes(ApiSyntax, p, "name") = {2}
  BY <1>1, <1>3, <1>4
<1>7. z \in {2, 3} => Takes(ApiSyntax, p, "FOR_ANY") = {3} /\ Takes(ApiSyntax, p, "FOR") = {3}
  BY <1>1, <1>3, <1>4
<1>8. z = 3 => Takes(ApiSyntax, p, "COMMENT") = {4}
  BY <1>1, <1>3, <1>4
<1>9. z \in {3, 4} => Ends(ApiSyntax, p)
  BY <1>1, <1>2, ApiFacts DEF Ends
<1> QED
  BY <1>1, <1>5, <1>6, <1>7, <1>8, <1>9

\* The tree when its settings are c and its actions f.
ApiPart(t, K, c, f) == [k \in K |-> IF k = "FOR" THEN f ELSE IF k = "FOR_ANY" THEN c ELSE t[k]]

\* The actions are read one after the other.
LEMMA ActionsReread ==
  ASSUME NEW t, NEW K, "FOR" \in K, NEW c, NEW V, NEW w \in Seq(V), \A i \in DOMAIN w : IsAction(w[i])
  PROVE  LeadsTo("defineApi", {At(3, ApiPart(t, K, c, <<>>))}, [i \in DOMAIN w |-> <<"FOR", w[i]>>],
                 {At(3, ApiPart(t, K, c, w))})
<1>1. PICK n \in Nat : n = Len(w) /\ DOMAIN w = 1..n /\ w \in [1..n -> V]
  OBVIOUS
<1>2. PICK s, y : s = "defineApi" /\ y = [i \in 1..n |-> <<"FOR", w[i]>>]
  OBVIOUS
<1>3. Len(y) = n
  BY <1>2
<1> DEFINE f == [i \in 0..n |-> [j \in 1..i |-> w[j]]]
           h == [i \in 0..n |-> {At(3, ApiPart(t, K, c, f[i]))}]
<1>4. f[0] = <<>> /\ f[n] = w
  <2>1. f[0] = [j \in {} |-> w[j]]
    OBVIOUS
  <2>2. f[n] = [j \in 1..n |-> w[j]]
    OBVIOUS
  <2>3. [j \in {} |-> w[j]] = <<>>
    OBVIOUS
  <2> HIDE DEF f
  <2> QED
    BY <1>1, <2>1, <2>2, <2>3
<1>5. ASSUME NEW i \in 1..n PROVE f[i] = Append(f[i - 1], w[i])
  <2>1. i \in 0..n /\ i - 1 \in 0..n /\ i \in Nat /\ i - 1 \in Nat
    OBVIOUS
  <2>2. PICK x : x = f[i - 1] /\ x = [j \in 1..(i - 1) |-> w[j]]
    BY <2>1
  <2>3. f[i] = [j \in 1..i |-> w[j]]
    BY <2>1
  <2> HIDE DEF f
  <2>4. x \in Seq(V) /\ Len(x) = i - 1
    BY <1>1, <2>1, <2>2
  <2>5. w[i] \in V
    BY <1>1
  <2>6. Append(x, w[i]) = [j \in 1..i |-> w[j]]
    BY <1>1, <2>1, <2>2, <2>4, <2>5
  <2> QED
    BY <2>2, <2>3, <2>6
<1>6. ASSUME NEW i \in 1..n PROVE h[i] = ReadOn(s, h[i - 1], y[i])
  <2>1. PICK g, a, x : g = f[i - 1] /\ a = w[i] /\ x = Append(g, a) /\ f[i] = x /\ IsAction(a)
    BY <1>1, <1>5
  <2>2. /\ h[i] = {At(3, ApiPart(t, K, c, x))} /\ h[i - 1] = {At(3, ApiPart(t, K, c, g))} /\ y[i] = <<"FOR", a>>
    <3>1. i \in 0..n /\ i - 1 \in 0..n
      OBVIOUS
    <3> HIDE DEF f
    <3> QED
      BY <1>2, <2>1, <3>1
  <2>3. PICK b, u, p : /\ b = ApiPart(t, K, c, g) /\ u = ApiPart(t, K, c, x)
                       /\ p = At(3, b) /\ p.stage = 3 /\ p.tree = b
    BY AtParts
  <2>4. Read(s, b, "FOR", a) = {u}
    <3>1. b["FOR"] = g
      BY <2>3 DEF ApiPart
    <3>2. Read(s, b, "FOR", a) = ReadApi(b, "FOR", a)
      BY <1>2 DEF Read
    <3>3. ReadApi(b, "FOR", a) = {With(b, "FOR", Append(g, a))}
      BY <2>1, <3>1 DEF ReadApi, IsAction
    <3>4. With(b, "FOR", x) = u
      BY <2>3 DEF With, ApiPart
    <3> QED
      BY <2>1, <3>2, <3>3, <3>4
  <2>5. Takes(Syntax[s], p, "FOR") = {3}
    BY <1>2, <2>3, ApiTakes, ApiFacts
  <2>6. Step(s, p, "FOR", a) = {At(3, u)}
    <3>1. Min({3}) = 3
      BY MinOfOne
    <3> QED
      BY <2>3, <2>4, <2>5, <3>1 DEF Step, Reads
  <2>7. ReadOn(s, {p}, <<"FOR", a>>) = {At(3, u)}
    BY <2>6 DEF ReadOn
  <2> QED
    BY <2>2, <2>3, <2>7
<1>7. h[0] = {At(3, ApiPart(t, K, c, <<>>))} /\ h[n] = {At(3, ApiPart(t, K, c, w))}
  <2>1. h[0] = {At(3, ApiPart(t, K, c, f[0]))} /\ h[n] = {At(3, ApiPart(t, K, c, f[n]))}
    OBVIOUS
  <2> HIDE DEF f, h
  <2> QED
    BY <1>4, <2>1
<1> HIDE DEF f, h
<1>8. LeadsTo(s, {At(3, ApiPart(t, K, c, <<>>))}, y, {At(3, ApiPart(t, K, c, w))})
  BY <1>3, <1>6, <1>7 DEF LeadsTo
<1> QED
  BY <1>1, <1>2, <1>8

LEMMA ApiReturns ==
  ASSUME NEW p, ApiSound(p), MayEnd("defineApi", p)
  PROVE  Returns("defineApi", p)
<1>1. PICK s, t, w, c, d : /\ s = "defineApi" /\ t = p.tree /\ w = t["FOR"] /\ c = t["FOR_ANY"]
                           /\ d = ApiConfig("FULL", <<>>)
  OBVIOUS
<1>2. ApiTree(t) /\ Given(t, "name")
  <2>1. ~(p.stage < 2)
    BY ApiFacts DEF MayEnd, Ends, ApiSound
  <2> QED
    BY <1>1, <2>1 DEF ApiSound
<1>3. PICK D, K, L, M : /\ D = {"FOR_ANY", "FOR"} /\ K = D \cup (DOMAIN t \cap {"kind"}) /\ L = K \cup {"name"}
                        /\ M = L \cup (DOMAIN t \cap {"THEN"})
  OBVIOUS
<1>4. PICK t0, t1, t2, t3, t4 :
        /\ t0 = ApiPart(t, D, d, <<>>) /\ t1 = ApiPart(t, K, d, <<>>) /\ t2 = ApiPart(t, L, d, <<>>)
        /\ t3 = ApiPart(t, M, c, <<>>) /\ t4 = ApiPart(t, M, c, w)
  OBVIOUS
<1>5. PICK z1, z5 : z1 = (IF Given(t, "kind") THEN 1 ELSE 0) /\ z5 = (IF Given(t, "COMMENT") THEN 4 ELSE 3)
  OBVIOUS
<1>6. PICK x : x = [config |-> c, then |-> IF Given(t, "THEN") THEN t["THEN"] ELSE ""]
  OBVIOUS
<1>7. PICK c1, c2, c3, c5, y : /\ c1 = <<"kind", t["kind"]>> /\ c2 = <<"name", t["name"]>> /\ c3 = <<"FOR_ANY", x>>
                               /\ c5 = <<"COMMENT", t["COMMENT"]>> /\ y = [i \in DOMAIN w |-> <<"FOR", w[i]>>]
  OBVIOUS
<1>8. t0 = Default(s)
  <2>1. t0 = [k \in D |-> IF k = "FOR" THEN <<>> ELSE IF k = "FOR_ANY" THEN d ELSE t[k]]
    BY <1>4 DEF ApiPart
  <2>2. ApiDefault = [k \in D |-> ApiDefault[k]]
    BY <1>3, ApiFacts DEF IsTree
  <2>3. \A k \in D : t0[k] = ApiDefault[k]
    BY <1>1, <1>3, <2>1, ApiFacts
  <2>4. t0 = [k \in D |-> t0[k]]
    BY <2>1
  <2> QED
    BY <1>1, <2>2, <2>3, <2>4, ApiFacts
<1>9. LeadsTo(s, {At(0, t0)}, Show(t, "kind"), {At(z1, t1)})
  <2>1. CASE Given(t, "kind")
    <3>1. PICK q : q = At(0, t0) /\ q.stage = 0 /\ q.tree = t0
      BY AtParts
    <3>2. Takes(Syntax[s], q, "kind") = {1}
      BY <1>1, <3>1, ApiTakes, ApiFacts
    <3>3. Read(s, t0, "kind", t["kind"]) = {With(t0, "kind", t["kind"])}
      BY <1>1 DEF Read, ReadApi, ReadPlain
    <3>4. With(t0, "kind", t["kind"]) = t1
      <4>1. K = D \cup {"kind"}
        BY <1>3, <2>1 DEF Given
      <4> QED
        BY <1>3, <1>4, <4>1 DEF With, ApiPart
    <3>5. Show(t, "kind") = << <<"kind", t["kind"]>> >>
      BY <2>1 DEF Show, WriteArg
    <3>6. PICK b \in Nat : b = 1
      OBVIOUS
    <3> QED
      BY <1>5, <2>1, <3>1, <3>2, <3>3, <3>4, <3>5, <3>6, OneClause
  <2>2. CASE ~Given(t, "kind")
    <3>1. t1 = t0 /\ z1 = 0 /\ Show(t, "kind") = <<>>
      <4>1. K = D
        BY <1>3, <2>2 DEF Given
      <4> QED
        BY <1>4, <1>5, <2>2, <4>1 DEF Show
    <3> QED
      BY <3>1, LeadsNowhere
  <2> QED
    BY <2>1, <2>2
<1>10. LeadsTo(s, {At(z1, t1)}, Show(t, "name"), {At(2, t2)})
  <2>1. PICK q : q = At(z1, t1) /\ q.stage = z1 /\ q.tree = t1
    BY AtParts
  <2>2. Takes(Syntax[s], q, "name") = {2}
    BY <1>1, <1>5, <2>1, ApiTakes, ApiFacts
  <2>3. Read(s, t1, "name", t["name"]) = {With(t1, "name", t["name"])}
    BY <1>1 DEF Read, ReadApi, ReadPlain
  <2>4. With(t1, "name", t["name"]) = t2
    BY <1>3, <1>4 DEF With, ApiPart
  <2>5. Show(t, "name") = << <<"name", t["name"]>> >>
    BY <1>2 DEF Show, WriteArg
  <2>6. PICK b \in Nat : b = 2
    OBVIOUS
  <2> QED
    BY <2>1, <2>2, <2>3, <2>4, <2>5, <2>6, OneClause
<1>11. LeadsTo(s, {At(2, t2)}, <<c3>>, {At(3, t3)})
  <2>1. PICK q : q = At(2, t2) /\ q.stage = 2 /\ q.tree = t2
    BY AtParts
  <2>2. Takes(Syntax[s], q, "FOR_ANY") = {3}
    BY <1>1, <2>1, ApiTakes, ApiFacts
  <2>3. x.config = c /\ ReadApiConfig(c) = c /\ (x.then = "" <=> ~Given(t, "THEN")) /\ (Given(t, "THEN") => x.then = t["THEN"])
    BY <1>1, <1>2, <1>6 DEF ApiTree, IsApiConfig
  <2>4. Read(s, t2, "FOR_ANY", x) = {With(IF x.then = "" THEN t2 ELSE With(t2, "THEN", x.then), "FOR_ANY", c)}
    BY <1>1, <2>3 DEF Read, ReadApi
  <2>5. With(IF x.then = "" THEN t2 ELSE With(t2, "THEN", x.then), "FOR_ANY", c) = t3
    <3>1. CASE Given(t, "THEN")
      <4>1. M = L \cup {"THEN"} /\ "FOR_ANY" \in L
        BY <1>3, <3>1 DEF Given
      <4>2. With(With(t2, "THEN", t["THEN"]), "FOR_ANY", c) = t3
        BY <1>4, <4>1 DEF With, ApiPart
      <4> QED
        BY <2>3, <3>1, <4>2
    <3>2. CASE ~Given(t, "THEN")
      <4>1. M = L /\ "FOR_ANY" \in L
        BY <1>3, <3>2 DEF Given
      <4>2. With(t2, "FOR_ANY", c) = t3
        BY <1>4, <4>1 DEF With, ApiPart
      <4> QED
        BY <2>3, <3>2, <4>2
    <3> QED
      BY <3>1, <3>2
  <2>6. PICK b \in Nat : b = 3
    OBVIOUS
  <2>7. <<c3>> = << <<"FOR_ANY", x>> >>
    BY <1>7
  <2>8. Read(s, t2, "FOR_ANY", x) = {t3}
    BY <2>4, <2>5
  <2>9. LeadsTo(s, {q}, << <<"FOR_ANY", x>> >>, {At(b, t3)})
    BY <2>1, <2>2, <2>6, <2>8, OneClause
  <2> QED
    BY <2>1, <2>6, <2>7, <2>9
<1>12. PICK V : w \in Seq(V)
  BY <1>1, <1>2 DEF ApiTree
<1>13. LeadsTo(s, {At(3, t3)}, y, {At(3, t4)})
  <2>1. \A i \in DOMAIN w : IsAction(w[i])
    BY <1>1, <1>2 DEF ApiTree
  <2>2. "FOR" \in M
    BY <1>3
  <2> QED
    BY <1>1, <1>4, <1>7, <1>12, <2>1, <2>2, ActionsReread
<1>14. LeadsTo(s, {At(3, t4)}, Show(t, "COMMENT"), {At(z5, t)})
  <2>1. t = [k \in DOMAIN t |-> IF k = "FOR" THEN w ELSE IF k = "FOR_ANY" THEN c ELSE t[k]]
    BY <1>1, <1>2 DEF ApiTree, IsTree
  <2>2. DOMAIN t = M \cup (DOMAIN t \cap {"COMMENT"})
    BY <1>2, <1>3 DEF ApiTree, ApiKeys, Given
  <2>3. CASE Given(t, "COMMENT")
    <3>1. PICK q : q = At(3, t4) /\ q.stage = 3 /\ q.tree = t4
      BY AtParts
    <3>2. Takes(Syntax[s], q, "COMMENT") = {4}
      BY <1>1, <3>1, ApiTakes, ApiFacts
    <3>3. t["COMMENT"] # "NONE"
      BY <1>2, <2>3 DEF ApiTree, PlainTree, Given
    <3>4. Read(s, t4, "COMMENT", t["COMMENT"]) = {With(t4, "COMMENT", t["COMMENT"])}
      BY <1>1, <3>3 DEF Read, ReadApi, ReadPlain, WithComment
    <3>5. With(t4, "COMMENT", t["COMMENT"]) = t
      <4>1. DOMAIN t = M \cup {"COMMENT"}
        BY <2>2, <2>3 DEF Given
      <4>2. With(t4, "COMMENT", t["COMMENT"]) =
              [k \in DOMAIN t |-> IF k = "FOR" THEN w ELSE IF k = "FOR_ANY" THEN c ELSE t[k]]
        BY <1>4, <4>1 DEF With, ApiPart
      <4> QED
        BY <2>1, <4>2
    <3>6. Show(t, "COMMENT") = << <<"COMMENT", t["COMMENT"]>> >>
      BY <2>3 DEF Show, WriteArg
    <3>7. PICK b \in Nat : b = 4
      OBVIOUS
    <3> QED
      BY <1>5, <2>3, <3>1, <3>2, <3>4, <3>5, <3>6, <3>7, OneClause
  <2>4. CASE ~Given(t, "COMMENT")
    <3>1. DOMAIN t = M
      BY <2>2, <2>4 DEF Given
    <3>2. t4 = t /\ z5 = 3 /\ Show(t, "COMMENT") = <<>>
      BY <1>4, <1>5, <2>1, <2>4, <3>1 DEF ApiPart, Show
    <3> QED
      BY <3>2, LeadsNowhere
  <2> QED
    BY <2>3, <2>4
<1>15. PICK U : U = {c1, c2, c3, c5} \cup {y[i] : i \in DOMAIN w}
  OBVIOUS
<1>16. /\ Show(t, "kind") \in Seq(U) /\ Show(t, "name") \in Seq(U) /\ Show(t, "COMMENT") \in Seq(U)
       /\ <<c3>> \in Seq(U) /\ y \in Seq(U)
  <2>1. c1 \in U /\ c2 \in U /\ c3 \in U /\ c5 \in U /\ \A i \in DOMAIN w : y[i] \in U
    BY <1>15
  <2>2. /\ Show(t, "kind") \in {<<>>, <<c1>>} /\ Show(t, "name") \in {<<>>, <<c2>>}
        /\ Show(t, "COMMENT") \in {<<>>, <<c5>>}
    BY <1>7 DEF Show, WriteArg
  <2>3. <<>> \in Seq(U) /\ <<c1>> \in Seq(U) /\ <<c2>> \in Seq(U) /\ <<c3>> \in Seq(U) /\ <<c5>> \in Seq(U)
    BY <2>1
  <2>4. y \in Seq(U)
    <3>1. PICK n \in Nat : DOMAIN w = 1..n
      BY <1>12
    <3>2. y = [i \in 1..n |-> <<"FOR", w[i]>>]
      BY <1>7, <3>1
    <3>3. y = [i \in 1..n |-> y[i]]
      BY <3>2
    <3>5. \A i \in 1..n : y[i] \in U
      BY <2>1, <3>1
    <3>6. y \in [1..n -> U]
      BY <3>3, <3>5
    <3> QED
      BY <3>6
  <2> QED
    BY <2>2, <2>3, <2>4
<1>17. PICK head : head = ShowAll(t, <<"kind", "name">>)
  OBVIOUS
<1>18. head \in Seq(U) /\ LeadsTo(s, {At(0, t0)}, head, {At(2, t2)})
  <2>0. PICK keys : keys = <<"kind", "name">>
    OBVIOUS
  <2>1. keys = <<"kind", "name">> /\ DOMAIN keys = 1..2 /\ keys[1] = "kind" /\ keys[2] = "name"
    BY <2>0
  <2>2. PICK ss : ss = [i \in 1..2 |-> Show(t, keys[i])]
    OBVIOUS
  <2>3. ss[1] = Show(t, "kind") /\ ss[2] = Show(t, "name") /\ \A i : i \in 1..2 <=> i = 1 \/ i = 2
    BY <2>1, <2>2
  <2>4. ss \in Seq(Seq(U)) /\ Len(ss) = 2
    <3>1. \A i \in 1..2 : ss[i] \in Seq(U)
      BY <1>16, <2>3
    <3>2. PICK S : S = Seq(U)
      OBVIOUS
    <3>3. ss \in [1..2 -> S]
      BY <2>2, <3>1, <3>2
    <3> QED
      BY <2>2, <3>2, <3>3
  <2>5. PICK P, Q, R : P = {At(0, t0)} /\ Q = {At(z1, t1)} /\ R = {At(2, t2)}
    OBVIOUS
  <2>6. PICK pr : pr = [i \in 0..2 |-> IF i = 0 THEN P ELSE IF i = 1 THEN Q ELSE R]
    OBVIOUS
  <2>7. pr[0] = P /\ pr[1] = Q /\ pr[2] = R
    BY <2>6
  <2>8. \A i \in 1..Len(ss) : LeadsTo(s, pr[i - 1], ss[i], pr[i])
    <3>1. LeadsTo(s, pr[1 - 1], ss[1], pr[1]) /\ LeadsTo(s, pr[2 - 1], ss[2], pr[2])
      BY <1>9, <1>10, <2>3, <2>5, <2>7
    <3> QED
      BY <2>3, <2>4, <3>1
  <2>9. FlattenSeq(ss) \in Seq(U) /\ LeadsTo(s, pr[0], FlattenSeq(ss), pr[Len(ss)])
    BY <2>4, <2>8, FlattenedLeads
  <2>10. head = FlattenSeq(ss)
    BY <1>17, <2>1, <2>2 DEF ShowAll
  <2> QED
    BY <2>4, <2>5, <2>7, <2>9, <2>10
<1>19. PICK x1, x2, text : x1 = head \o <<c3>> /\ x2 = x1 \o y /\ text = x2 \o Show(t, "COMMENT")
  OBVIOUS
<1>20. x1 \in Seq(U) /\ LeadsTo(s, {At(0, t0)}, x1, {At(3, t3)})
  <2>1. PICK a, b \in Seq(U) : a = head /\ b = <<c3>>
    BY <1>16, <1>18
  <2>2. PICK P, Q, R : P = {At(0, t0)} /\ Q = {At(2, t2)} /\ R = {At(3, t3)}
    OBVIOUS
  <2>3. LeadsTo(s, P, a, Q) /\ LeadsTo(s, Q, b, R)
    BY <1>11, <1>18, <2>1, <2>2
  <2>4. LeadsTo(s, P, a \o b, R)
    BY <2>3, LeadsThrough
  <2>5. a \o b \in Seq(U)
    OBVIOUS
  <2> QED
    BY <1>19, <2>1, <2>2, <2>4, <2>5
<1>21. x2 \in Seq(U) /\ LeadsTo(s, {At(0, t0)}, x2, {At(3, t4)})
  <2>1. PICK a, b \in Seq(U) : a = x1 /\ b = y
    BY <1>16, <1>20
  <2>2. PICK P, Q, R : P = {At(0, t0)} /\ Q = {At(3, t3)} /\ R = {At(3, t4)}
    OBVIOUS
  <2>3. LeadsTo(s, P, a, Q) /\ LeadsTo(s, Q, b, R)
    BY <1>13, <1>20, <2>1, <2>2
  <2>4. LeadsTo(s, P, a \o b, R)
    BY <2>3, LeadsThrough
  <2>5. a \o b \in Seq(U)
    OBVIOUS
  <2> QED
    BY <1>19, <2>1, <2>2, <2>4, <2>5
<1>22. text \in Seq(U) /\ LeadsTo(s, {At(0, t0)}, text, {At(z5, t)})
  <2>1. PICK a, b \in Seq(U) : a = x2 /\ b = Show(t, "COMMENT")
    BY <1>16, <1>21
  <2>2. PICK P, Q, R : P = {At(0, t0)} /\ Q = {At(3, t4)} /\ R = {At(z5, t)}
    OBVIOUS
  <2>3. LeadsTo(s, P, a, Q) /\ LeadsTo(s, Q, b, R)
    BY <1>14, <1>21, <2>1, <2>2
  <2>4. LeadsTo(s, P, a \o b, R)
    BY <2>3, LeadsThrough
  <2>5. a \o b \in Seq(U)
    OBVIOUS
  <2> QED
    BY <1>19, <2>1, <2>2, <2>4, <2>5
<1>23. Written(s, t) = text
  BY <1>1, <1>6, <1>7, <1>17, <1>19 DEF Written, WriteApi
<1>24. ReadAll(s, text) = {At(z5, t)}
  <2>1. IsText(text)
    BY <1>22 DEF IsText
  <2>2. LeadsTo(s, {Begin(Default(s))}, text, {At(z5, t)})
    BY <1>8, <1>22 DEF Begin
  <2> QED
    BY <2>1, <2>2, ReadAllLeads
<1>25. PICK q : q = At(z5, t) /\ q.stage = z5 /\ q.tree = t
  BY AtParts
<1>26. MayEnd(s, q)
  BY <1>1, <1>5, <1>25, ApiTakes, ApiFacts DEF MayEnd, Complete
<1>27. TreesOf(s, text) = {AstOf(s, t)}
  <2>1. {r \in ReadAll(s, text) : MayEnd(s, r)} = {q}
    BY <1>24, <1>25, <1>26
  <2>2. TreesOf(s, text) = {AstOf(s, r.tree) : r \in {q}}
    BY <2>1 DEF TreesOf
  <2> QED
    BY <1>25, <2>2
<1>28. ~Unreadable(s, t) /\ Kept(s, t) = t
  BY <1>1 DEF Unreadable, Kept, RemoveSyntax
<1> QED
  BY <1>1, <1>23, <1>27, <1>28 DEF Returns

-----------------------------------------------------------------------------
(* IF.  What it says of a body is what kind of value it is.                  *)
IfShape(t) ==
  /\ Given(t, "bodies") /\ t["bodies"] \in Seq({t["bodies"][i] : i \in DOMAIN t["bodies"]}) /\ Len(t["bodies"]) # 0
IfSound(p) ==
  /\ p.stage \in 0..4 /\ (p.stage = 0 => p.tree = NoTree) /\ (p.stage # 0 => IfShape(p.tree))
  /\ Given(p.tree, "ELSE") => p.tree["ELSE"].kind # "none"

LEMMA IfFacts ==
  /\ Syntax["if"] = IfSyntax /\ IsSyntax(IfSyntax) /\ Default("if") = NoTree /\ DOMAIN NoTree = {}
  /\ DOMAIN IfSyntax = 1..4 /\ Len(IfSyntax) = 4
  /\ IfSyntax[1].keys = {"THEN", "BRACES"} /\ IfSyntax[1].must /\ ~IfSyntax[1].loops
  /\ IfSyntax[2].keys = {"ELSE_IF"} /\ ~IfSyntax[2].must /\ IfSyntax[2].loops
  /\ IfSyntax[3].keys = {"ELSE"} /\ ~IfSyntax[3].must /\ ~IfSyntax[3].loops
  /\ IfSyntax[4].keys = {"END"} /\ ~IfSyntax[4].must /\ ~IfSyntax[4].loops
<1>1. Syntax["if"] = IfSyntax
  BY DEF Syntax, Removals, Over, RemoveSyntax, RemoveOnTableSyntax, RemoveOtherSyntax
<1>2. Default("if") = NoTree /\ DOMAIN NoTree = {}
  BY DEF Default, Defaults, NoTree
<1>3. DOMAIN IfSyntax = 1..4 /\ Len(IfSyntax) = 4
  BY DEF IfSyntax
<1>4. /\ IfSyntax[1].keys = {"THEN", "BRACES"} /\ IfSyntax[1].must /\ ~IfSyntax[1].loops
      /\ IfSyntax[2].keys = {"ELSE_IF"} /\ ~IfSyntax[2].must /\ IfSyntax[2].loops
      /\ IfSyntax[3].keys = {"ELSE"} /\ ~IfSyntax[3].must /\ ~IfSyntax[3].loops
      /\ IfSyntax[4].keys = {"END"} /\ ~IfSyntax[4].must /\ ~IfSyntax[4].loops
  BY DEF IfSyntax, May, OneOf, Loop, Stage
<1> QED
  BY <1>1, <1>2, <1>3, <1>4 DEF IsSyntax

LEMMA IfBegins ==
  IfSound(Begin(Default("if")))
<1>1. PICK t, p : t = NoTree /\ p = Begin(t) /\ p.tree = t /\ p.stage = 0
  BY AtParts DEF Begin
<1> QED
  BY <1>1, IfFacts DEF IfSound, Given

LEMMA IfStep ==
  ASSUME NEW p, IfSound(p), NEW key, NEW arg, NEW q \in Step("if", p, key, arg), arg.kind # "none"
  PROVE  IfSound(q)
<1>1. PICK s, t, u : s = "if" /\ t = p.tree /\ u = q.tree
  OBVIOUS
<1>2. p.stage \in Nat /\ IsSyntax(Syntax[s]) /\ Syntax[s] = IfSyntax
  BY <1>1, IfFacts DEF IfSound
<1>3. /\ u \in Read(s, t, key, arg) /\ q.stage \in DOMAIN Syntax[s] /\ key \in Syntax[s][q.stage].keys
      /\ q.stage > p.stage \/ (q.stage = p.stage /\ Syntax[s][q.stage].loops)
      /\ \A b \in DOMAIN Syntax[s] : p.stage < b /\ b < q.stage => ~Syntax[s][b].must
  BY <1>1, <1>2, StepTaken
<1>4. PICK z, y : z = p.stage /\ y = q.stage /\ z \in 0..4 /\ y \in 1..4
  BY <1>2, <1>3, IfFacts DEF IfSound
<1>5. /\ y = 1 \/ y = 2 \/ y = 3 \/ y = 4
      /\ key \in IfSyntax[y].keys /\ (z = 0 => y = 1) /\ (y = 1 => z = 0)
  BY <1>2, <1>3, <1>4, IfFacts
<1>6. /\ key \in {"THEN", "BRACES", "ELSE_IF", "ELSE", "END"}
      /\ z = 0 <=> key \in {"THEN", "BRACES"}
  BY <1>5, IfFacts
<1>7. /\ z = 0 => t = NoTree
      /\ z # 0 => IfShape(t)
      /\ Given(t, "ELSE") => t["ELSE"].kind # "none"
  BY <1>1, <1>4 DEF IfSound
<1>8. u \in ReadIf(t, key, arg)
  BY <1>1, <1>3 DEF Read
<1>9. IfShape(u) /\ (Given(u, "ELSE") => u["ELSE"].kind # "none")
  <2>1. CASE key \in {"THEN", "BRACES"}
    <3>1. PICK st : u = With(With(t, "style", st), "bodies", <<arg>>)
      BY <1>8, <2>1 DEF ReadIf, Unless, Refused
    <3>2. t = NoTree /\ ~Given(t, "ELSE")
      BY <1>6, <1>7, <2>1, IfFacts DEF Given
    <3>3. u["bodies"] = <<arg>> /\ Given(u, "bodies") /\ ~Given(u, "ELSE")
      BY <3>1, <3>2 DEF With, Given
    <3>4. PICK x : x = <<arg>>
      OBVIOUS
    <3>5. x \in Seq({x[i] : i \in DOMAIN x}) /\ Len(x) # 0
      <4>1. PICK X : X = {x[i] : i \in DOMAIN x}
        OBVIOUS
      <4>2. arg \in X
        BY <3>4, <4>1
      <4> QED
        BY <3>4, <4>1, <4>2
    <3> QED
      BY <3>3, <3>4, <3>5 DEF IfShape
  <2>2. CASE key = "ELSE_IF"
    <3>1. u = With(t, "bodies", Append(t["bodies"], arg))
      BY <1>8, <2>2 DEF ReadIf, Unless, Refused, Bodies
    <3>2. PICK w, V : w = t["bodies"] /\ V = {w[i] : i \in DOMAIN w} /\ w \in Seq(V)
      BY <1>6, <1>7, <2>2 DEF IfShape
    <3>3. PICK x : x = Append(w, arg)
      OBVIOUS
    <3>4. PICK W : W = V \cup {arg}
      OBVIOUS
    <3>5. w \in Seq(W) /\ arg \in W
      BY <3>2, <3>4
    <3>6. x \in Seq(W) /\ Len(x) # 0
      BY <3>3, <3>5
    <3>7. x \in Seq({x[i] : i \in DOMAIN x})
      <4>1. PICK n \in Nat : x \in [1..n -> W] /\ n = Len(x)
        BY <3>6
      <4>2. PICK X : X = {x[i] : i \in DOMAIN x}
        OBVIOUS
      <4>3. x \in [1..n -> X]
        BY <4>1, <4>2
      <4> QED
        BY <4>2, <4>3
    <3>8. /\ u["bodies"] = x /\ Given(u, "bodies") /\ (Given(u, "ELSE") <=> Given(t, "ELSE"))
          /\ Given(t, "ELSE") => u["ELSE"] = t["ELSE"]
      BY <3>1, <3>2, <3>3 DEF With, Given
    <3> QED
      BY <1>7, <3>6, <3>7, <3>8 DEF IfShape
  <2>3. CASE key \in {"ELSE", "END"}
    <3>1. PICK a : u = With(t, key, a) /\ (key = "ELSE" => a = arg)
      BY <1>8, <2>3 DEF ReadIf, Unless, Refused
    <3>2. u["bodies"] = t["bodies"] /\ Given(u, "bodies")
      BY <1>6, <1>7, <2>3, <3>1 DEF With, Given, IfShape
    <3>3. Given(u, "ELSE") => (key = "ELSE" /\ u["ELSE"] = arg) \/ (Given(t, "ELSE") /\ u["ELSE"] = t["ELSE"])
      <4>1. CASE key = "ELSE"
        BY <3>1, <4>1 DEF With
      <4>2. CASE key = "END"
        BY <3>1, <4>2 DEF With, Given
      <4> QED
        BY <2>3, <4>1, <4>2
    <3> QED
      BY <1>6, <1>7, <2>3, <3>2, <3>3 DEF IfShape
  <2> QED
    BY <1>6, <2>1, <2>2, <2>3
<1> QED
  BY <1>1, <1>4, <1>9 DEF IfSound

\* The stages of an IF that take its clauses.
LEMMA IfTakes ==
  ASSUME NEW p, p.stage \in 0..4
  PROVE  /\ p.stage = 0 => Takes(IfSyntax, p, "THEN") = {1} /\ Takes(IfSyntax, p, "BRACES") = {1}
         /\ p.stage \in {1, 2} => Takes(IfSyntax, p, "ELSE_IF") = {2} /\ Takes(IfSyntax, p, "ELSE") = {3}
         /\ p.stage \in {1, 2, 3} => Takes(IfSyntax, p, "END") = {4}
         /\ Ends(IfSyntax, p) <=> p.stage # 0
<1>1. PICK z : z = p.stage /\ z \in 0..4
  OBVIOUS
<1>2. \A i : i \in 1..4 <=> i = 1 \/ i = 2 \/ i = 3 \/ i = 4
  OBVIOUS
<1>3. ASSUME NEW key, NEW a \in 1..4, NEW b \in 0..4, z = b,
             \A i \in 1..4 : key \in IfSyntax[i].keys <=> i = a,
             b < a \/ (b = 2 /\ a = 2), b = 0 => a = 1
      PROVE  Takes(IfSyntax, p, key) = {a}
  <2>1. a \in Reachable(IfSyntax, p)
    <3>1. \A j \in b + 1..a - 1 : ~IfSyntax[j].must
      BY <1>2, <1>3, IfFacts
    <3>2. a > b \/ (a = b /\ IfSyntax[a].loops)
      BY <1>3, IfFacts
    <3> QED
      BY <1>1, <1>3, <3>1, <3>2, IfFacts DEF Reachable
  <2>2. Reachable(IfSyntax, p) \subseteq 1..4
    BY IfFacts DEF Reachable
  <2> QED
    BY <1>3, <2>1, <2>2 DEF Takes
<1>4. /\ \A i \in 1..4 : "THEN" \in IfSyntax[i].keys <=> i = 1
      /\ \A i \in 1..4 : "BRACES" \in IfSyntax[i].keys <=> i = 1
      /\ \A i \in 1..4 : "ELSE_IF" \in IfSyntax[i].keys <=> i = 2
      /\ \A i \in 1..4 : "ELSE" \in IfSyntax[i].keys <=> i = 3
      /\ \A i \in 1..4 : "END" \in IfSyntax[i].keys <=> i = 4
  BY <1>2, IfFacts
<1>5. z = 0 => Takes(IfSyntax, p, "THEN") = {1} /\ Takes(IfSyntax, p, "BRACES") = {1}
  BY <1>1, <1>3, <1>4
<1>6. z \in {1, 2} => Takes(IfSyntax, p, "ELSE_IF") = {2} /\ Takes(IfSyntax, p, "ELSE") = {3}
  BY <1>1, <1>3, <1>4
<1>7. z \in {1, 2, 3} => Takes(IfSyntax, p, "END") = {4}
  BY <1>1, <1>3, <1>4
<1>8. Ends(IfSyntax, p) <=> z # 0
  BY <1>1, <1>2, IfFacts DEF Ends
<1> QED
  BY <1>1, <1>5, <1>6, <1>7, <1>8

\* The tree when the bodies are f.
IfPart(st, f) == [k \in {"style", "bodies"} |-> IF k = "style" THEN st ELSE f]

LEMMA IfPartFacts ==
  ASSUME NEW st, NEW f
  PROVE  /\ IfPart(st, f)["style"] = st /\ IfPart(st, f)["bodies"] = f
         /\ DOMAIN IfPart(st, f) = {"style", "bodies"}
         /\ With(With(NoTree, "style", st), "bodies", f) = IfPart(st, f)
         /\ \A g : With(IfPart(st, f), "bodies", g) = IfPart(st, g)
<1>1. With(With(NoTree, "style", st), "bodies", f) = IfPart(st, f)
  <2>1. PICK u : u = With(NoTree, "style", st)
    OBVIOUS
  <2>2. DOMAIN u = {"style"} /\ u["style"] = st
    BY <2>1, IfFacts DEF With
  <2> QED
    BY <2>1, <2>2 DEF With, IfPart
<1>2. \A g : With(IfPart(st, f), "bodies", g) = IfPart(st, g)
  BY DEF With, IfPart
<1> QED
  BY <1>1, <1>2 DEF IfPart

\* A body that is written: it swallows no ELSE, and is a block where blocks
\* are written.
Fit(st, b) == (b.kind = "bracketed" => b.closed) /\ (st = "bracketed" => b.kind = "block")

\* The bodies are read one after the other.
LEMMA BodiesReread ==
  ASSUME NEW st, NEW first, NEW V, NEW w \in Seq(V), Len(w) # 0, \A i \in DOMAIN w : Fit(st, w[i]),
         (st = "bracketed" /\ first = "BRACES") \/ (st = "worded" /\ first = "THEN")
  PROVE  \E z \in {1, 2} :
           LeadsTo("if", {At(0, NoTree)}, [i \in DOMAIN w |-> <<IF i > 1 THEN "ELSE_IF" ELSE first, w[i]>>],
                   {At(z, IfPart(st, w))})
<1>1. PICK n \in Nat : n = Len(w) /\ DOMAIN w = 1..n /\ w \in [1..n -> V] /\ n # 0
  OBVIOUS
<1>2. PICK s, y : s = "if" /\ y = [i \in 1..n |-> <<IF i > 1 THEN "ELSE_IF" ELSE first, w[i]>>]
  OBVIOUS
<1>3. Len(y) = n
  BY <1>2
<1> DEFINE f == [i \in 0..n |-> [j \in 1..i |-> w[j]]]
           z == [i \in 0..n |-> IF i = 0 THEN 0 ELSE IF i = 1 THEN 1 ELSE 2]
           h == [i \in 0..n |-> {At(z[i], IF i = 0 THEN NoTree ELSE IfPart(st, f[i]))}]
<1>4. f[n] = w
  <2>1. f[n] = [j \in 1..n |-> w[j]]
    OBVIOUS
  <2> HIDE DEF f
  <2> QED
    BY <1>1, <2>1
<1>5. \A i \in 0..n : f[i] = [j \in 1..i |-> w[j]]
  OBVIOUS
<1>6. ASSUME NEW i \in 1..n PROVE f[i] = Append(f[i - 1], w[i])
  <2>1. i \in 0..n /\ i - 1 \in 0..n /\ i \in Nat /\ i - 1 \in Nat
    OBVIOUS
  <2>2. PICK x : x = f[i - 1] /\ x = [j \in 1..(i - 1) |-> w[j]]
    BY <2>1
  <2>3. f[i] = [j \in 1..i |-> w[j]]
    BY <2>1
  <2> HIDE DEF f
  <2>4. x \in Seq(V) /\ Len(x) = i - 1
    BY <1>1, <2>1, <2>2
  <2>5. w[i] \in V
    BY <1>1
  <2>6. Append(x, w[i]) = [j \in 1..i |-> w[j]]
    BY <1>1, <2>1, <2>2, <2>4, <2>5
  <2> QED
    BY <2>2, <2>3, <2>6
<1>7. z[0] = 0 /\ \A i \in 1..n : z[i] = (IF i = 1 THEN 1 ELSE 2)
  OBVIOUS
<1>8. /\ h[0] = {At(0, NoTree)} /\ h[n] = {At(z[n], IfPart(st, w))}
      /\ \A i \in 1..n : h[i] = {At(z[i], IfPart(st, f[i]))}
  <2>1. h[0] = {At(z[0], NoTree)} /\ \A i \in 1..n : h[i] = {At(z[i], IfPart(st, f[i]))}
    <3> HIDE DEF f, z
    <3>1. 0 \in 0..n /\ \A i \in 1..n : i \in 0..n /\ i # 0
      OBVIOUS
    <3> QED
      BY <3>1
  <2>2. n \in 1..n
    BY <1>1
  <2> HIDE DEF f, z, h
  <2> QED
    BY <1>4, <1>7, <2>1, <2>2
<1>9. \A i \in 1..n : y[i] = <<IF i > 1 THEN "ELSE_IF" ELSE first, w[i]>>
  BY <1>2
<1>10. f[1] = <<w[1]>>
  <2>1. f[1] = [j \in 1..1 |-> w[j]]
    BY <1>1
  <2>2. [j \in 1..1 |-> w[j]] = <<w[1]>>
    OBVIOUS
  <2> HIDE DEF f
  <2> QED
    BY <2>1, <2>2
<1> HIDE DEF f, z, h
<1>11. h[1] = ReadOn(s, h[0], y[1])
  <2>0. PICK a : a = w[1] /\ Fit(st, a)
    BY <1>1
  <2>1. PICK x : x = <<a>> /\ f[1] = x /\ a = w[1] /\ Fit(st, a)
    BY <1>10, <2>0
  <2>2. PICK b, u, p : /\ b = NoTree /\ u = IfPart(st, x)
                       /\ p = At(0, b) /\ p.stage = 0 /\ p.tree = b
    BY AtParts
  <2>3. Read(s, b, first, a) = {u}
    <3>1. Read(s, b, first, a) = ReadIf(b, first, a)
      BY <1>2 DEF Read
    <3>2. u = With(With(b, "style", st), "bodies", <<a>>)
      BY <2>1, <2>2, IfPartFacts
    <3>3. CASE st = "bracketed"
      BY <2>1, <3>1, <3>2, <3>3 DEF ReadIf, Unless, Fit
    <3>4. CASE st = "worded"
      BY <2>1, <3>1, <3>2, <3>4 DEF ReadIf
    <3> QED
      BY <3>3, <3>4
  <2>4. Takes(Syntax[s], p, first) = {1}
    BY <1>2, <2>2, IfTakes, IfFacts
  <2>5. Step(s, p, first, a) = {At(1, u)}
    <3>1. Min({1}) = 1
      BY MinOfOne
    <3> QED
      BY <2>2, <2>3, <2>4, <3>1 DEF Step, Reads
  <2>6. ReadOn(s, {p}, <<first, a>>) = {At(1, u)}
    BY <2>5 DEF ReadOn
  <2>7. y[1] = <<first, a>> /\ h[1] = {At(1, u)} /\ h[0] = {p}
    BY <1>1, <1>7, <1>8, <1>9, <2>1, <2>2
  <2> QED
    BY <2>6, <2>7
<1>12. ASSUME NEW i \in 1..n, i # 1 PROVE h[i] = ReadOn(s, h[i - 1], y[i])
  <2>1. PICK g, a, x : g = f[i - 1] /\ a = w[i] /\ x = Append(g, a) /\ f[i] = x
    BY <1>1, <1>6
  <2>2. i - 1 \in 1..n /\ i > 1
    BY <1>12
  <2>3. PICK zo \in {1, 2} : zo = z[i - 1]
    BY <1>7, <2>2
  <2>4. PICK b, u, p : /\ b = IfPart(st, g) /\ u = IfPart(st, x)
                       /\ p = At(zo, b) /\ p.stage = zo /\ p.tree = b
    BY AtParts
  <2>5. Read(s, b, "ELSE_IF", a) = {u}
    <3>1. Read(s, b, "ELSE_IF", a) = ReadIf(b, "ELSE_IF", a)
      BY <1>2 DEF Read
    <3>2. b["style"] = st /\ b["bodies"] = g /\ With(b, "bodies", x) = u
      BY <2>4, IfPartFacts
    <3>3. ~Swallows(b)
      <4>1. PICK m \in Nat : m = i - 1 /\ m \in 1..n
        BY <2>2
      <4>2. g \in Seq(V) /\ Len(g) = m /\ g[m] = w[m]
        <5>1. g = [j \in 1..m |-> w[j]]
          BY <1>5, <2>1, <4>1
        <5> QED
          BY <1>1, <4>1, <5>1
      <4>3. Last(g) = w[m] /\ Fit(st, w[m])
        BY <1>1, <4>1, <4>2 DEF Last
      <4> QED
        BY <3>2, <4>3 DEF Swallows, Bodies, Fit
    <3>4. Fit(st, a)
      BY <1>1, <2>1
    <3>5. ~(Swallows(b) \/ (b["style"] = "bracketed" /\ a.kind # "block"))
      BY <3>2, <3>3, <3>4 DEF Fit
    <3>6. ReadIf(b, "ELSE_IF", a) = {With(b, "bodies", Append(Bodies(b), a))}
      BY <3>5 DEF ReadIf, Unless
    <3> QED
      BY <2>1, <3>1, <3>2, <3>6 DEF Bodies
  <2>6. Takes(Syntax[s], p, "ELSE_IF") = {2}
    BY <1>2, <2>4, IfTakes, IfFacts
  <2>7. Step(s, p, "ELSE_IF", a) = {At(2, u)}
    <3>1. Min({2}) = 2
      BY MinOfOne
    <3> QED
      BY <2>4, <2>5, <2>6, <3>1 DEF Step, Reads
  <2>8. ReadOn(s, {p}, <<"ELSE_IF", a>>) = {At(2, u)}
    BY <2>7 DEF ReadOn
  <2>9. y[i] = <<"ELSE_IF", a>>
    BY <1>9, <2>1, <2>2
  <2>10. h[i] = {At(2, u)} /\ h[i - 1] = {p}
    BY <1>7, <1>8, <1>12, <2>1, <2>2, <2>3, <2>4
  <2> QED
    BY <2>8, <2>9, <2>10
<1>13. LeadsTo(s, {At(0, NoTree)}, y, {At(z[n], IfPart(st, w))})
  <2>1. \A i \in 1..n : h[i] = ReadOn(s, h[i - 1], y[i])
    <3>1. 1 - 1 = 0
      OBVIOUS
    <3> QED
      BY <1>11, <1>12, <3>1
  <2> QED
    BY <1>3, <1>8, <2>1 DEF LeadsTo
<1>14. z[n] \in {1, 2}
  BY <1>1, <1>7
<1> QED
  BY <1>1, <1>2, <1>13, <1>14

LEMMA IfReturns ==
  ASSUME NEW p, IfSound(p), MayEnd("if", p)
  PROVE  Returns("if", p)
<1>1. PICK s, t : s = "if" /\ t = p.tree
  OBVIOUS
<1>2. IfShape(t) /\ (Given(t, "ELSE") => t["ELSE"].kind # "none")
  <2>1. ~(p.stage = 0)
    BY IfTakes, IfFacts DEF MayEnd, IfSound
  <2> QED
    BY <1>1, <2>1 DEF IfSound
<1>3. PICK w, c : w = t["bodies"] /\ c = (IF Given(t, "ELSE") THEN t["ELSE"].kind ELSE "none")
  OBVIOUS
<1>4. PICK n \in Nat : n = Len(w) /\ DOMAIN w = 1..n /\ n # 0
  BY <1>2, <1>3 DEF IfShape
<1>5. PICK k : k = [i \in 1..n |-> w[i].kind]
  OBVIOUS
<1>6. PICK tree : tree = IfTree(t) /\ tree.bodies = k /\ tree.close = c
  <2>1. IfTree(t).bodies = k /\ IfTree(t).close = c
    BY <1>3, <1>4, <1>5 DEF IfTree, Bodies
  <2> QED
    BY <2>1
<1>7. PICK blocks, st, first : /\ blocks = Bracketed(tree)
                               /\ st = (IF blocks THEN "bracketed" ELSE "worded")
                               /\ first = (IF blocks THEN "BRACES" ELSE "THEN")
  OBVIOUS
<1>8. blocks => c \in {"none", "block"} /\ \A i \in 1..n : k[i] = "block"
  BY <1>5, <1>6, <1>7 DEF Bracketed
<1>9. PICK bs : bs = [i \in 1..n |-> Body(k[i], k[i] = "bracketed")]
  OBVIOUS
<1>10. \A x, y : Body(x, y).kind = x /\ Body(x, y).closed = y
  BY DEF Body
<1>11. \A i \in 1..n : bs[i].kind = k[i] /\ Fit(st, bs[i])
  <2>1. \A i \in 1..n : bs[i].kind = k[i] /\ bs[i].closed = (k[i] = "bracketed")
    BY <1>9, <1>10
  <2> QED
    BY <1>7, <1>8, <2>1 DEF Fit
<1>12. PICK V : V = {bs[i] : i \in 1..n}
  OBVIOUS
<1>13. bs \in Seq(V) /\ Len(bs) = n /\ DOMAIN bs = 1..n /\ Last(bs) = bs[n]
  <2>1. bs \in [1..n -> V]
    BY <1>9, <1>12
  <2> QED
    BY <1>9, <2>1 DEF Last
<1>14. PICK cb, e, d : /\ cb = Body(c, c \in {"bracketed", "worded"})
                       /\ e = (IF c = "none" THEN <<>> ELSE << <<"ELSE", cb>> >>)
                       /\ d = (IF blocks THEN <<>> ELSE << <<"END", Body("value", FALSE)>> >>)
  OBVIOUS
<1>15. PICK x : x = [i \in 1..n |-> <<IF i > 1 THEN "ELSE_IF" ELSE first, bs[i]>>]
  OBVIOUS
<1>16. PICK t1, t2, t3 : /\ t1 = IfPart(st, bs)
                         /\ t2 = (IF c = "none" THEN t1 ELSE With(t1, "ELSE", cb))
                         /\ t3 = (IF blocks THEN t2 ELSE With(t2, "END", "yes"))
  OBVIOUS
<1>17. /\ t1["style"] = st /\ t1["bodies"] = bs /\ DOMAIN t1 = {"style", "bodies"}
       /\ t2["style"] = st /\ t2["bodies"] = bs
       /\ (Given(t2, "ELSE") <=> c # "none") /\ (c # "none" => t2["ELSE"] = cb)
  <2>1. t1["style"] = st /\ t1["bodies"] = bs /\ DOMAIN t1 = {"style", "bodies"}
    BY <1>16, IfPartFacts
  <2> QED
    BY <1>16, <2>1 DEF With, Given
<1>18. /\ t3["style"] = st /\ t3["bodies"] = bs
       /\ (Given(t3, "ELSE") <=> c # "none") /\ (c # "none" => t3["ELSE"] = cb)
       /\ blocks \/ Given(t3, "END")
  BY <1>16, <1>17 DEF With, Given
<1>19. PICK z1 \in {1, 2} : LeadsTo(s, {At(0, NoTree)}, x, {At(z1, t1)})
  <2>1. (st = "bracketed" /\ first = "BRACES") \/ (st = "worded" /\ first = "THEN")
    <3>1. CASE blocks
      BY <1>7, <3>1
    <3>2. CASE ~blocks
      BY <1>7, <3>2
    <3> QED
      BY <3>1, <3>2
  <2>2. \E z \in {1, 2} :
           LeadsTo("if", {At(0, NoTree)}, [i \in DOMAIN bs |-> <<IF i > 1 THEN "ELSE_IF" ELSE first, bs[i]>>],
                   {At(z, IfPart(st, bs))})
    BY <1>4, <1>11, <1>13, <2>1, BodiesReread
  <2> QED
    BY <1>1, <1>13, <1>15, <1>16, <2>2
<1>20. PICK z2 \in {1, 2, 3} : LeadsTo(s, {At(z1, t1)}, e, {At(z2, t2)})
  <2>1. CASE c = "none"
    <3>1. e = <<>> /\ t2 = t1 /\ z1 \in {1, 2, 3}
      BY <1>14, <1>16, <2>1
    <3> QED
      BY <3>1, LeadsNowhere
  <2>2. CASE c # "none"
    <3>1. PICK q : q = At(z1, t1) /\ q.stage = z1 /\ q.tree = t1
      BY AtParts
    <3>2. Takes(Syntax[s], q, "ELSE") = {3}
      BY <1>1, <3>1, IfTakes, IfFacts
    <3>3. ~(Swallows(t1) \/ (t1["style"] = "bracketed" /\ cb.kind # "block"))
      <4>1. Fit(st, bs[n])
        BY <1>4, <1>11
      <4>2. ~Swallows(t1)
        BY <1>13, <1>17, <4>1 DEF Swallows, Bodies, Fit
      <4>3. cb.kind = c
        BY <1>10, <1>14
      <4> QED
        BY <1>7, <1>8, <1>17, <2>2, <4>2, <4>3
    <3>4. Read(s, t1, "ELSE", cb) = {t2}
      BY <1>1, <1>16, <2>2, <3>3 DEF Read, ReadIf, Unless
    <3>5. PICK b \in Nat : b = 3
      OBVIOUS
    <3>6. LeadsTo(s, {q}, << <<"ELSE", cb>> >>, {At(b, t2)})
      BY <3>1, <3>2, <3>4, <3>5, OneClause
    <3> QED
      BY <1>14, <2>2, <3>1, <3>5, <3>6
  <2> QED
    BY <2>1, <2>2
<1>21. PICK z3 \in {1, 2, 3, 4} : LeadsTo(s, {At(z2, t2)}, d, {At(z3, t3)})
  <2>1. CASE blocks
    <3>1. d = <<>> /\ t3 = t2 /\ z2 \in {1, 2, 3, 4}
      BY <1>14, <1>16, <2>1
    <3> QED
      BY <3>1, LeadsNowhere
  <2>2. CASE ~blocks
    <3>1. PICK q : q = At(z2, t2) /\ q.stage = z2 /\ q.tree = t2
      BY AtParts
    <3>2. Takes(Syntax[s], q, "END") = {4}
      BY <1>1, <3>1, IfTakes, IfFacts
    <3>3. PICK y : y = Body("value", FALSE)
      OBVIOUS
    <3>4. Read(s, t2, "END", y) = {t3}
      <4>1. t2["style"] # "bracketed"
        BY <1>7, <1>17, <2>2
      <4> QED
        BY <1>1, <1>16, <2>2, <4>1 DEF Read, ReadIf, Unless
    <3>5. PICK b \in Nat : b = 4
      OBVIOUS
    <3>6. LeadsTo(s, {q}, << <<"END", y>> >>, {At(b, t3)})
      BY <3>1, <3>2, <3>4, <3>5, OneClause
    <3> QED
      BY <1>14, <2>2, <3>1, <3>3, <3>5, <3>6
  <2> QED
    BY <2>1, <2>2
<1>22. PICK U : x \in Seq(U) /\ e \in Seq(U) /\ d \in Seq(U)
  <2>1. PICK c1, c2 : c1 = <<"ELSE", cb>> /\ c2 = <<"END", Body("value", FALSE)>>
    OBVIOUS
  <2>2. PICK X : X = {x[i] : i \in 1..n} \cup {c1, c2}
    OBVIOUS
  <2>3. x \in [1..n -> X]
    <3>1. x = [i \in 1..n |-> x[i]]
      BY <1>15
    <3>2. \A i \in 1..n : x[i] \in X
      BY <2>2
    <3> QED
      BY <3>1, <3>2
  <2>4. c1 \in X /\ c2 \in X
    BY <2>2
  <2>5. <<>> \in Seq(X) /\ <<c1>> \in Seq(X) /\ <<c2>> \in Seq(X)
    BY <2>4
  <2>6. e \in {<<>>, <<c1>>} /\ d \in {<<>>, <<c2>>}
    BY <1>14, <2>1
  <2>7. x \in Seq(X) /\ e \in Seq(X) /\ d \in Seq(X)
    <3>1. x \in Seq(X)
      BY <1>4, <2>3
    <3>2. e \in Seq(X)
      BY <2>5, <2>6
    <3>3. d \in Seq(X)
      BY <2>5, <2>6
    <3> QED
      BY <3>1, <3>2, <3>3
  <2> QED
    BY <2>7
<1>23. PICK text : text = x \o e \o d
  OBVIOUS
<1>24. text \in Seq(U) /\ LeadsTo(s, {At(0, NoTree)}, text, {At(z3, t3)})
  <2>1. PICK a, b, g \in Seq(U) : a = x /\ b = e /\ g = d
    BY <1>22
  <2>8. a \o b \in Seq(U)
    OBVIOUS
  <2>2. PICK y \in Seq(U) : y = a \o b
    BY <2>8
  <2>3. PICK P, Q, R, S : P = {At(0, NoTree)} /\ Q = {At(z1, t1)} /\ R = {At(z2, t2)} /\ S = {At(z3, t3)}
    OBVIOUS
  <2>4. LeadsTo(s, P, a, Q) /\ LeadsTo(s, Q, b, R) /\ LeadsTo(s, R, g, S)
    BY <1>19, <1>20, <1>21, <2>1, <2>3
  <2>5. LeadsTo(s, P, a \o b, R)
    BY <2>4, LeadsThrough
  <2>6. LeadsTo(s, P, y \o g, S)
    BY <2>2, <2>4, <2>5, LeadsThrough
  <2>7. y \o g \in Seq(U)
    OBVIOUS
  <2> QED
    BY <1>23, <2>1, <2>2, <2>3, <2>6, <2>7
<1>25. Written(s, t) = text
  <2>1. Written(s, t) = WriteIf(tree)
    BY <1>1, <1>6 DEF Written
  <2>2. x = [i \in DOMAIN tree.bodies |->
               <<IF i > 1 THEN "ELSE_IF" ELSE IF blocks THEN "BRACES" ELSE "THEN",
                 Body(tree.bodies[i], tree.bodies[i] = "bracketed")>>]
    <3>1. DOMAIN k = 1..n
      BY <1>5
    <3> QED
      BY <1>6, <1>7, <1>9, <1>15, <3>1
  <2>3. WriteIf(tree) = x \o e \o d
    BY <1>6, <1>7, <1>14, <2>2 DEF WriteIf
  <2> QED
    BY <1>23, <2>1, <2>3
<1>26. ReadAll(s, text) = {At(z3, t3)}
  <2>1. IsText(text)
    BY <1>24 DEF IsText
  <2>2. LeadsTo(s, {Begin(Default(s))}, text, {At(z3, t3)})
    BY <1>1, <1>24, IfFacts DEF Begin
  <2> QED
    BY <2>1, <2>2, ReadAllLeads
<1>27. PICK q : q = At(z3, t3) /\ q.stage = z3 /\ q.tree = t3
  BY AtParts
<1>28. MayEnd(s, q)
  <2>1. Complete(s, t3)
    BY <1>1, <1>7, <1>18 DEF Complete, IfEnds
  <2>2. Ends(Syntax[s], q)
    BY <1>1, <1>27, IfTakes, IfFacts
  <2> QED
    BY <1>27, <2>1, <2>2 DEF MayEnd
<1>29. TreesOf(s, text) = {AstOf(s, t3)}
  <2>1. {r \in ReadAll(s, text) : MayEnd(s, r)} = {q}
    BY <1>26, <1>27, <1>28
  <2>2. TreesOf(s, text) = {AstOf(s, r.tree) : r \in {q}}
    BY <2>1 DEF TreesOf
  <2> QED
    BY <1>27, <2>2
<1>30. AstOf(s, t3) = AstOf(s, t)
  <2>1. [i \in DOMAIN bs |-> bs[i].kind] = k
    BY <1>5, <1>11, <1>13
  <2>2. (IF Given(t3, "ELSE") THEN t3["ELSE"].kind ELSE "none") = c
    <3>1. cb.kind = c
      BY <1>10, <1>14
    <3> QED
      BY <1>18, <3>1
  <2>3. IfTree(t3) = [bodies |-> k, close |-> c]
    BY <1>18, <2>1, <2>2 DEF IfTree, Bodies
  <2>4. IfTree(t) = [bodies |-> k, close |-> c]
    BY <1>3, <1>4, <1>5 DEF IfTree, Bodies
  <2> QED
    BY <1>1, <2>3, <2>4 DEF AstOf
<1>31. ~Unreadable(s, t) /\ Kept(s, t) = t
  BY <1>1 DEF Unreadable, Kept, RemoveSyntax
<1> QED
  BY <1>1, <1>25, <1>29, <1>30, <1>31 DEF Returns

-----------------------------------------------------------------------------
(* All kinds of statements.                                                 *)
OtherKinds ==
  {"relate", "info", "select", "defineTable", "defineField", "defineEvent", "defineUser", "configGraphQl",
   "configDefault", "use", "access", "defineAccess", "defineIndex", "defineApi", "if"}

LEMMA EveryKind ==
  DOMAIN Syntax = PlainKinds \cup BareKinds \cup RecordKinds \cup AlterKinds \cup OtherKinds
BY DEF Syntax, Removals, Over, RemoveSyntax, RemoveOnTableSyntax, RemoveOtherSyntax,
       PlainKinds, BareKinds, RecordKinds, AlterKinds, OtherKinds

\* The parser of a statement of the kind s, at each of its stages.
StatementSound(s, p) ==
  /\ s \in PlainKinds => PlainSound(s, LostOf(s), p)
  /\ s \in BareKinds => BareSound(s, p)
  /\ s \in RecordKinds => RecordSound(s, p)
  /\ s \in AlterKinds => AlterSound(s, p)
  /\ s = "relate" => RelateSound(p)
  /\ s = "info" => InfoSound(p)
  /\ s = "select" => SelectSound(p)
  /\ s = "defineTable" => TableSound(p)
  /\ s = "defineField" => FieldSound(p)
  /\ s = "defineEvent" => EventSound(p)
  /\ s = "defineUser" => UserSound(p)
  /\ s = "configGraphQl" => GraphQlSound(p)
  /\ s = "configDefault" => ConfigDefaultSound(p)
  /\ s = "use" => UseSound(p)
  /\ s = "access" => AccessSound(p)
  /\ s = "defineAccess" => DefineAccessSound(p)
  /\ s = "defineIndex" => IndexSound(p)
  /\ s = "defineApi" => ApiSound(p)
  /\ s = "if" => IfSound(p)

LEMMA EachBegins ==
  ASSUME NEW s
  PROVE  StatementSound(s, Begin(Default(s)))
<1>1. s \in PlainKinds => PlainSound(s, LostOf(s), Begin(Default(s)))
  BY PlainKindsArePlain, PlainBegins
<1>2. s \in BareKinds => BareSound(s, Begin(Default(s)))
  BY BareBegins
<1>3. s \in RecordKinds => RecordSound(s, Begin(Default(s)))
  BY RecordBegins
<1>4. s \in AlterKinds => AlterSound(s, Begin(Default(s)))
  BY AlterBegins
<1> QED
  BY <1>1, <1>2, <1>3, <1>4, RelateBegins, InfoBegins, SelectBegins, TableBegins, FieldBegins,
     EventBegins, UserBegins, GraphQlBegins, ConfigDefaultBegins, UseBegins, AccessBegins,
     DefineAccessBegins, IndexBegins, ApiBegins, IfBegins DEF StatementSound

LEMMA EachStep ==
  ASSUME NEW s, NEW p, StatementSound(s, p), NEW key, NEW arg, IsArgument(s, key, arg),
         NEW q \in Step(s, p, key, arg)
  PROVE  StatementSound(s, q)
<1>1. s \in PlainKinds => PlainSound(s, LostOf(s), q)
  BY PlainKindsArePlain, PlainStep DEF StatementSound
<1>2. s \in BareKinds => BareSound(s, q)
  BY BareStep DEF StatementSound
<1>3. s \in RecordKinds => RecordSound(s, q)
  BY RecordStep DEF StatementSound
<1>4. s \in AlterKinds => AlterSound(s, q)
  BY AlterStep DEF StatementSound
<1>5. s = "relate" => RelateSound(q)
  BY RelateStep DEF StatementSound
<1>6. s = "info" => InfoSound(q)
  BY InfoStep DEF StatementSound
<1>7. s = "select" => SelectSound(q)
  BY SelectStep DEF StatementSound
<1>8. s = "defineTable" => TableSound(q)
  BY TableStep DEF StatementSound
<1>9. s = "defineField" => FieldSound(q)
  BY FieldStep DEF StatementSound, IsArgument
<1>10. s = "defineEvent" => EventSound(q)
  BY EventStep DEF StatementSound
<1>11. s = "defineUser" => UserSound(q)
  BY UserStep DEF StatementSound
<1>12. s = "configGraphQl" => GraphQlSound(q)
  BY GraphQlStep DEF StatementSound
<1>13. s = "configDefault" => ConfigDefaultSound(q)
  BY ConfigDefaultStep DEF StatementSound
<1>14. s = "use" => UseSound(q)
  BY UseStep DEF StatementSound
<1>15. s = "access" => AccessSound(q)
  BY AccessStep DEF StatementSound
<1>16. s = "defineAccess" => DefineAccessSound(q)
  BY DefineAccessStep DEF StatementSound, IsArgument
<1>17. s = "defineIndex" => IndexSound(q)
  BY IndexStep DEF StatementSound, IsArgument
<1>18. s = "defineApi" => ApiSound(q)
  BY ApiStep DEF StatementSound, IsArgument
<1>19. s = "if" => IfSound(q)
  <2>1. s = "if" => arg.kind # "none"
    BY DEF IsArgument, BodyKinds
  <2> QED
    BY <2>1, IfStep DEF StatementSound
<1> QED
  BY <1>1, <1>2, <1>3, <1>4, <1>5, <1>6, <1>7, <1>8, <1>9, <1>10, <1>11, <1>12, <1>13, <1>14, <1>15,
     <1>16, <1>17, <1>18, <1>19 DEF StatementSound

LEMMA EachReturns ==
  ASSUME NEW s \in DOMAIN Syntax, NEW p, StatementSound(s, p), MayEnd(s, p)
  PROVE  Returns(s, p)
<1>1. CASE s \in PlainKinds
  BY <1>1, PlainKindsArePlain, PlainReturns DEF StatementSound
<1>2. CASE s \in BareKinds
  BY <1>2, BareReturns DEF StatementSound
<1>3. CASE s \in RecordKinds
  BY <1>3, RecordReturns DEF StatementSound
<1>4. CASE s \in AlterKinds
  BY <1>4, AlterReturns DEF StatementSound
<1>5. CASE s \in OtherKinds
  <2>1. CASE s \in {"relate", "info", "select", "defineTable", "defineField"}
    BY <2>1, RelateReturns, InfoReturns, SelectReturns, TableReturns, FieldReturns DEF StatementSound
  <2>2. CASE s \in {"defineEvent", "defineUser", "configGraphQl", "configDefault", "use"}
    BY <2>2, EventReturns, UserReturns, GraphQlReturns, ConfigDefaultReturns, UseReturns DEF StatementSound
  <2>3. CASE s \in {"access", "defineAccess", "defineIndex", "defineApi", "if"}
    BY <2>3, AccessReturns, DefineAccessReturns, IndexReturns, ApiReturns, IfReturns DEF StatementSound
  <2> QED
    BY <1>5, <2>1, <2>2, <2>3 DEF OtherKinds
<1> QED
  BY <1>1, <1>2, <1>3, <1>4, <1>5, EveryKind

\* The parser is in a stage of its statement.
LEMMA SoundStage ==
  ASSUME NEW syn, NEW txt, NEW rk, NEW D, NEW Lost, NEW p, Sound(syn, txt, rk, D, Lost, p)
  PROVE  p.stage \in 0..Len(syn)
BY DEF Sound, Held

LEMMA EachStage ==
  ASSUME NEW s \in DOMAIN Syntax, NEW p, StatementSound(s, p)
  PROVE  p.stage \in 0..Len(Syntax[s])
<1>1. CASE s \in PlainKinds
  BY <1>1, SoundStage DEF StatementSound, PlainSound
<1>2. CASE s \in BareKinds
  BY <1>2, SoundStage DEF StatementSound, BareSound
<1>3. CASE s \in RecordKinds
  BY <1>3, SoundStage DEF StatementSound, RecordSound
<1>4. CASE s \in AlterKinds
  BY <1>4, SoundStage DEF StatementSound, AlterSound
<1>5. CASE s \in OtherKinds
  <2>1. CASE s \in {"relate", "info", "select", "defineTable", "defineField"}
    <3>1. s = "relate" => p.stage \in 0..Len(Syntax[s])
      BY SoundStage DEF StatementSound, RelateSound
    <3>2. s = "info" => p.stage \in 0..Len(Syntax[s])
      BY SoundStage DEF StatementSound, InfoSound
    <3>3. s = "select" => p.stage \in 0..Len(Syntax[s])
      BY SoundStage DEF StatementSound, SelectSound
    <3>4. s = "defineTable" => p.stage \in 0..Len(Syntax[s])
      BY SoundStage, TableFacts DEF StatementSound, TableSound
    <3>5. s = "defineField" => p.stage \in 0..Len(Syntax[s])
      BY SoundStage, FieldFacts DEF StatementSound, FieldSound
    <3> QED
      BY <2>1, <3>1, <3>2, <3>3, <3>4, <3>5
  <2>2. CASE s \in {"defineEvent", "defineUser", "configGraphQl", "configDefault", "use"}
    <3>1. s = "defineEvent" => p.stage \in 0..Len(Syntax[s])
      BY SoundStage, EventFacts DEF StatementSound, EventSound
    <3>2. s = "defineUser" => p.stage \in 0..Len(Syntax[s])
      BY SoundStage, UserFacts DEF StatementSound, UserSound
    <3>3. s = "configGraphQl" => p.stage \in 0..Len(Syntax[s])
      BY SoundStage, GraphQlFacts DEF StatementSound, GraphQlSound
    <3>4. s = "configDefault" => p.stage \in 0..Len(Syntax[s])
      <4>1. Len(ConfigDefaultSyntax) = 3
        BY DEF ConfigDefaultSyntax
      <4> QED
        BY <4>1, ConfigDefaultFacts DEF StatementSound, ConfigDefaultSound
    <3>5. s = "use" => p.stage \in 0..Len(Syntax[s])
      BY UseFacts DEF StatementSound, UseSound
    <3> QED
      BY <2>2, <3>1, <3>2, <3>3, <3>4, <3>5
  <2>3. CASE s \in {"access", "defineAccess", "defineIndex", "defineApi", "if"}
    <3>1. s = "access" => p.stage \in 0..Len(Syntax[s])
      BY AccessFacts DEF StatementSound, AccessSound
    <3>2. s = "defineAccess" => p.stage \in 0..Len(Syntax[s])
      BY SoundStage, DefineAccessFacts DEF StatementSound, DefineAccessSound
    <3>3. s = "defineIndex" => p.stage \in 0..Len(Syntax[s])
      BY SoundStage, IndexFacts DEF StatementSound, IndexSound
    <3>4. s = "defineApi" => p.stage \in 0..Len(Syntax[s])
      BY ApiFacts DEF StatementSound, ApiSound
    <3>5. s = "if" => p.stage \in 0..Len(Syntax[s])
      BY IfFacts DEF StatementSound, IfSound
    <3> QED
      BY <2>3, <3>1, <3>2, <3>3, <3>4, <3>5
  <2> QED
    BY <1>5, <2>1, <2>2, <2>3 DEF OtherKinds
<1> QED
  BY <1>1, <1>2, <1>3, <1>4, <1>5, EveryKind

-----------------------------------------------------------------------------
(* The statement that is read.                                              *)
StatementInv == statement \in Statements /\ StatementSound(statement, parser)

LEMMA StatementInvInit == StatementInit => StatementInv
BY EachBegins DEF StatementInit, StatementInv

LEMMA StatementInvKept == StatementInv /\ [StatementNext]_statementVars => StatementInv'
<1> SUFFICES ASSUME StatementInv, [StatementNext]_statementVars PROVE StatementInv'
  OBVIOUS
<1>1. CASE ReadClause
  <2>1. PICK key \in Keywords(statement, parser) : \E arg \in Arguments(statement, key) :
          parser' \in Step(statement, parser, key, arg)
    BY <1>1 DEF ReadClause
  <2>2. PICK arg \in Arguments(statement, key) : parser' \in Step(statement, parser, key, arg)
    BY <2>1
  <2>3. statement \in Statements /\ StatementSound(statement, parser) /\ statement' = statement
    BY <1>1 DEF StatementInv, ReadClause
  <2>4. key \in KeywordsOf(statement)
    BY <2>1 DEF Keywords, KeywordsOf, Reachable
  <2>5. IsArgument(statement, key, arg)
    BY <2>2, <2>3, <2>4, ArgumentsAssumption
  <2>6. StatementSound(statement, parser')
    BY <2>2, <2>3, <2>5, EachStep
  <2> QED
    BY <2>3, <2>6 DEF StatementInv
<1>2. CASE UNCHANGED statementVars
  BY <1>2 DEF statementVars, StatementInv
<1> QED
  BY <1>1, <1>2 DEF StatementNext

\* While a statement is read, its tree holds what the parser of its kind can
\* have stored: the defaults, the clauses of the stages that are behind it,
\* and of each what a text can say (Parser::parse_stmt and the parsers of the
\* statements).
THEOREM StatementsStaySound == StatementSpec => []StatementInv
BY StatementInvInit, StatementInvKept, PTL DEF StatementSpec

\* For any arguments, and statements of any length: the parser is in a stage
\* of the statement it reads (Parser::parse_stmt).
THEOREM StatementTypesAreKept == StatementSpec => []StatementTypeOK
<1>1. StatementInv => StatementTypeOK
  BY StatementsAssumption, EachStage DEF StatementInv, StatementTypeOK
<1> QED
  BY <1>1, StatementsStaySound, PTL

\* For any arguments, and statements of any length: a statement of any kind
\* that was read, and is written by its printer, is read again as the same
\* tree, but for the losses Kept and Unreadable name (tests/roundtrip.rs).
THEOREM StatementsReturn == StatementSpec => []RoundTrip
<1>1. StatementInv => RoundTrip
  <2> SUFFICES ASSUME StatementInv, MayEnd(statement, parser)
               PROVE  Returns(statement, parser)
    BY DEF RoundTrip, Returns
  <2> QED
    BY StatementsAssumption, EachReturns DEF StatementInv
<1> QED
  BY <1>1, StatementsStaySound, PTL
=============================================================================
