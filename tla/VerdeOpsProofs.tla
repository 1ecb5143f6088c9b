--------------------------- MODULE VerdeOpsProofs ---------------------------
(***************************************************************************)
(* Proofs about operations.  First about values: editing one number of a   *)
(* value, what is read back is the value with that number, whatever the    *)
(* value is, or nothing.  Then, for any API dump, any thresholds, any game *)
(* and any number of operations: what Verde is shown is within the         *)
(* threshold; an applied edit keeps the rest; the links it is shown        *)
(* resolve; and where it does not change the tree, a search finds a tree.  *)
(***************************************************************************)
EXTENDS VerdeOps, SequenceTheorems, FiniteSetTheorems, TLAPS

(***************************************************************************)
(* Values.                                                                 *)
(***************************************************************************)
\* What is shown of a number is a number, half a thousandth from it at most.
LEMMA RoundNear ==
    ASSUME NEW n \in Int
    PROVE  round3(n) \in Int /\ Near(round3(n), n)
<1>1. n # Huge
  BY VerdeValuesAssumption
<1>2. round3(n) = 255 * ((n + 127) \div 255)
  BY <1>1, Z3 DEF round3, Round, Milli
<1>3. /\ 255 * ((n + 127) \div 255) \in Int
      /\ 2 * (255 * ((n + 127) \div 255) - n) \in -255..255
  BY Z3
<1> QED
  BY <1>2, <1>3 DEF Near, Milli

\* A level of a colour's channel is shown as a number that is read as that level.
LEMMA LevelBack ==
    ASSUME NEW r \in 0..255
    PROVE  Level * r \in Int /\ to_u8(Level * r) = r
<1>1. Level * r \in Int
  BY DEF Level
<1>2. Round(Level * r, Level) \div Level = r
  BY Z3 DEF Round, Level
<1> QED
  BY <1>1, <1>2 DEF to_u8

LEMMA NumIsNum ==
    ASSUME NEW n \in Int
    PROVE  Num(n) = [num |-> n] /\ IsNum(Num(n)) /\ Num(n).num = n
  BY VerdeValuesAssumption DEF Num, IsNum

LEMMA NullIsNot == ~ IsNum(Num(Huge)) /\ DOMAIN Num(Huge) # {"obj"}
  BY DEF Num, IsNum, Null

\* A bare number is read as itself.
LEMMA ReadNum ==
    ASSUME NEW n \in Int
    PROVE  FromJson(Num(n)) = {Numbers("Float", <<n>>)}
<1>1. DOMAIN Num(n) = {"num"} /\ Num(n).num = n
  BY NumIsNum DEF IsNum
<1>2. {"num"} # {"bool"} /\ {"num"} # {"text"} /\ {"num"} # {"obj"}
  OBVIOUS
<1> QED
  BY <1>1, <1>2 DEF FromJson, IsNum, IsText

\* An object is read by its fields.
LEMMA ReadObj ==
    ASSUME NEW fields
    PROVE  FromJson(Obj(fields)) = FromShape(Obj(fields)) /\ Obj(fields).obj = fields
<1>1. DOMAIN Obj(fields) = {"obj"} /\ Obj(fields).obj = fields
  BY DEF Obj
<1>2. {"obj"} # {"bool"} /\ {"obj"} # {"num"} /\ {"obj"} # {"text"}
  OBVIOUS
<1> QED
  BY <1>1, <1>2 DEF FromJson, IsNum, IsText

\* The first shape that fits is taken.
LEMMA FirstShape ==
    ASSUME NEW j, NEW k \in 1..9, Fits(Precedence[k], j),
           \A l \in 1..(k-1) : ~ Fits(Precedence[l], j)
    PROVE  FromShape(j) = {into_dom(Precedence[k], j.obj)}
<1>1. DOMAIN Precedence = 1..9
  BY DEF Precedence
<1>2. \A l \in 1..9 : l > k => k \in 1..(l-1)
  OBVIOUS
<1>3. ASSUME NEW l \in 1..9, Fits(Precedence[l], j), \A m \in 1..(l-1) : ~ Fits(Precedence[m], j)
      PROVE  l = k
  <2>1. ~ (l > k)
    BY <1>2, <1>3
  <2>2. ~ (l < k)
    BY <1>3
  <2> QED
    BY <2>1, <2>2
<1>4. {l \in DOMAIN Precedence : Fits(Precedence[l], j) /\ \A m \in 1..(l-1) : ~ Fits(Precedence[m], j)} = {k}
  BY <1>1, <1>3
<1> QED
  BY <1>4 DEF FromShape

\* No shape fits.
LEMMA NoShape ==
    ASSUME NEW j, \A k \in 1..9 : ~ Fits(Precedence[k], j)
    PROVE  FromShape(j) = {}
<1>1. DOMAIN Precedence = 1..9
  BY DEF Precedence
<1> QED
  BY <1>1 DEF FromShape

\* What can be an attribute: what the shapes make of numbers is.
Storable(v) == IsDomValue(v) /\ v.kind \in AttributeKinds

LEMMA NumbersStored ==
    ASSUME NEW kind \in DOMAIN Arity \cap AttributeKinds,
           NEW nums \in [1..Arity[kind] -> Component(kind)]
    PROVE  Storable(Numbers(kind, nums))
<1>1. /\ Numbers(kind, nums) \in [kind : {kind}, nums : [1..Arity[kind] -> Component(kind)]]
      /\ Numbers(kind, nums).kind = kind
  BY DEF Numbers
<1> QED
  BY <1>1 DEF Storable, IsDomValue

LEMMA OneStored ==
    ASSUME NEW x \in Real
    PROVE  Storable(Numbers("Float", <<x>>))
<1>1. Arity["Float"] = 1 /\ Component("Float") = Real /\ "Float" \in DOMAIN Arity \cap AttributeKinds
  BY DEF Arity, Component, Colors, Whole, AttributeKinds
<1>2. <<x>> \in [1..1 -> Real]
  OBVIOUS
<1> QED
  BY <1>1, <1>2, NumbersStored

LEMMA TwoStored ==
    ASSUME NEW kind \in {"Vector2", "UDim", "NumberRange"}, NEW x \in Real, NEW y \in Real
    PROVE  Storable(Numbers(kind, <<x, y>>))
<1>1. Arity[kind] = 2 /\ Component(kind) = Real /\ kind \in DOMAIN Arity \cap AttributeKinds
  BY DEF Arity, Component, Colors, Whole, AttributeKinds
<1>2. <<x, y>> \in [1..2 -> Real]
  OBVIOUS
<1> QED
  BY <1>1, <1>2, NumbersStored

LEMMA ThreeStored ==
    ASSUME NEW x \in Real, NEW y \in Real, NEW z \in Real
    PROVE  Storable(Numbers("Vector3", <<x, y, z>>))
<1>1. /\ Arity["Vector3"] = 3 /\ Component("Vector3") = Real
      /\ "Vector3" \in DOMAIN Arity \cap AttributeKinds
  BY DEF Arity, Component, Colors, Whole, AttributeKinds
<1>2. <<x, y, z>> \in [1..3 -> Real]
  OBVIOUS
<1> QED
  BY <1>1, <1>2, NumbersStored

LEMMA FourStored ==
    ASSUME NEW kind \in {"UDim2", "Rect"},
           NEW x \in Real, NEW y \in Real, NEW z \in Real, NEW w \in Real
    PROVE  Storable(Numbers(kind, <<x, y, z, w>>))
<1>1. Arity[kind] = 4 /\ Component(kind) = Real /\ kind \in DOMAIN Arity \cap AttributeKinds
  BY DEF Arity, Component, Colors, Whole, AttributeKinds
<1>2. <<x, y, z, w>> \in [1..4 -> Real]
  OBVIOUS
<1> QED
  BY <1>1, <1>2, NumbersStored

LEMMA ColorStored ==
    ASSUME NEW x \in Int, NEW y \in Int, NEW z \in Int
    PROVE  Storable(Numbers("Color3", <<to_u8(x), to_u8(y), to_u8(z)>>))
<1>1. /\ Arity["Color3"] = 3 /\ Component("Color3") = 0..255
      /\ "Color3" \in DOMAIN Arity \cap AttributeKinds
  BY DEF Arity, Component, Colors, Whole, AttributeKinds
<1>2. \A n \in Int : to_u8(n) \in 0..255
  BY Z3 DEF to_u8, Round, Level
<1>3. <<to_u8(x), to_u8(y), to_u8(z)>> \in [1..3 -> 0..255]
  BY <1>2
<1> QED
  BY <1>1, <1>3, NumbersStored

\* The scalars: whatever was shown, the number entered is what is read.
LEMMA ScalarBack ==
    ASSUME NEW v, v.kind \in Scalars, NEW n \in Int, NEW path, path = <<>>,
           NEW now \in FromJson(Edited(describe(v), path, n))
    PROVE  KeepsTheRest(v, 1, n, now) /\ Storable(now)
<1>1. Edited(describe(v), path, n) = Num(n)
  BY DEF Edited
<1>2. now = Numbers("Float", <<n>>)
  BY <1>1, ReadNum
<1>3. now.kind = "Float" /\ now.nums = <<n>> /\ now.nums[1] = n
  BY <1>2 DEF Numbers
<1>4. Arity[v.kind] = 1 /\ v.kind \notin Colors
  BY DEF Scalars, Arity, Colors
<1>5. Storable(now)
  BY <1>2, OneStored DEF Real
<1> QED
  BY <1>5, <1>3, <1>4 DEF KeepsTheRest, ReadAs

-----------------------------------------------------------------------------
(***************************************************************************)
(* Objects.                                                                *)
(***************************************************************************)
LEMMA Shapes ==
    /\ Precedence[1] = "UDim2" /\ Precedence[2] = "Vector3" /\ Precedence[3] = "Vector2"
    /\ Precedence[4] = "Color3" /\ Precedence[5] = "UDim" /\ Precedence[6] = "NumberRange"
    /\ Precedence[7] = "Rect" /\ Precedence[8] = "EnumByName" /\ Precedence[9] = "EnumByValue"
  BY DEF Precedence

LEMMA FitsIs ==
    ASSUME NEW j
    PROVE  /\ Fits("UDim2", j) = Pairs(j, {"X", "Y"}, {"Scale", "Offset"})
           /\ Fits("Vector3", j) = Nums(j, {"X", "Y", "Z"})
           /\ Fits("Vector2", j) = Nums(j, {"X", "Y"})
           /\ Fits("Color3", j) = Nums(j, {"R", "G", "B"})
           /\ Fits("UDim", j) = Nums(j, {"Scale", "Offset"})
           /\ Fits("NumberRange", j) = Nums(j, {"Min", "Max"})
           /\ Fits("Rect", j) = Pairs(j, {"Min", "Max"}, {"X", "Y"})
           /\ Fits("EnumByName", j) = (Has(j, {"Name"}) /\ IsText(j.obj.Name))
           /\ Fits("EnumByValue", j) = Nums(j, {"Value"})
  BY DEF Fits

\* A shape asks for fields; without one of them it does not fit.
LEMMA Lacking ==
    ASSUME NEW fields, NEW F, NEW G, NEW f \in F, f \notin DOMAIN fields
    PROVE  /\ ~ Has(Obj(fields), F) /\ ~ Nums(Obj(fields), F) /\ ~ Pairs(Obj(fields), F, G)
<1>1. Obj(fields).obj = fields
  BY DEF Obj
<1> QED
  BY <1>1 DEF Has, Nums, Pairs

\* An object with the fields fits if they hold numbers.
LEMMA Holding ==
    ASSUME NEW fields, NEW F, F \subseteq DOMAIN fields
    PROVE  /\ Has(Obj(fields), F)
           /\ Nums(Obj(fields), F) <=> \A f \in F : IsNum(fields[f])
<1>1. DOMAIN Obj(fields) = {"obj"} /\ Obj(fields).obj = fields
  BY DEF Obj
<1> QED
  BY <1>1 DEF Has, Nums

\* Numbers, and the nulls of numbers that are not finite, are no objects.
LEMMA NumIs ==
    ASSUME NEW x \in Real, NEW F
    PROVE  /\ IsNum(Num(x)) <=> x \in Int
           /\ x \in Int => Num(x).num = x
           /\ ~ Nums(Num(x), F)
<1>1. {"num"} # {"obj"} /\ {"null"} # {"obj"} /\ {"null"} # {"num"}
  OBVIOUS
<1>2. x = Huge <=> x \notin Int
  BY VerdeValuesAssumption DEF Real
<1> QED
  BY <1>1, <1>2 DEF Num, Null, IsNum, Nums, Has

\* Three numbers are a Vector3; without the third they are a Vector2, else nothing.
LEMMA ReadVector3 ==
    ASSUME NEW x \in Real, NEW y \in Real, NEW z \in Real
    PROVE  FromJson(Obj([X |-> Num(x), Y |-> Num(y), Z |-> Num(z)])) =
              IF x \in Int /\ y \in Int
              THEN IF z \in Int THEN {Numbers("Vector3", <<x, y, z>>)}
                                ELSE {Numbers("Vector2", <<x, y>>)}
              ELSE {}
<1> DEFINE fields == [X |-> Num(x), Y |-> Num(y), Z |-> Num(z)]
           j == Obj(fields)
<1>1. FromJson(j) = FromShape(j) /\ j.obj = fields
  BY ReadObj
<1>2. ~ Fits("UDim2", j)
  <2>1. ~ Nums(fields["X"], {"Scale", "Offset"})
    BY NumIs
  <2> QED
    BY <1>1, <2>1, FitsIs DEF Pairs
<1>3. /\ DOMAIN fields = {"X", "Y", "Z"}
      /\ fields["X"] = Num(x) /\ fields["Y"] = Num(y) /\ fields["Z"] = Num(z)
  OBVIOUS
<1> HIDE DEF fields
<1>4. Fits("Vector3", j) <=> x \in Int /\ y \in Int /\ z \in Int
  <2>1. Nums(j, {"X", "Y", "Z"}) <=> \A f \in {"X", "Y", "Z"} : IsNum(fields[f])
    BY <1>3, Holding
  <2> QED
    BY <1>3, <2>1, FitsIs, NumIs
<1>5. Fits("Vector2", j) <=> x \in Int /\ y \in Int
  <2>1. Nums(j, {"X", "Y"}) <=> \A f \in {"X", "Y"} : IsNum(fields[f])
    BY <1>3, Holding
  <2> QED
    BY <1>3, <2>1, FitsIs, NumIs
<1>6. \A k \in 4..9 : ~ Fits(Precedence[k], j)
  <2>1. /\ "R" \notin DOMAIN fields /\ "Scale" \notin DOMAIN fields /\ "Min" \notin DOMAIN fields
        /\ "Name" \notin DOMAIN fields /\ "Value" \notin DOMAIN fields
    BY <1>3
  <2>2. ~ Fits("Color3", j) /\ ~ Fits("UDim", j) /\ ~ Fits("NumberRange", j)
    BY <2>1, Lacking, FitsIs
  <2>3. ~ Fits("Rect", j) /\ ~ Fits("EnumByName", j) /\ ~ Fits("EnumByValue", j)
    BY <2>1, Lacking, FitsIs
  <2> QED
    BY <2>2, <2>3, Shapes
<1>7. CASE x \in Int /\ y \in Int /\ z \in Int
  <2>1. FromShape(j) = {into_dom("Vector3", j.obj)}
    BY <1>2, <1>4, <1>7, FirstShape, Shapes
  <2> QED
    BY <1>1, <1>7, <2>1, NumIs DEF into_dom, fields
<1>8. CASE x \in Int /\ y \in Int /\ z \notin Int
  <2>1. FromShape(j) = {into_dom("Vector2", j.obj)}
    <3>1. \A l \in 1..(3-1) : l = 1 \/ l = 2
      OBVIOUS
    <3> QED
      BY <1>2, <1>4, <1>5, <1>8, <3>1, FirstShape, Shapes
  <2> QED
    BY <1>1, <1>8, <2>1, NumIs DEF into_dom, fields
<1>9. CASE ~ (x \in Int /\ y \in Int)
  <2>1. \A k \in 1..9 : ~ Fits(Precedence[k], j)
    BY <1>2, <1>4, <1>5, <1>6, <1>9, Shapes
  <2> QED
    BY <1>1, <1>9, <2>1, NoShape DEF fields
<1> QED
  BY <1>7, <1>8, <1>9

\* Two numbers are a Vector2.
LEMMA ReadVector2 ==
    ASSUME NEW x \in Real, NEW y \in Real
    PROVE  FromJson(Obj([X |-> Num(x), Y |-> Num(y)])) =
              IF x \in Int /\ y \in Int THEN {Numbers("Vector2", <<x, y>>)} ELSE {}
<1> DEFINE fields == [X |-> Num(x), Y |-> Num(y)]
           j == Obj(fields)
<1>1. FromJson(j) = FromShape(j) /\ j.obj = fields
  BY ReadObj
<1>2. /\ DOMAIN fields = {"X", "Y"}
      /\ fields["X"] = Num(x) /\ fields["Y"] = Num(y)
  OBVIOUS
<1> HIDE DEF fields
<1>3. Fits("Vector2", j) <=> x \in Int /\ y \in Int
  <2>1. Nums(j, {"X", "Y"}) <=> \A f \in {"X", "Y"} : IsNum(fields[f])
    BY <1>2, Holding
  <2> QED
    BY <1>2, <2>1, FitsIs, NumIs
<1>4. ~ Fits("UDim2", j)
  <2>1. ~ Nums(fields["X"], {"Scale", "Offset"})
    BY <1>2, NumIs
  <2> QED
    BY <1>1, <2>1, FitsIs DEF Pairs
<1>5. /\ ~ Fits("Vector3", j)
      /\ ~ Fits("Color3", j)
      /\ ~ Fits("UDim", j)
      /\ ~ Fits("NumberRange", j)
      /\ ~ Fits("Rect", j)
      /\ ~ Fits("EnumByName", j)
      /\ ~ Fits("EnumByValue", j)
  <2>1. /\ "Min" \notin DOMAIN fields /\ "Name" \notin DOMAIN fields /\ "R" \notin DOMAIN fields /\ "Scale" \notin DOMAIN fields /\ "Value" \notin DOMAIN fields /\ "Z" \notin DOMAIN fields
    BY <1>2
  <2> QED
    BY <2>1, Lacking, FitsIs
<1>6. CASE x \in Int /\ y \in Int
  <2>1. \A l \in 1..(3-1) : l = 1 \/ l = 2
    OBVIOUS
  <2>2. FromShape(j) = {into_dom("Vector2", j.obj)}
    BY <1>3, <1>4, <1>5, <1>6, <2>1, FirstShape, Shapes
  <2> QED
    BY <1>1, <1>6, <2>2, NumIs DEF into_dom, fields
<1>7. CASE ~ (x \in Int /\ y \in Int)
  <2>1. \A k \in 1..9 : ~ Fits(Precedence[k], j)
    BY <1>3, <1>4, <1>5, <1>7, Shapes
  <2> QED
    BY <1>1, <1>7, <2>1, NoShape DEF fields
<1> QED
  BY <1>6, <1>7

\* Three levels are a Color3.
LEMMA ReadColor3 ==
    ASSUME NEW r \in Real, NEW g \in Real, NEW b \in Real
    PROVE  FromJson(Obj([R |-> Num(r), G |-> Num(g), B |-> Num(b)])) =
              IF r \in Int /\ g \in Int /\ b \in Int THEN {Numbers("Color3", <<to_u8(r), to_u8(g), to_u8(b)>>)} ELSE {}
<1> DEFINE fields == [R |-> Num(r), G |-> Num(g), B |-> Num(b)]
           j == Obj(fields)
<1>1. FromJson(j) = FromShape(j) /\ j.obj = fields
  BY ReadObj
<1>2. /\ DOMAIN fields = {"R", "G", "B"}
      /\ fields["R"] = Num(r) /\ fields["G"] = Num(g) /\ fields["B"] = Num(b)
  OBVIOUS
<1> HIDE DEF fields
<1>3. Fits("Color3", j) <=> r \in Int /\ g \in Int /\ b \in Int
  <2>1. Nums(j, {"R", "G", "B"}) <=> \A f \in {"R", "G", "B"} : IsNum(fields[f])
    BY <1>2, Holding
  <2> QED
    BY <1>2, <2>1, FitsIs, NumIs
<1>5. /\ ~ Fits("UDim2", j)
      /\ ~ Fits("Vector3", j)
      /\ ~ Fits("Vector2", j)
      /\ ~ Fits("UDim", j)
      /\ ~ Fits("NumberRange", j)
      /\ ~ Fits("Rect", j)
      /\ ~ Fits("EnumByName", j)
      /\ ~ Fits("EnumByValue", j)
  <2>1. /\ "Min" \notin DOMAIN fields /\ "Name" \notin DOMAIN fields /\ "Scale" \notin DOMAIN fields /\ "Value" \notin DOMAIN fields /\ "X" \notin DOMAIN fields
    BY <1>2
  <2> QED
    BY <2>1, Lacking, FitsIs
<1>6. CASE r \in Int /\ g \in Int /\ b \in Int
  <2>1. \A l \in 1..(4-1) : l = 1 \/ l = 2 \/ l = 3
    OBVIOUS
  <2>2. FromShape(j) = {into_dom("Color3", j.obj)}
    BY <1>3, <1>5, <1>6, <2>1, FirstShape, Shapes
  <2> QED
    BY <1>1, <1>6, <2>2, NumIs DEF into_dom, fields
<1>7. CASE ~ (r \in Int /\ g \in Int /\ b \in Int)
  <2>1. \A k \in 1..9 : ~ Fits(Precedence[k], j)
    BY <1>3, <1>5, <1>7, Shapes
  <2> QED
    BY <1>1, <1>7, <2>1, NoShape DEF fields
<1> QED
  BY <1>6, <1>7

\* A scale and an offset are a UDim.
LEMMA ReadUDim ==
    ASSUME NEW scale \in Real, NEW offset \in Real
    PROVE  FromJson(Obj([Scale |-> Num(scale), Offset |-> Num(offset)])) =
              IF scale \in Int /\ offset \in Int THEN {Numbers("UDim", <<scale, offset>>)} ELSE {}
<1> DEFINE fields == [Scale |-> Num(scale), Offset |-> Num(offset)]
           j == Obj(fields)
<1>1. FromJson(j) = FromShape(j) /\ j.obj = fields
  BY ReadObj
<1>2. /\ DOMAIN fields = {"Scale", "Offset"}
      /\ fields["Scale"] = Num(scale) /\ fields["Offset"] = Num(offset)
  OBVIOUS
<1> HIDE DEF fields
<1>3. Fits("UDim", j) <=> scale \in Int /\ offset \in Int
  <2>1. Nums(j, {"Scale", "Offset"}) <=> \A f \in {"Scale", "Offset"} : IsNum(fields[f])
    BY <1>2, Holding
  <2> QED
    BY <1>2, <2>1, FitsIs, NumIs
<1>5. /\ ~ Fits("UDim2", j)
      /\ ~ Fits("Vector3", j)
      /\ ~ Fits("Vector2", j)
      /\ ~ Fits("Color3", j)
      /\ ~ Fits("NumberRange", j)
      /\ ~ Fits("Rect", j)
      /\ ~ Fits("EnumByName", j)
      /\ ~ Fits("EnumByValue", j)
  <2>1. /\ "Min" \notin DOMAIN fields /\ "Name" \notin DOMAIN fields /\ "R" \notin DOMAIN fields /\ "Value" \notin DOMAIN fields /\ "X" \notin DOMAIN fields
    BY <1>2
  <2> QED
    BY <2>1, Lacking, FitsIs
<1>6. CASE scale \in Int /\ offset \in Int
  <2>1. \A l \in 1..(5-1) : l = 1 \/ l = 2 \/ l = 3 \/ l = 4
    OBVIOUS
  <2>2. FromShape(j) = {into_dom("UDim", j.obj)}
    BY <1>3, <1>5, <1>6, <2>1, FirstShape, Shapes
  <2> QED
    BY <1>1, <1>6, <2>2, NumIs DEF into_dom, fields
<1>7. CASE ~ (scale \in Int /\ offset \in Int)
  <2>1. \A k \in 1..9 : ~ Fits(Precedence[k], j)
    BY <1>3, <1>5, <1>7, Shapes
  <2> QED
    BY <1>1, <1>7, <2>1, NoShape DEF fields
<1> QED
  BY <1>6, <1>7

\* Two bounds are a NumberRange.
LEMMA ReadNumberRange ==
    ASSUME NEW min \in Real, NEW max \in Real
    PROVE  FromJson(Obj([Min |-> Num(min), Max |-> Num(max)])) =
              IF min \in Int /\ max \in Int THEN {Numbers("NumberRange", <<min, max>>)} ELSE {}
<1> DEFINE fields == [Min |-> Num(min), Max |-> Num(max)]
           j == Obj(fields)
<1>1. FromJson(j) = FromShape(j) /\ j.obj = fields
  BY ReadObj
<1>2. /\ DOMAIN fields = {"Min", "Max"}
      /\ fields["Min"] = Num(min) /\ fields["Max"] = Num(max)
  OBVIOUS
<1> HIDE DEF fields
<1>3. Fits("NumberRange", j) <=> min \in Int /\ max \in Int
  <2>1. Nums(j, {"Min", "Max"}) <=> \A f \in {"Min", "Max"} : IsNum(fields[f])
    BY <1>2, Holding
  <2> QED
    BY <1>2, <2>1, FitsIs, NumIs
<1>4. ~ Fits("Rect", j)
  <2>1. ~ Nums(fields["Min"], {"X", "Y"})
    BY <1>2, NumIs
  <2> QED
    BY <1>1, <2>1, FitsIs DEF Pairs
<1>5. /\ ~ Fits("UDim2", j)
      /\ ~ Fits("Vector3", j)
      /\ ~ Fits("Vector2", j)
      /\ ~ Fits("Color3", j)
      /\ ~ Fits("UDim", j)
      /\ ~ Fits("EnumByName", j)
      /\ ~ Fits("EnumByValue", j)
  <2>1. /\ "Name" \notin DOMAIN fields /\ "R" \notin DOMAIN fields /\ "Scale" \notin DOMAIN fields /\ "Value" \notin DOMAIN fields /\ "X" \notin DOMAIN fields
    BY <1>2
  <2> QED
    BY <2>1, Lacking, FitsIs
<1>6. CASE min \in Int /\ max \in Int
  <2>1. \A l \in 1..(6-1) : l = 1 \/ l = 2 \/ l = 3 \/ l = 4 \/ l = 5
    OBVIOUS
  <2>2. FromShape(j) = {into_dom("NumberRange", j.obj)}
    BY <1>3, <1>4, <1>5, <1>6, <2>1, FirstShape, Shapes
  <2> QED
    BY <1>1, <1>6, <2>2, NumIs DEF into_dom, fields
<1>7. CASE ~ (min \in Int /\ max \in Int)
  <2>1. \A k \in 1..9 : ~ Fits(Precedence[k], j)
    BY <1>3, <1>4, <1>5, <1>7, Shapes
  <2> QED
    BY <1>1, <1>7, <2>1, NoShape DEF fields
<1> QED
  BY <1>6, <1>7

\* Two pairs of a scale and an offset are a UDim2.
LEMMA ReadUDim2 ==
    ASSUME NEW a \in Real, NEW b \in Real, NEW c \in Real, NEW d \in Real
    PROVE  FromJson(Obj([X |-> Obj([Scale |-> Num(a), Offset |-> Num(b)]),
                         Y |-> Obj([Scale |-> Num(c), Offset |-> Num(d)])])) =
              IF a \in Int /\ b \in Int /\ c \in Int /\ d \in Int
              THEN {Numbers("UDim2", <<a, b, c, d>>)} ELSE {}
<1> DEFINE first  == [Scale |-> Num(a), Offset |-> Num(b)]
           second == [Scale |-> Num(c), Offset |-> Num(d)]
           fields == [X |-> Obj(first), Y |-> Obj(second)]
           j == Obj(fields)
<1>1. FromJson(j) = FromShape(j) /\ j.obj = fields
  BY ReadObj
<1>2. /\ DOMAIN fields = {"X", "Y"} /\ DOMAIN first = {"Scale", "Offset"} /\ DOMAIN second = {"Scale", "Offset"}
      /\ fields["X"] = Obj(first) /\ fields["Y"] = Obj(second)
      /\ first["Scale"] = Num(a) /\ first["Offset"] = Num(b)
      /\ second["Scale"] = Num(c) /\ second["Offset"] = Num(d)
  OBVIOUS
<1> HIDE DEF fields, first, second
<1>3. Fits("UDim2", j) <=> a \in Int /\ b \in Int /\ c \in Int /\ d \in Int
  <2>1. Has(j, {"X", "Y"})
    BY <1>2, Holding
  <2>2. Nums(Obj(first), {"Scale", "Offset"}) <=> a \in Int /\ b \in Int
    <3>1. Nums(Obj(first), {"Scale", "Offset"}) <=> \A f \in {"Scale", "Offset"} : IsNum(first[f])
      BY <1>2, Holding
    <3> QED
      BY <1>2, <3>1, NumIs
  <2>3. Nums(Obj(second), {"Scale", "Offset"}) <=> c \in Int /\ d \in Int
    <3>1. Nums(Obj(second), {"Scale", "Offset"}) <=> \A f \in {"Scale", "Offset"} : IsNum(second[f])
      BY <1>2, Holding
    <3> QED
      BY <1>2, <3>1, NumIs
  <2>4. \A f \in {"X", "Y"} : j.obj[f] = fields[f]
    BY <1>1
  <2>5. Pairs(j, {"X", "Y"}, {"Scale", "Offset"})
          <=> Nums(Obj(first), {"Scale", "Offset"}) /\ Nums(Obj(second), {"Scale", "Offset"})
    BY <1>2, <2>1, <2>4 DEF Pairs
  <2> QED
    BY <2>2, <2>3, <2>5, FitsIs
<1>4. ~ Fits("Vector2", j)
  <2>1. DOMAIN Obj(first) = {"obj"} /\ {"obj"} # {"num"}
    BY DEF Obj
  <2>2. ~ IsNum(fields["X"])
    BY <1>2, <2>1 DEF IsNum
  <2> QED
    BY <1>1, <2>2, FitsIs DEF Nums
<1>5. /\ ~ Fits("Vector3", j)
      /\ ~ Fits("Color3", j)
      /\ ~ Fits("UDim", j)
      /\ ~ Fits("NumberRange", j)
      /\ ~ Fits("Rect", j)
      /\ ~ Fits("EnumByName", j)
      /\ ~ Fits("EnumByValue", j)
  <2>1. /\ "Min" \notin DOMAIN fields /\ "Name" \notin DOMAIN fields /\ "R" \notin DOMAIN fields /\ "Scale" \notin DOMAIN fields /\ "Value" \notin DOMAIN fields /\ "Z" \notin DOMAIN fields
    BY <1>2
  <2> QED
    BY <2>1, Lacking, FitsIs
<1>6. CASE a \in Int /\ b \in Int /\ c \in Int /\ d \in Int
  <2>1. \A l \in 1..(1-1) : FALSE
    OBVIOUS
  <2>2. FromShape(j) = {into_dom("UDim2", j.obj)}
    BY <1>3, <1>4, <1>5, <1>6, <2>1, FirstShape, Shapes
  <2>3. /\ fields.X.obj = first /\ fields.Y.obj = second
    BY <1>2 DEF Obj
  <2>4. /\ first.Scale.num = a /\ first.Offset.num = b
        /\ second.Scale.num = c /\ second.Offset.num = d
    BY <1>2, <1>6, NumIs
  <2> QED
    BY <1>1, <1>6, <2>2, <2>3, <2>4 DEF into_dom, fields, first, second
<1>7. CASE ~ (a \in Int /\ b \in Int /\ c \in Int /\ d \in Int)
  <2>1. \A k \in 1..9 : ~ Fits(Precedence[k], j)
    BY <1>3, <1>4, <1>5, <1>7, Shapes
  <2> QED
    BY <1>1, <1>7, <2>1, NoShape DEF fields, first, second
<1> QED
  BY <1>6, <1>7

\* Two corners are a Rect.
LEMMA ReadRect ==
    ASSUME NEW a \in Real, NEW b \in Real, NEW c \in Real, NEW d \in Real
    PROVE  FromJson(Obj([Min |-> Obj([X |-> Num(a), Y |-> Num(b)]),
                         Max |-> Obj([X |-> Num(c), Y |-> Num(d)])])) =
              IF a \in Int /\ b \in Int /\ c \in Int /\ d \in Int
              THEN {Numbers("Rect", <<a, b, c, d>>)} ELSE {}
<1> DEFINE first  == [X |-> Num(a), Y |-> Num(b)]
           second == [X |-> Num(c), Y |-> Num(d)]
           fields == [Min |-> Obj(first), Max |-> Obj(second)]
           j == Obj(fields)
<1>1. FromJson(j) = FromShape(j) /\ j.obj = fields
  BY ReadObj
<1>2. /\ DOMAIN fields = {"Min", "Max"} /\ DOMAIN first = {"X", "Y"} /\ DOMAIN second = {"X", "Y"}
      /\ fields["Min"] = Obj(first) /\ fields["Max"] = Obj(second)
      /\ first["X"] = Num(a) /\ first["Y"] = Num(b)
      /\ second["X"] = Num(c) /\ second["Y"] = Num(d)
  OBVIOUS
<1> HIDE DEF fields, first, second
<1>3. Fits("Rect", j) <=> a \in Int /\ b \in Int /\ c \in Int /\ d \in Int
  <2>1. Has(j, {"Min", "Max"})
    BY <1>2, Holding
  <2>2. Nums(Obj(first), {"X", "Y"}) <=> a \in Int /\ b \in Int
    <3>1. Nums(Obj(first), {"X", "Y"}) <=> \A f \in {"X", "Y"} : IsNum(first[f])
      BY <1>2, Holding
    <3> QED
      BY <1>2, <3>1, NumIs
  <2>3. Nums(Obj(second), {"X", "Y"}) <=> c \in Int /\ d \in Int
    <3>1. Nums(Obj(second), {"X", "Y"}) <=> \A f \in {"X", "Y"} : IsNum(second[f])
      BY <1>2, Holding
    <3> QED
      BY <1>2, <3>1, NumIs
  <2>4. \A f \in {"Min", "Max"} : j.obj[f] = fields[f]
    BY <1>1
  <2>5. Pairs(j, {"Min", "Max"}, {"X", "Y"})
          <=> Nums(Obj(first), {"X", "Y"}) /\ Nums(Obj(second), {"X", "Y"})
    BY <1>2, <2>1, <2>4 DEF Pairs
  <2> QED
    BY <2>2, <2>3, <2>5, FitsIs
<1>4. ~ Fits("NumberRange", j)
  <2>1. DOMAIN Obj(first) = {"obj"} /\ {"obj"} # {"num"}
    BY DEF Obj
  <2>2. ~ IsNum(fields["Min"])
    BY <1>2, <2>1 DEF IsNum
  <2> QED
    BY <1>1, <2>2, FitsIs DEF Nums
<1>5. /\ ~ Fits("UDim2", j)
      /\ ~ Fits("Vector3", j)
      /\ ~ Fits("Vector2", j)
      /\ ~ Fits("Color3", j)
      /\ ~ Fits("UDim", j)
      /\ ~ Fits("EnumByName", j)
      /\ ~ Fits("EnumByValue", j)
  <2>1. /\ "Name" \notin DOMAIN fields /\ "R" \notin DOMAIN fields /\ "Scale" \notin DOMAIN fields /\ "Value" \notin DOMAIN fields /\ "X" \notin DOMAIN fields
    BY <1>2
  <2> QED
    BY <2>1, Lacking, FitsIs
<1>6. CASE a \in Int /\ b \in Int /\ c \in Int /\ d \in Int
  <2>1. \A l \in 1..(7-1) : l = 1 \/ l = 2 \/ l = 3 \/ l = 4 \/ l = 5 \/ l = 6
    OBVIOUS
  <2>2. FromShape(j) = {into_dom("Rect", j.obj)}
    BY <1>3, <1>4, <1>5, <1>6, <2>1, FirstShape, Shapes
  <2>3. /\ fields.Min.obj = first /\ fields.Max.obj = second
    BY <1>2 DEF Obj
  <2>4. /\ first.X.num = a /\ first.Y.num = b
        /\ second.X.num = c /\ second.Y.num = d
    BY <1>2, <1>6, NumIs
  <2> QED
    BY <1>1, <1>6, <2>2, <2>3, <2>4 DEF into_dom, fields, first, second
<1>7. CASE ~ (a \in Int /\ b \in Int /\ c \in Int /\ d \in Int)
  <2>1. \A k \in 1..9 : ~ Fits(Precedence[k], j)
    BY <1>3, <1>4, <1>5, <1>7, Shapes
  <2> QED
    BY <1>1, <1>7, <2>1, NoShape DEF fields, first, second
<1> QED
  BY <1>6, <1>7

-----------------------------------------------------------------------------
(***************************************************************************)
(* One kind after the other: its value is shown, edited and read back.     *)
(***************************************************************************)
LEMMA EditField ==
    ASSUME NEW fields, NEW f, NEW n
    PROVE  Edited(Obj(fields), <<f>>, n) = Obj([fields EXCEPT ![f] = Num(n)])
<1>1. Obj(fields).obj = fields
  BY DEF Obj
<1>2. Len(<<f>>) = 1 /\ <<f>>[1] = f
  OBVIOUS
<1> QED
  BY <1>1, <1>2 DEF Edited

LEMMA EditInner ==
    ASSUME NEW fields, NEW f, NEW g, NEW inner, NEW n, fields[f] = Obj(inner)
    PROVE  Edited(Obj(fields), <<f, g>>, n) = Obj([fields EXCEPT ![f] = Obj([inner EXCEPT ![g] = Num(n)])])
<1>1. Obj(fields).obj = fields /\ Obj(inner).obj = inner
  BY DEF Obj
<1> DEFINE path == <<f, g>>
<1>2. Len(path) = 2 /\ path[1] = f /\ path[2] = g
  OBVIOUS
<1> HIDE DEF path
<1>3. Edited(Obj(fields), path, n)
        = Obj([Obj(fields).obj EXCEPT ![path[1]] = Obj([Obj(fields).obj[path[1]].obj EXCEPT ![path[2]] = Num(n)])])
  BY <1>2 DEF Edited
<1>4. Edited(Obj(fields), path, n) = Obj([fields EXCEPT ![f] = Obj([inner EXCEPT ![g] = Num(n)])])
  BY <1>1, <1>2, <1>3
<1> QED
  BY <1>4 DEF path

LEMMA PathsAre ==
    /\ Paths["Vector2"] = << <<"X">>, <<"Y">> >>
    /\ Paths["Vector3"] = << <<"X">>, <<"Y">>, <<"Z">> >>
    /\ Paths["Vector2int16"] = << <<"X">>, <<"Y">> >>
    /\ Paths["Vector3int16"] = << <<"X">>, <<"Y">>, <<"Z">> >>
    /\ Paths["Color3"] = << <<"R">>, <<"G">>, <<"B">> >>
    /\ Paths["Color3uint8"] = << <<"R">>, <<"G">>, <<"B">> >>
    /\ Paths["UDim"] = << <<"Scale">>, <<"Offset">> >>
    /\ Paths["NumberRange"] = << <<"Min">>, <<"Max">> >>
    /\ Paths["UDim2"] = << <<"X", "Scale">>, <<"X", "Offset">>, <<"Y", "Scale">>, <<"Y", "Offset">> >>
    /\ Paths["Rect"] = << <<"Min", "X">>, <<"Min", "Y">>, <<"Max", "X">>, <<"Max", "Y">> >>
    /\ \A kind \in Scalars : Paths[kind] = << <<>> >>
  BY DEF Paths, Scalars

LEMMA ShownNear ==
    ASSUME NEW x \in Real
    PROVE  /\ round3(x) \in Real /\ (round3(x) \in Int <=> x \in Int)
           /\ Near(round3(x), x) /\ Near(x, x)
<1>1. CASE x \in Int
  BY <1>1, RoundNear DEF Real, Near
<1>2. CASE x = Huge
  BY <1>2, VerdeValuesAssumption DEF Real, round3, Near
<1> QED
  BY <1>1, <1>2 DEF Real

LEMMA Vector2Back ==
    ASSUME NEW v, v.kind = "Vector2", v.nums \in [1..2 -> Real],
           NEW k \in 1..2, NEW n \in Int,
           NEW now \in FromJson(Edited(describe(v), Paths["Vector2"][k], n))
    PROVE  KeepsTheRest(v, k, n, now) /\ Storable(now)
<1> DEFINE m(i) == IF i = k THEN n ELSE round3(v.nums[i])
<1>1. describe(v) = Obj([X |-> Num(round3(v.nums[1])), Y |-> Num(round3(v.nums[2]))])
  BY DEF describe, vec2, Scalars, Texts, Others, Compound, Colors
<1>2. Edited(describe(v), Paths["Vector2"][k], n) = Obj([X |-> Num(m(1)), Y |-> Num(m(2))])
  <2>1. CASE k = 1
    <3>1. Paths["Vector2"][k] = <<"X">>
      BY <2>1, PathsAre
    <3> QED
      BY <1>1, <2>1, <3>1, EditField
  <2>2. CASE k = 2
    <3>1. Paths["Vector2"][k] = <<"Y">>
      BY <2>2, PathsAre
    <3> QED
      BY <1>1, <2>2, <3>1, EditField
  <2> QED
    BY <2>1, <2>2
<1>3. \A i \in 1..2 : m(i) \in Real /\ v.nums[i] \in Real
  BY ShownNear DEF Real
<1> HIDE DEF m
<1>4. now = Numbers("Vector2", <<m(1), m(2)>>)
  <2>1. m(1) \in Real /\ m(2) \in Real
    BY <1>3
  <2>2. now \in FromJson(Obj([X |-> Num(m(1)), Y |-> Num(m(2))]))
    BY <1>2
  <2>3. FromJson(Obj([X |-> Num(m(1)), Y |-> Num(m(2))])) =
          IF m(1) \in Int /\ m(2) \in Int
             THEN {Numbers("Vector2", <<m(1), m(2)>>)} ELSE {}
    BY <2>1, ReadVector2
  <2> QED
    BY <2>2, <2>3
<1>5. now.kind = "Vector2" /\ now.nums[1] = m(1) /\ now.nums[2] = m(2)
  BY <1>4 DEF Numbers
<1>6. \A i \in 1..2 : IF i # k THEN Near(now.nums[i], v.nums[i]) ELSE now.nums[i] = n
  BY <1>3, <1>5, ShownNear DEF m
<1>8. Storable(now)
  BY <1>3, <1>4, TwoStored
<1> QED
  BY <1>8, <1>5, <1>6 DEF KeepsTheRest, ReadAs, Scalars, Colors, Arity

LEMMA Vector3Back ==
    ASSUME NEW v, v.kind = "Vector3", v.nums \in [1..3 -> Real],
           NEW k \in 1..3, NEW n \in Int,
           NEW now \in FromJson(Edited(describe(v), Paths["Vector3"][k], n))
    PROVE  /\ KeepsTheRest(v, k, n, now) \/ (Flattens(v, k) /\ now.kind = "Vector2")
           /\ Storable(now)
<1> DEFINE m(i) == IF i = k THEN n ELSE round3(v.nums[i])
<1>1. describe(v) = Obj([X |-> Num(round3(v.nums[1])), Y |-> Num(round3(v.nums[2])), Z |-> Num(round3(v.nums[3]))])
  BY DEF describe, vec3, Scalars, Texts, Others, Compound, Colors
<1>2. Edited(describe(v), Paths["Vector3"][k], n) = Obj([X |-> Num(m(1)), Y |-> Num(m(2)), Z |-> Num(m(3))])
  <2>1. CASE k = 1
    <3>1. Paths["Vector3"][k] = <<"X">>
      BY <2>1, PathsAre
    <3> QED
      BY <1>1, <2>1, <3>1, EditField
  <2>2. CASE k = 2
    <3>1. Paths["Vector3"][k] = <<"Y">>
      BY <2>2, PathsAre
    <3> QED
      BY <1>1, <2>2, <3>1, EditField
  <2>3. CASE k = 3
    <3>1. Paths["Vector3"][k] = <<"Z">>
      BY <2>3, PathsAre
    <3> QED
      BY <1>1, <2>3, <3>1, EditField
  <2> QED
    BY <2>1, <2>2, <2>3
<1>3. \A i \in 1..3 : m(i) \in Real /\ v.nums[i] \in Real
  BY ShownNear DEF Real
<1> HIDE DEF m
<1>4. /\ m(1) \in Int /\ m(2) \in Int
      /\ now = IF m(3) \in Int THEN Numbers("Vector3", <<m(1), m(2), m(3)>>)
                               ELSE Numbers("Vector2", <<m(1), m(2)>>)
  <2>1. m(1) \in Real /\ m(2) \in Real /\ m(3) \in Real
    BY <1>3
  <2>2. now \in FromJson(Obj([X |-> Num(m(1)), Y |-> Num(m(2)), Z |-> Num(m(3))]))
    BY <1>2
  <2>3. FromJson(Obj([X |-> Num(m(1)), Y |-> Num(m(2)), Z |-> Num(m(3))])) =
          IF m(1) \in Int /\ m(2) \in Int
             THEN IF m(3) \in Int THEN {Numbers("Vector3", <<m(1), m(2), m(3)>>)}
                                  ELSE {Numbers("Vector2", <<m(1), m(2)>>)}
             ELSE {}
    BY <2>1, ReadVector3
  <2> QED
    BY <2>2, <2>3
<1>5. CASE m(3) \in Int
  <2>1. now.kind = "Vector3" /\ now.nums[1] = m(1) /\ now.nums[2] = m(2) /\ now.nums[3] = m(3)
    BY <1>4, <1>5 DEF Numbers
  <2>2. \A i \in 1..3 : IF i # k THEN Near(now.nums[i], v.nums[i]) ELSE now.nums[i] = n
    BY <1>3, <2>1, ShownNear DEF m
  <2>3. Storable(now)
    BY <1>3, <1>4, <1>5, ThreeStored
  <2> QED
    BY <2>1, <2>2, <2>3 DEF KeepsTheRest, ReadAs, Scalars, Colors, Arity
<1>6. CASE m(3) \notin Int
  <2>1. k # 3 /\ v.nums[3] = Huge
    BY <1>3, <1>6, ShownNear DEF m, Real
  <2>2. \A i \in {1, 2} \ {k} : v.nums[i] # Huge
    BY <1>3, <1>4, ShownNear, VerdeValuesAssumption DEF m
  <2>3. now = Numbers("Vector2", <<m(1), m(2)>>)
    BY <1>4, <1>6
  <2>4. Storable(now) /\ now.kind = "Vector2"
    BY <1>3, <2>3, TwoStored DEF Numbers
  <2> QED
    BY <2>1, <2>2, <2>4 DEF Flattens
<1> QED
  BY <1>5, <1>6

LEMMA Vector2int16Back ==
    ASSUME NEW v, v.kind = "Vector2int16", v.nums \in [1..2 -> Int],
           NEW k \in 1..2, NEW n \in Int,
           NEW now \in FromJson(Edited(describe(v), Paths["Vector2int16"][k], n))
    PROVE  KeepsTheRest(v, k, n, now) /\ Storable(now)
<1> DEFINE m(i) == IF i = k THEN n ELSE v.nums[i]
<1>1. describe(v) = Obj([X |-> Num(v.nums[1]), Y |-> Num(v.nums[2])])
  BY DEF describe, Scalars, Texts, Others, Compound, Colors
<1>2. Edited(describe(v), Paths["Vector2int16"][k], n) = Obj([X |-> Num(m(1)), Y |-> Num(m(2))])
  <2>1. CASE k = 1
    <3>1. Paths["Vector2int16"][k] = <<"X">>
      BY <2>1, PathsAre
    <3> QED
      BY <1>1, <2>1, <3>1, EditField
  <2>2. CASE k = 2
    <3>1. Paths["Vector2int16"][k] = <<"Y">>
      BY <2>2, PathsAre
    <3> QED
      BY <1>1, <2>2, <3>1, EditField
  <2> QED
    BY <2>1, <2>2
<1>3. \A i \in 1..2 : m(i) \in Real /\ v.nums[i] \in Int
  BY ShownNear DEF Real
<1> HIDE DEF m
<1>4. now = Numbers("Vector2", <<m(1), m(2)>>)
  <2>1. m(1) \in Real /\ m(2) \in Real
    BY <1>3
  <2>2. now \in FromJson(Obj([X |-> Num(m(1)), Y |-> Num(m(2))]))
    BY <1>2
  <2>3. FromJson(Obj([X |-> Num(m(1)), Y |-> Num(m(2))])) =
          IF m(1) \in Int /\ m(2) \in Int
             THEN {Numbers("Vector2", <<m(1), m(2)>>)} ELSE {}
    BY <2>1, ReadVector2
  <2> QED
    BY <2>2, <2>3
<1>5. now.kind = "Vector2" /\ now.nums[1] = m(1) /\ now.nums[2] = m(2)
  BY <1>4 DEF Numbers
<1>6. \A i \in 1..2 : IF i # k THEN Near(now.nums[i], v.nums[i]) ELSE now.nums[i] = n
  BY <1>3, <1>5, ShownNear DEF m, Real
<1>8. Storable(now)
  BY <1>3, <1>4, TwoStored
<1> QED
  BY <1>8, <1>5, <1>6 DEF KeepsTheRest, ReadAs, Scalars, Colors, Arity

LEMMA Color3Back ==
    ASSUME NEW v, v.kind = "Color3", v.nums \in [1..3 -> 0..255],
           NEW k \in 1..3, NEW n \in Int,
           NEW now \in FromJson(Edited(describe(v), Paths["Color3"][k], n))
    PROVE  KeepsTheRest(v, k, n, now) /\ Storable(now)
<1> DEFINE m(i) == IF i = k THEN n ELSE Level * v.nums[i]
<1>1. describe(v) = Obj([R |-> Num(Level * v.nums[1]), G |-> Num(Level * v.nums[2]), B |-> Num(Level * v.nums[3])])
  BY DEF describe, color, Scalars, Texts, Others, Compound, Colors
<1>2. Edited(describe(v), Paths["Color3"][k], n) = Obj([R |-> Num(m(1)), G |-> Num(m(2)), B |-> Num(m(3))])
  <2>1. CASE k = 1
    <3>1. Paths["Color3"][k] = <<"R">>
      BY <2>1, PathsAre
    <3> QED
      BY <1>1, <2>1, <3>1, EditField
  <2>2. CASE k = 2
    <3>1. Paths["Color3"][k] = <<"G">>
      BY <2>2, PathsAre
    <3> QED
      BY <1>1, <2>2, <3>1, EditField
  <2>3. CASE k = 3
    <3>1. Paths["Color3"][k] = <<"B">>
      BY <2>3, PathsAre
    <3> QED
      BY <1>1, <2>3, <3>1, EditField
  <2> QED
    BY <2>1, <2>2, <2>3
<1>3. \A i \in 1..3 : m(i) \in Real /\ v.nums[i] \in 0..255
  BY LevelBack DEF Real
<1>4. \A i \in 1..3 : m(i) \in Int
  BY LevelBack
<1> HIDE DEF m
<1>5. now = Numbers("Color3", <<to_u8(m(1)), to_u8(m(2)), to_u8(m(3))>>)
  <2>1. m(1) \in Real /\ m(2) \in Real /\ m(3) \in Real
    BY <1>3
  <2>2. now \in FromJson(Obj([R |-> Num(m(1)), G |-> Num(m(2)), B |-> Num(m(3))]))
    BY <1>2
  <2>3. FromJson(Obj([R |-> Num(m(1)), G |-> Num(m(2)), B |-> Num(m(3))])) =
          IF m(1) \in Int /\ m(2) \in Int /\ m(3) \in Int
             THEN {Numbers("Color3", <<to_u8(m(1)), to_u8(m(2)), to_u8(m(3))>>)} ELSE {}
    BY <2>1, ReadColor3
  <2> QED
    BY <2>2, <2>3
<1>6. now.kind = "Color3" /\ \A i \in 1..3 : now.nums[i] = to_u8(m(i))
  BY <1>5 DEF Numbers
<1>7. \A i \in 1..3 : now.nums[i] = IF i = k THEN to_u8(n) ELSE v.nums[i]
  BY <1>6, LevelBack DEF m
<1>8. Storable(now)
  BY <1>4, <1>5, ColorStored
<1> QED
  BY <1>8, <1>6, <1>7 DEF KeepsTheRest, ReadAs, Scalars, Colors, Arity, Near

LEMMA Color3uint8Back ==
    ASSUME NEW v, v.kind = "Color3uint8", v.nums \in [1..3 -> 0..255],
           NEW k \in 1..3, NEW n \in Int,
           NEW now \in FromJson(Edited(describe(v), Paths["Color3uint8"][k], n))
    PROVE  KeepsTheRest(v, k, n, now) /\ Storable(now)
<1> DEFINE m(i) == IF i = k THEN n ELSE Level * v.nums[i]
<1>1. describe(v) = Obj([R |-> Num(Level * v.nums[1]), G |-> Num(Level * v.nums[2]), B |-> Num(Level * v.nums[3])])
  BY DEF describe, color, Scalars, Texts, Others, Compound, Colors
<1>2. Edited(describe(v), Paths["Color3uint8"][k], n) = Obj([R |-> Num(m(1)), G |-> Num(m(2)), B |-> Num(m(3))])
  <2>1. CASE k = 1
    <3>1. Paths["Color3uint8"][k] = <<"R">>
      BY <2>1, PathsAre
    <3> QED
      BY <1>1, <2>1, <3>1, EditField
  <2>2. CASE k = 2
    <3>1. Paths["Color3uint8"][k] = <<"G">>
      BY <2>2, PathsAre
    <3> QED
      BY <1>1, <2>2, <3>1, EditField
  <2>3. CASE k = 3
    <3>1. Paths["Color3uint8"][k] = <<"B">>
      BY <2>3, PathsAre
    <3> QED
      BY <1>1, <2>3, <3>1, EditField
  <2> QED
    BY <2>1, <2>2, <2>3
<1>3. \A i \in 1..3 : m(i) \in Real /\ v.nums[i] \in 0..255
  BY LevelBack DEF Real
<1>4. \A i \in 1..3 : m(i) \in Int
  BY LevelBack
<1> HIDE DEF m
<1>5. now = Numbers("Color3", <<to_u8(m(1)), to_u8(m(2)), to_u8(m(3))>>)
  <2>1. m(1) \in Real /\ m(2) \in Real /\ m(3) \in Real
    BY <1>3
  <2>2. now \in FromJson(Obj([R |-> Num(m(1)), G |-> Num(m(2)), B |-> Num(m(3))]))
    BY <1>2
  <2>3. FromJson(Obj([R |-> Num(m(1)), G |-> Num(m(2)), B |-> Num(m(3))])) =
          IF m(1) \in Int /\ m(2) \in Int /\ m(3) \in Int
             THEN {Numbers("Color3", <<to_u8(m(1)), to_u8(m(2)), to_u8(m(3))>>)} ELSE {}
    BY <2>1, ReadColor3
  <2> QED
    BY <2>2, <2>3
<1>6. now.kind = "Color3" /\ \A i \in 1..3 : now.nums[i] = to_u8(m(i))
  BY <1>5 DEF Numbers
<1>7. \A i \in 1..3 : now.nums[i] = IF i = k THEN to_u8(n) ELSE v.nums[i]
  BY <1>6, LevelBack DEF m
<1>8. Storable(now)
  BY <1>4, <1>5, ColorStored
<1> QED
  BY <1>8, <1>6, <1>7 DEF KeepsTheRest, ReadAs, Scalars, Colors, Arity, Near

LEMMA UDimBack ==
    ASSUME NEW v, v.kind = "UDim", v.nums \in [1..2 -> Real],
           NEW k \in 1..2, NEW n \in Int,
           NEW now \in FromJson(Edited(describe(v), Paths["UDim"][k], n))
    PROVE  KeepsTheRest(v, k, n, now) /\ Storable(now)
<1> DEFINE m(i) == IF i = k THEN n ELSE v.nums[i]
<1>1. describe(v) = Obj([Scale |-> Num(v.nums[1]), Offset |-> Num(v.nums[2])])
  BY DEF describe, udim, Scalars, Texts, Others, Compound, Colors
<1>2. Edited(describe(v), Paths["UDim"][k], n) = Obj([Scale |-> Num(m(1)), Offset |-> Num(m(2))])
  <2>1. CASE k = 1
    <3>1. Paths["UDim"][k] = <<"Scale">>
      BY <2>1, PathsAre
    <3> QED
      BY <1>1, <2>1, <3>1, EditField
  <2>2. CASE k = 2
    <3>1. Paths["UDim"][k] = <<"Offset">>
      BY <2>2, PathsAre
    <3> QED
      BY <1>1, <2>2, <3>1, EditField
  <2> QED
    BY <2>1, <2>2
<1>3. \A i \in 1..2 : m(i) \in Real /\ v.nums[i] \in Real
  BY ShownNear DEF Real
<1> HIDE DEF m
<1>4. now = Numbers("UDim", <<m(1), m(2)>>)
  <2>1. m(1) \in Real /\ m(2) \in Real
    BY <1>3
  <2>2. now \in FromJson(Obj([Scale |-> Num(m(1)), Offset |-> Num(m(2))]))
    BY <1>2
  <2>3. FromJson(Obj([Scale |-> Num(m(1)), Offset |-> Num(m(2))])) =
          IF m(1) \in Int /\ m(2) \in Int
             THEN {Numbers("UDim", <<m(1), m(2)>>)} ELSE {}
    BY <2>1, ReadUDim
  <2> QED
    BY <2>2, <2>3
<1>5. now.kind = "UDim" /\ now.nums[1] = m(1) /\ now.nums[2] = m(2)
  BY <1>4 DEF Numbers
<1>6. \A i \in 1..2 : IF i # k THEN Near(now.nums[i], v.nums[i]) ELSE now.nums[i] = n
  BY <1>3, <1>5, ShownNear DEF m
<1>8. Storable(now)
  BY <1>3, <1>4, TwoStored
<1> QED
  BY <1>8, <1>5, <1>6 DEF KeepsTheRest, ReadAs, Scalars, Colors, Arity

LEMMA NumberRangeBack ==
    ASSUME NEW v, v.kind = "NumberRange", v.nums \in [1..2 -> Real],
           NEW k \in 1..2, NEW n \in Int,
           NEW now \in FromJson(Edited(describe(v), Paths["NumberRange"][k], n))
    PROVE  KeepsTheRest(v, k, n, now) /\ Storable(now)
<1> DEFINE m(i) == IF i = k THEN n ELSE v.nums[i]
<1>1. describe(v) = Obj([Min |-> Num(v.nums[1]), Max |-> Num(v.nums[2])])
  BY DEF describe, range, Scalars, Texts, Others, Compound, Colors
<1>2. Edited(describe(v), Paths["NumberRange"][k], n) = Obj([Min |-> Num(m(1)), Max |-> Num(m(2))])
  <2>1. CASE k = 1
    <3>1. Paths["NumberRange"][k] = <<"Min">>
      BY <2>1, PathsAre
    <3> QED
      BY <1>1, <2>1, <3>1, EditField
  <2>2. CASE k = 2
    <3>1. Paths["NumberRange"][k] = <<"Max">>
      BY <2>2, PathsAre
    <3> QED
      BY <1>1, <2>2, <3>1, EditField
  <2> QED
    BY <2>1, <2>2
<1>3. \A i \in 1..2 : m(i) \in Real /\ v.nums[i] \in Real
  BY ShownNear DEF Real
<1> HIDE DEF m
<1>4. now = Numbers("NumberRange", <<m(1), m(2)>>)
  <2>1. m(1) \in Real /\ m(2) \in Real
    BY <1>3
  <2>2. now \in FromJson(Obj([Min |-> Num(m(1)), Max |-> Num(m(2))]))
    BY <1>2
  <2>3. FromJson(Obj([Min |-> Num(m(1)), Max |-> Num(m(2))])) =
          IF m(1) \in Int /\ m(2) \in Int
             THEN {Numbers("NumberRange", <<m(1), m(2)>>)} ELSE {}
    BY <2>1, ReadNumberRange
  <2> QED
    BY <2>2, <2>3
<1>5. now.kind = "NumberRange" /\ now.nums[1] = m(1) /\ now.nums[2] = m(2)
  BY <1>4 DEF Numbers
<1>6. \A i \in 1..2 : IF i # k THEN Near(now.nums[i], v.nums[i]) ELSE now.nums[i] = n
  BY <1>3, <1>5, ShownNear DEF m
<1>8. Storable(now)
  BY <1>3, <1>4, TwoStored
<1> QED
  BY <1>8, <1>5, <1>6 DEF KeepsTheRest, ReadAs, Scalars, Colors, Arity

LEMMA Vector3int16Back ==
    ASSUME NEW v, v.kind = "Vector3int16", v.nums \in [1..3 -> Int],
           NEW k \in 1..3, NEW n \in Int,
           NEW now \in FromJson(Edited(describe(v), Paths["Vector3int16"][k], n))
    PROVE  KeepsTheRest(v, k, n, now) /\ Storable(now)
<1> DEFINE m(i) == IF i = k THEN n ELSE v.nums[i]
<1>1. describe(v) = Obj([X |-> Num(v.nums[1]), Y |-> Num(v.nums[2]), Z |-> Num(v.nums[3])])
  BY DEF describe, Scalars, Texts, Others, Compound, Colors
<1>2. Edited(describe(v), Paths["Vector3int16"][k], n) = Obj([X |-> Num(m(1)), Y |-> Num(m(2)), Z |-> Num(m(3))])
  <2>1. CASE k = 1
    <3>1. Paths["Vector3int16"][k] = <<"X">>
      BY <2>1, PathsAre
    <3> QED
      BY <1>1, <2>1, <3>1, EditField
  <2>2. CASE k = 2
    <3>1. Paths["Vector3int16"][k] = <<"Y">>
      BY <2>2, PathsAre
    <3> QED
      BY <1>1, <2>2, <3>1, EditField
  <2>3. CASE k = 3
    <3>1. Paths["Vector3int16"][k] = <<"Z">>
      BY <2>3, PathsAre
    <3> QED
      BY <1>1, <2>3, <3>1, EditField
  <2> QED
    BY <2>1, <2>2, <2>3
<1>3. \A i \in 1..3 : m(i) \in Int /\ v.nums[i] \in Int
  BY ShownNear DEF Real
<1> HIDE DEF m
<1>4. now = Numbers("Vector3", <<m(1), m(2), m(3)>>)
  <2>1. /\ m(1) \in Int /\ m(2) \in Int /\ m(3) \in Int
        /\ m(1) \in Real /\ m(2) \in Real /\ m(3) \in Real
    BY <1>3 DEF Real
  <2>2. now \in FromJson(Obj([X |-> Num(m(1)), Y |-> Num(m(2)), Z |-> Num(m(3))]))
    BY <1>2
  <2>3. FromJson(Obj([X |-> Num(m(1)), Y |-> Num(m(2)), Z |-> Num(m(3))])) =
          {Numbers("Vector3", <<m(1), m(2), m(3)>>)}
    BY <2>1, ReadVector3
  <2> QED
    BY <2>2, <2>3
<1>5. now.kind = "Vector3" /\ now.nums[1] = m(1) /\ now.nums[2] = m(2) /\ now.nums[3] = m(3)
  BY <1>4 DEF Numbers
<1>6. \A i \in 1..3 : IF i # k THEN Near(now.nums[i], v.nums[i]) ELSE now.nums[i] = n
  BY <1>3, <1>5, ShownNear DEF m, Real
<1>8. Storable(now)
  BY <1>3, <1>4, ThreeStored DEF Real
<1> QED
  BY <1>8, <1>5, <1>6 DEF KeepsTheRest, ReadAs, Scalars, Colors, Arity

LEMMA UDim2Back ==
    ASSUME NEW v, v.kind = "UDim2", v.nums \in [1..4 -> Real],
           NEW k \in 1..4, NEW n \in Int,
           NEW now \in FromJson(Edited(describe(v), Paths["UDim2"][k], n))
    PROVE  KeepsTheRest(v, k, n, now) /\ Storable(now)
<1> DEFINE m(i)   == IF i = k THEN n ELSE v.nums[i]
           first  == [Scale |-> Num(v.nums[1]), Offset |-> Num(v.nums[2])]
           second == [Scale |-> Num(v.nums[3]), Offset |-> Num(v.nums[4])]
           fields == [X |-> Obj(first), Y |-> Obj(second)]
           shown  == Obj([X |-> Obj([Scale |-> Num(m(1)), Offset |-> Num(m(2))]),
                           Y |-> Obj([Scale |-> Num(m(3)), Offset |-> Num(m(4))])])
<1>1. describe(v) = Obj(fields)
  BY DEF describe, udim, Scalars, Texts, Others, Compound, Colors
<1>2. Edited(describe(v), Paths["UDim2"][k], n) = shown
  <2>1. CASE k = 1
    <3>1. Paths["UDim2"][k] = <<"X", "Scale">>
      BY <2>1, PathsAre
    <3>2. fields["X"] = Obj(first)
      OBVIOUS
    <3>3. Edited(Obj(fields), <<"X", "Scale">>, n)
            = Obj([fields EXCEPT !["X"] = Obj([first EXCEPT !["Scale"] = Num(n)])])
      BY <3>2, EditInner
    <3>4. Obj([fields EXCEPT !["X"] = Obj([first EXCEPT !["Scale"] = Num(n)])])
            = Obj([X |-> Obj([Scale |-> Num(m(1)), Offset |-> Num(m(2))]),
                    Y |-> Obj([Scale |-> Num(m(3)), Offset |-> Num(m(4))])])
      BY <2>1
    <3> QED
      BY <1>1, <3>1, <3>3, <3>4
  <2>2. CASE k = 2
    <3>1. Paths["UDim2"][k] = <<"X", "Offset">>
      BY <2>2, PathsAre
    <3>2. fields["X"] = Obj(first)
      OBVIOUS
    <3>3. Edited(Obj(fields), <<"X", "Offset">>, n)
            = Obj([fields EXCEPT !["X"] = Obj([first EXCEPT !["Offset"] = Num(n)])])
      BY <3>2, EditInner
    <3>4. Obj([fields EXCEPT !["X"] = Obj([first EXCEPT !["Offset"] = Num(n)])])
            = Obj([X |-> Obj([Scale |-> Num(m(1)), Offset |-> Num(m(2))]),
                    Y |-> Obj([Scale |-> Num(m(3)), Offset |-> Num(m(4))])])
      BY <2>2
    <3> QED
      BY <1>1, <3>1, <3>3, <3>4
  <2>3. CASE k = 3
    <3>1. Paths["UDim2"][k] = <<"Y", "Scale">>
      BY <2>3, PathsAre
    <3>2. fields["Y"] = Obj(second)
      OBVIOUS
    <3>3. Edited(Obj(fields), <<"Y", "Scale">>, n)
            = Obj([fields EXCEPT !["Y"] = Obj([second EXCEPT !["Scale"] = Num(n)])])
      BY <3>2, EditInner
    <3>4. Obj([fields EXCEPT !["Y"] = Obj([second EXCEPT !["Scale"] = Num(n)])])
            = Obj([X |-> Obj([Scale |-> Num(m(1)), Offset |-> Num(m(2))]),
                    Y |-> Obj([Scale |-> Num(m(3)), Offset |-> Num(m(4))])])
      BY <2>3
    <3> QED
      BY <1>1, <3>1, <3>3, <3>4
  <2>4. CASE k = 4
    <3>1. Paths["UDim2"][k] = <<"Y", "Offset">>
      BY <2>4, PathsAre
    <3>2. fields["Y"] = Obj(second)
      OBVIOUS
    <3>3. Edited(Obj(fields), <<"Y", "Offset">>, n)
            = Obj([fields EXCEPT !["Y"] = Obj([second EXCEPT !["Offset"] = Num(n)])])
      BY <3>2, EditInner
    <3>4. Obj([fields EXCEPT !["Y"] = Obj([second EXCEPT !["Offset"] = Num(n)])])
            = Obj([X |-> Obj([Scale |-> Num(m(1)), Offset |-> Num(m(2))]),
                    Y |-> Obj([Scale |-> Num(m(3)), Offset |-> Num(m(4))])])
      BY <2>4
    <3> QED
      BY <1>1, <3>1, <3>3, <3>4
  <2> QED
    BY <2>1, <2>2, <2>3, <2>4
<1>3. \A i \in 1..4 : m(i) \in Real /\ v.nums[i] \in Real
  BY ShownNear DEF Real
<1> HIDE DEF m
<1>4. now = Numbers("UDim2", <<m(1), m(2), m(3), m(4)>>)
  <2>1. m(1) \in Real /\ m(2) \in Real /\ m(3) \in Real /\ m(4) \in Real
    BY <1>3
  <2>2. now \in FromJson(shown)
    BY <1>2
  <2>3. FromJson(shown) =
          IF m(1) \in Int /\ m(2) \in Int /\ m(3) \in Int /\ m(4) \in Int
             THEN {Numbers("UDim2", <<m(1), m(2), m(3), m(4)>>)} ELSE {}
    BY <2>1, ReadUDim2
  <2> QED
    BY <2>2, <2>3
<1>5. now.kind = "UDim2" /\ now.nums[1] = m(1) /\ now.nums[2] = m(2)
                    /\ now.nums[3] = m(3) /\ now.nums[4] = m(4)
  BY <1>4 DEF Numbers
<1>6. \A i \in 1..4 : IF i # k THEN Near(now.nums[i], v.nums[i]) ELSE now.nums[i] = n
  BY <1>3, <1>5, ShownNear DEF m
<1>8. Storable(now)
  BY <1>3, <1>4, FourStored
<1> QED
  BY <1>8, <1>5, <1>6 DEF KeepsTheRest, ReadAs, Scalars, Colors, Arity

LEMMA RectBack ==
    ASSUME NEW v, v.kind = "Rect", v.nums \in [1..4 -> Real],
           NEW k \in 1..4, NEW n \in Int,
           NEW now \in FromJson(Edited(describe(v), Paths["Rect"][k], n))
    PROVE  KeepsTheRest(v, k, n, now) /\ Storable(now)
<1> DEFINE m(i)   == IF i = k THEN n ELSE round3(v.nums[i])
           first  == [X |-> Num(round3(v.nums[1])), Y |-> Num(round3(v.nums[2]))]
           second == [X |-> Num(round3(v.nums[3])), Y |-> Num(round3(v.nums[4]))]
           fields == [Min |-> Obj(first), Max |-> Obj(second)]
           shown  == Obj([Min |-> Obj([X |-> Num(m(1)), Y |-> Num(m(2))]),
                           Max |-> Obj([X |-> Num(m(3)), Y |-> Num(m(4))])])
<1>1. describe(v) = Obj(fields)
  BY DEF describe, vec2, Scalars, Texts, Others, Compound, Colors
<1>2. Edited(describe(v), Paths["Rect"][k], n) = shown
  <2>1. CASE k = 1
    <3>1. Paths["Rect"][k] = <<"Min", "X">>
      BY <2>1, PathsAre
    <3>2. fields["Min"] = Obj(first)
      OBVIOUS
    <3>3. Edited(Obj(fields), <<"Min", "X">>, n)
            = Obj([fields EXCEPT !["Min"] = Obj([first EXCEPT !["X"] = Num(n)])])
      BY <3>2, EditInner
    <3>4. Obj([fields EXCEPT !["Min"] = Obj([first EXCEPT !["X"] = Num(n)])])
            = Obj([Min |-> Obj([X |-> Num(m(1)), Y |-> Num(m(2))]),
                    Max |-> Obj([X |-> Num(m(3)), Y |-> Num(m(4))])])
      BY <2>1
    <3> QED
      BY <1>1, <3>1, <3>3, <3>4
  <2>2. CASE k = 2
    <3>1. Paths["Rect"][k] = <<"Min", "Y">>
      BY <2>2, PathsAre
    <3>2. fields["Min"] = Obj(first)
      OBVIOUS
    <3>3. Edited(Obj(fields), <<"Min", "Y">>, n)
            = Obj([fields EXCEPT !["Min"] = Obj([first EXCEPT !["Y"] = Num(n)])])
      BY <3>2, EditInner
    <3>4. Obj([fields EXCEPT !["Min"] = Obj([first EXCEPT !["Y"] = Num(n)])])
            = Obj([Min |-> Obj([X |-> Num(m(1)), Y |-> Num(m(2))]),
                    Max |-> Obj([X |-> Num(m(3)), Y |-> Num(m(4))])])
      BY <2>2
    <3> QED
      BY <1>1, <3>1, <3>3, <3>4
  <2>3. CASE k = 3
    <3>1. Paths["Rect"][k] = <<"Max", "X">>
      BY <2>3, PathsAre
    <3>2. fields["Max"] = Obj(second)
      OBVIOUS
    <3>3. Edited(Obj(fields), <<"Max", "X">>, n)
            = Obj([fields EXCEPT !["Max"] = Obj([second EXCEPT !["X"] = Num(n)])])
      BY <3>2, EditInner
    <3>4. Obj([fields EXCEPT !["Max"] = Obj([second EXCEPT !["X"] = Num(n)])])
            = Obj([Min |-> Obj([X |-> Num(m(1)), Y |-> Num(m(2))]),
                    Max |-> Obj([X |-> Num(m(3)), Y |-> Num(m(4))])])
      BY <2>3
    <3> QED
      BY <1>1, <3>1, <3>3, <3>4
  <2>4. CASE k = 4
    <3>1. Paths["Rect"][k] = <<"Max", "Y">>
      BY <2>4, PathsAre
    <3>2. fields["Max"] = Obj(second)
      OBVIOUS
    <3>3. Edited(Obj(fields), <<"Max", "Y">>, n)
            = Obj([fields EXCEPT !["Max"] = Obj([second EXCEPT !["Y"] = Num(n)])])
      BY <3>2, EditInner
    <3>4. Obj([fields EXCEPT !["Max"] = Obj([second EXCEPT !["Y"] = Num(n)])])
            = Obj([Min |-> Obj([X |-> Num(m(1)), Y |-> Num(m(2))]),
                    Max |-> Obj([X |-> Num(m(3)), Y |-> Num(m(4))])])
      BY <2>4
    <3> QED
      BY <1>1, <3>1, <3>3, <3>4
  <2> QED
    BY <2>1, <2>2, <2>3, <2>4
<1>3. \A i \in 1..4 : m(i) \in Real /\ v.nums[i] \in Real
  BY ShownNear DEF Real
<1> HIDE DEF m
<1>4. now = Numbers("Rect", <<m(1), m(2), m(3), m(4)>>)
  <2>1. m(1) \in Real /\ m(2) \in Real /\ m(3) \in Real /\ m(4) \in Real
    BY <1>3
  <2>2. now \in FromJson(shown)
    BY <1>2
  <2>3. FromJson(shown) =
          IF m(1) \in Int /\ m(2) \in Int /\ m(3) \in Int /\ m(4) \in Int
             THEN {Numbers("Rect", <<m(1), m(2), m(3), m(4)>>)} ELSE {}
    BY <2>1, ReadRect
  <2> QED
    BY <2>2, <2>3
<1>5. now.kind = "Rect" /\ now.nums[1] = m(1) /\ now.nums[2] = m(2)
                    /\ now.nums[3] = m(3) /\ now.nums[4] = m(4)
  BY <1>4 DEF Numbers
<1>6. \A i \in 1..4 : IF i # k THEN Near(now.nums[i], v.nums[i]) ELSE now.nums[i] = n
  BY <1>3, <1>5, ShownNear DEF m
<1>8. Storable(now)
  BY <1>3, <1>4, FourStored
<1> QED
  BY <1>8, <1>5, <1>6 DEF KeepsTheRest, ReadAs, Scalars, Colors, Arity

-----------------------------------------------------------------------------
(***************************************************************************)
(* All kinds.                                                              *)
(***************************************************************************)
\* What is known of the numbers of a value whose numbers can be edited one by one.
LEMMA NumbersOf ==
    ASSUME NEW v, IsDomValue(v), v.kind \in DOMAIN Paths
    PROVE  v.nums \in [1..Arity[v.kind] -> Component(v.kind)]
<1>1. v.kind \notin {"Bool"} \cup Texts \cup Compound \cup Others
  BY DEF Paths, Texts, Compound, Others
<1>2. v.kind # "Bool" /\ v.kind \notin Texts \cup Compound \cup Others
  BY <1>1
<1>3. PICK kind \in DOMAIN Arity : v \in [kind : {kind}, nums : [1..Arity[kind] -> Component(kind)]]
  BY <1>2 DEF IsDomValue
<1>4. v.kind = kind /\ v.nums \in [1..Arity[kind] -> Component(kind)]
  BY <1>3
<1> QED
  BY <1>4

\* A number of any value that is shown to Verde - and Verde shows as numbers those that Paths
\* names - is set in the JSON it was shown as: what the shapes make of the JSON, if anything, is
\* that value with that number, the others as near as they were shown (describe and RawValue,
\* translate.rs).  The exception is a Vector3 that is not finite along Z.
THEOREM EditsRoundTrip ==
    ASSUME NEW v, IsDomValue(v), v.kind \in DOMAIN Paths,
           NEW k \in 1..Arity[v.kind], NEW n \in Int,
           NEW now \in FromJson(Edited(describe(v), Paths[v.kind][k], n))
    PROVE  /\ KeepsTheRest(v, k, n, now) \/ (Flattens(v, k) /\ now.kind = "Vector2")
           /\ Storable(now)
<1>1. v.nums \in [1..Arity[v.kind] -> Component(v.kind)]
  BY NumbersOf
<1>2. v.kind \in Scalars \cup {"Vector2", "Vector3", "Vector2int16", "Vector3int16", "Color3", "Color3uint8", "UDim", "NumberRange", "UDim2", "Rect"}
  BY DEF Paths, Scalars
<1>3. CASE v.kind \in Scalars
  <2>1. Arity[v.kind] = 1
    BY <1>3 DEF Scalars, Arity
  <2>2. k = 1
    BY <2>1
  <2>3. Paths[v.kind] = << <<>> >>
    BY <1>3, PathsAre
  <2>4. Paths[v.kind][k] = <<>>
    BY <2>2, <2>3
  <2> QED
    BY <1>3, <2>2, <2>4, ScalarBack
<1>4. CASE v.kind = "Vector2"
  <2>1. Arity[v.kind] = 2
    BY <1>4 DEF Arity
  <2>2. k \in 1..2 /\ v.nums \in [1..2 -> Real]
    BY <1>1, <2>1, <1>4 DEF Component, Colors, Whole, One
  <2> QED
    BY <2>2, <1>4, Vector2Back
<1>5. CASE v.kind = "Vector3"
  <2>1. Arity[v.kind] = 3
    BY <1>5 DEF Arity
  <2>2. k \in 1..3 /\ v.nums \in [1..3 -> Real]
    BY <1>1, <2>1, <1>5 DEF Component, Colors, Whole, One
  <2> QED
    BY <2>2, <1>5, Vector3Back
<1>6. CASE v.kind = "Vector2int16"
  <2>1. Arity[v.kind] = 2
    BY <1>6 DEF Arity
  <2>2. k \in 1..2 /\ v.nums \in [1..2 -> Int]
    BY <1>1, <2>1, <1>6 DEF Component, Colors, Whole, One
  <2> QED
    BY <2>2, <1>6, Vector2int16Back
<1>7. CASE v.kind = "Vector3int16"
  <2>1. Arity[v.kind] = 3
    BY <1>7 DEF Arity
  <2>2. k \in 1..3 /\ v.nums \in [1..3 -> Int]
    BY <1>1, <2>1, <1>7 DEF Component, Colors, Whole, One
  <2> QED
    BY <2>2, <1>7, Vector3int16Back
<1>8. CASE v.kind = "Color3"
  <2>1. Arity[v.kind] = 3
    BY <1>8 DEF Arity
  <2>2. k \in 1..3 /\ v.nums \in [1..3 -> 0..255]
    BY <1>1, <2>1, <1>8 DEF Component, Colors, Whole, One
  <2> QED
    BY <2>2, <1>8, Color3Back
<1>9. CASE v.kind = "Color3uint8"
  <2>1. Arity[v.kind] = 3
    BY <1>9 DEF Arity
  <2>2. k \in 1..3 /\ v.nums \in [1..3 -> 0..255]
    BY <1>1, <2>1, <1>9 DEF Component, Colors, Whole, One
  <2> QED
    BY <2>2, <1>9, Color3uint8Back
<1>10. CASE v.kind = "UDim"
  <2>1. Arity[v.kind] = 2
    BY <1>10 DEF Arity
  <2>2. k \in 1..2 /\ v.nums \in [1..2 -> Real]
    BY <1>1, <2>1, <1>10 DEF Component, Colors, Whole, One
  <2> QED
    BY <2>2, <1>10, UDimBack
<1>11. CASE v.kind = "NumberRange"
  <2>1. Arity[v.kind] = 2
    BY <1>11 DEF Arity
  <2>2. k \in 1..2 /\ v.nums \in [1..2 -> Real]
    BY <1>1, <2>1, <1>11 DEF Component, Colors, Whole, One
  <2> QED
    BY <2>2, <1>11, NumberRangeBack
<1>12. CASE v.kind = "UDim2"
  <2>1. Arity[v.kind] = 4
    BY <1>12 DEF Arity
  <2>2. k \in 1..4 /\ v.nums \in [1..4 -> Real]
    BY <1>1, <2>1, <1>12 DEF Component, Colors, Whole, One
  <2> QED
    BY <2>2, <1>12, UDim2Back
<1>13. CASE v.kind = "Rect"
  <2>1. Arity[v.kind] = 4
    BY <1>13 DEF Arity
  <2>2. k \in 1..4 /\ v.nums \in [1..4 -> Real]
    BY <1>1, <2>1, <1>13 DEF Component, Colors, Whole, One
  <2> QED
    BY <2>2, <1>13, RectBack
<1> QED
  BY <1>2, <1>3, <1>4, <1>5, <1>6, <1>7, <1>8, <1>9, <1>10, <1>11, <1>12, <1>13

(***************************************************************************)
(* The inductive invariant.  The property list is made when Verde asks; it *)
(* travels with the request, bounds the answer, and the answer waits with  *)
(* its task until it is rendered.                                          *)
(***************************************************************************)
IsSequence(s) == s \in Seq(ToSet(s))

\* The operations whose property list the broker made, and that list.
Covered(t) == t \in DOMAIN tasks /\ tasks[t].known /\ Class[tasks[t].node] \in DOMAIN Dump
Allowed(t) == class_properties(Class[tasks[t].node], tasks[t].level)

IsAnswer(m) == "result" \in DOMAIN m

Typed ==
    /\ asked \in Nat /\ level \in Levels
    /\ \A t \in DOMAIN tasks : /\ tasks[t].level \in Levels
                              /\ DOMAIN tasks[t] = {"node", "known", "level", "lost", "result"}
    /\ IsSequence(inbox) /\ IsSequence(wire)

\* The number of the next operation is on no message.
Numbered ==
    /\ \A m \in ToSet(inbox) : m.id \in 1..asked
    /\ \A m \in ToSet(wire) : IsAnswer(m) => m.id \in 1..asked

AsksWithin ==
    \A m \in ToSet(inbox) :
      m.op.type = "GetProperties" /\ Covered(m.id) => m.op.properties = Allowed(m.id)

AnswersWithin ==
    \A m \in ToSet(wire) :
      IsAnswer(m) /\ m.result.type = "Reads" /\ Covered(m.id)
        => DOMAIN m.result.props \subseteq Allowed(m.id)

ResultsWithin ==
    \A t \in DOMAIN tasks :
      tasks[t].result # <<>> /\ tasks[t].result[1].type = "Reads" /\ Covered(t)
        => DOMAIN tasks[t].result[1].props \subseteq Allowed(t)

IInv == Typed /\ Numbered /\ AsksWithin /\ AnswersWithin /\ ResultsWithin /\ WithinThreshold

(***************************************************************************)
(* Lemmas.                                                                 *)
(***************************************************************************)
LEMMA EmptyIs == IsSequence(<<>>) /\ ToSet(<<>>) = {}
BY DEF IsSequence, ToSet

LEMMA OneIs ==
    ASSUME NEW e
    PROVE  IsSequence(<<e>>) /\ ToSet(<<e>>) = {e}
BY DEF IsSequence, ToSet

LEMMA ItselfIs ==
    ASSUME NEW S, NEW s \in Seq(S)
    PROVE  IsSequence(s)
<1> DEFINE T == ToSet(s)
<1>1. \A k \in 1..Len(s) : s[k] \in T
  BY DEF ToSet
<1> HIDE DEF T
<1>2. s \in Seq(T)
  BY <1>1
<1> QED
  BY <1>2 DEF T, IsSequence

LEMMA AppendIs ==
    ASSUME NEW s, IsSequence(s), NEW e
    PROVE  IsSequence(Append(s, e)) /\ ToSet(Append(s, e)) = ToSet(s) \cup {e}
<1> DEFINE S == ToSet(s)
<1>1. s \in Seq(S) /\ s \in Seq(S \cup {e})
  BY DEF IsSequence
<1>2. \A x : x \in S <=> \E k \in 1..Len(s) : s[k] = x
  BY <1>1 DEF ToSet
<1> HIDE DEF S
<1>3. /\ Append(s, e) \in Seq(S \cup {e}) /\ Len(Append(s, e)) = Len(s) + 1
      /\ \A k \in 1..Len(s) : Append(s, e)[k] = s[k]
      /\ Append(s, e)[Len(s) + 1] = e /\ Len(s) \in Nat
  BY <1>1
<1>4. DOMAIN Append(s, e) = 1..(Len(s) + 1)
  BY <1>3
<1>5. ToSet(Append(s, e)) = S \cup {e}
  <2>1. \A x : x \in ToSet(Append(s, e)) <=> \E k \in 1..(Len(s) + 1) : Append(s, e)[k] = x
    BY <1>4 DEF ToSet
  <2>2. \A k \in 1..(Len(s) + 1) : k \in 1..Len(s) \/ k = Len(s) + 1
    BY <1>3
  <2>3. 1..Len(s) \subseteq 1..(Len(s) + 1) /\ Len(s) + 1 \in 1..(Len(s) + 1)
    BY <1>3
  <2> QED
    BY <1>2, <1>3, <2>1, <2>2, <2>3
<1> QED
  BY <1>3, <1>5 DEF S, IsSequence

LEMMA ConcatIs ==
    ASSUME NEW s, IsSequence(s), NEW r, IsSequence(r)
    PROVE  IsSequence(s \o r) /\ ToSet(s \o r) = ToSet(s) \cup ToSet(r)
<1> DEFINE S == ToSet(s)
           R == ToSet(r)
<1>1. s \in Seq(S) /\ s \in Seq(S \cup R) /\ r \in Seq(R) /\ r \in Seq(S \cup R)
  BY DEF IsSequence
<1>2. /\ \A x : x \in S <=> \E k \in 1..Len(s) : s[k] = x
      /\ \A x : x \in R <=> \E k \in 1..Len(r) : r[k] = x
  BY <1>1 DEF ToSet
<1> HIDE DEF S, R
<1>3. /\ s \o r \in Seq(S \cup R) /\ Len(s \o r) = Len(s) + Len(r)
      /\ Len(s) \in Nat /\ Len(r) \in Nat
      /\ \A k \in 1..(Len(s) + Len(r)) : (s \o r)[k] = IF k <= Len(s) THEN s[k] ELSE r[k - Len(s)]
  BY <1>1
<1>4. DOMAIN (s \o r) = 1..(Len(s) + Len(r))
  BY <1>3
<1>5. \A x : x \in ToSet(s \o r) <=> \E k \in 1..(Len(s) + Len(r)) : (s \o r)[k] = x
  BY <1>4 DEF ToSet
<1>6. ToSet(s \o r) \subseteq S \cup R
  <2>1. SUFFICES ASSUME NEW k \in 1..(Len(s) + Len(r)) PROVE (s \o r)[k] \in S \cup R
    BY <1>5
  <2>2. CASE k <= Len(s)
    BY <1>2, <1>3, <2>2
  <2>3. CASE ~ k <= Len(s)
    <3>1. k - Len(s) \in 1..Len(r)
      BY <1>3, <2>3
    <3> QED
      BY <1>2, <1>3, <2>3, <3>1
  <2> QED
    BY <2>2, <2>3
<1>7. S \subseteq ToSet(s \o r)
  <2>1. SUFFICES ASSUME NEW k \in 1..Len(s) PROVE s[k] \in ToSet(s \o r)
    BY <1>2
  <2>2. k \in 1..(Len(s) + Len(r)) /\ (s \o r)[k] = s[k]
    BY <1>3
  <2> QED
    BY <1>5, <2>2
<1>8. R \subseteq ToSet(s \o r)
  <2>1. SUFFICES ASSUME NEW k \in 1..Len(r) PROVE r[k] \in ToSet(s \o r)
    BY <1>2
  <2>2. Len(s) + k \in 1..(Len(s) + Len(r)) /\ (s \o r)[Len(s) + k] = r[k]
    BY <1>3
  <2> QED
    BY <1>5, <2>2
<1> QED
  BY <1>3, <1>6, <1>7, <1>8 DEF S, R, IsSequence

LEMMA TailIs ==
    ASSUME NEW s, IsSequence(s), s # <<>>
    PROVE  IsSequence(Tail(s)) /\ ToSet(Tail(s)) \subseteq ToSet(s) /\ Head(s) \in ToSet(s)
<1> DEFINE S == ToSet(s)
<1>1. s \in Seq(S)
  BY DEF IsSequence
<1>2. \A k \in 1..Len(s) : s[k] \in S
  BY <1>1 DEF ToSet
<1> HIDE DEF S
<1>3. /\ Tail(s) \in Seq(S) /\ Len(Tail(s)) = Len(s) - 1 /\ Len(s) \in Nat /\ Len(s) >= 1
      /\ \A k \in 1..(Len(s) - 1) : Tail(s)[k] = s[k + 1]
      /\ Head(s) = s[1]
  BY <1>1
<1>4. DOMAIN Tail(s) = 1..(Len(s) - 1)
  BY <1>3
<1>5. ToSet(Tail(s)) \subseteq S
  <2>1. \A k \in 1..(Len(s) - 1) : k + 1 \in 1..Len(s)
    BY <1>3
  <2> QED
    BY <1>2, <1>3, <1>4, <2>1 DEF ToSet
<1>6. Tail(s) \in Seq(ToSet(Tail(s)))
  BY <1>3, ItselfIs DEF IsSequence
<1> QED
  BY <1>2, <1>3, <1>5, <1>6 DEF S, IsSequence

\* What is put on the wire ahead of an answer is patches.
ArePatches(frames) ==
    IsSequence(frames) /\ \A m \in ToSet(frames) : ~ IsAnswer(m) /\ "upserts" \in DOMAIN m

LEMMA PatchIs ==
    ASSUME NEW ups, NEW gone
    PROVE  ArePatches(<<Patch(ups, gone)>>)
<1>1. "result" \notin DOMAIN Patch(ups, gone) /\ "upserts" \in DOMAIN Patch(ups, gone)
  BY DEF Patch
<1> QED
  BY <1>1, OneIs DEF ArePatches, IsAnswer

LEMMA NonePatched == ArePatches(<<>>)
  BY EmptyIs DEF ArePatches

LEMMA BothPatched ==
    ASSUME NEW f, NEW g, ArePatches(f), ArePatches(g)
    PROVE  ArePatches(f \o g)
  BY ConcatIs DEF ArePatches

LEMMA MirrorFrames ==
    ASSUME NEW tree, NEW known, NEW S
    PROVE  ArePatches(MirrorAll(tree, known, S).frames)
<1>1. CASE S = {}
  <2>1. MirrorAll(tree, known, S).frames = <<>>
    BY <1>1 DEF MirrorAll
  <2> QED
    BY <2>1, NonePatched
<1>2. CASE S # {}
  <2>1. \E ups : MirrorAll(tree, known, S).frames = <<Patch(ups, {})>>
    BY <1>2 DEF MirrorAll
  <2> QED
    BY <2>1, PatchIs
<1> QED
  BY <1>1, <1>2

LEMMA PrunedFrames ==
    ASSUME NEW known, NEW leaving
    PROVE  ArePatches(Pruned(known, leaving).frames)
<1> DEFINE gone == UNION {Under(known, i) : i \in leaving \cap DOMAIN known}
<1>1. Pruned(known, leaving).frames = IF gone = {} THEN <<>> ELSE <<Patch(Empty, gone)>>
  BY DEF Pruned
<1> HIDE DEF gone
<1> QED
  BY <1>1, NonePatched, PatchIs

(***************************************************************************)
(* The steps.                                                              *)
(***************************************************************************)
\* Nothing is asked, answered or shown.
LEMMA Quiet ==
    ASSUME IInv, IsSequence(inbox'), ToSet(inbox)' \subseteq ToSet(inbox), IsSequence(wire'),
           \A m \in ToSet(wire)' : IsAnswer(m) => m \in ToSet(wire),
           asked' \in Nat, asked' >= asked, level' \in Levels, UNCHANGED <<tasks, view>>
    PROVE  IInv'
<1>1. Typed'
  BY DEF IInv, Typed, IsSequence
<1>2. 1..asked \subseteq 1..asked'
  BY DEF IInv, Typed
<1>3. \A t : Covered(t)' = Covered(t) /\ Allowed(t)' = Allowed(t)
  BY DEF Covered, Allowed
<1>4. Numbered'
  BY <1>2 DEF IInv, Numbered, IsAnswer
<1>5. AsksWithin' /\ AnswersWithin' /\ ResultsWithin'
  BY <1>3 DEF IInv, AsksWithin, AnswersWithin, ResultsWithin, IsAnswer
<1>6. WithinThreshold'
  BY DEF IInv, WithinThreshold
<1> QED
  BY <1>1, <1>4, <1>5, <1>6 DEF IInv

\* Patches are sent.
LEMMA Sent ==
    ASSUME IInv, NEW frames, ArePatches(frames), wire' = wire \o frames,
           UNCHANGED inbox, asked' \in Nat, asked' >= asked, UNCHANGED <<level, tasks, view>>
    PROVE  IInv'
<1>1. IsSequence(wire') /\ \A m \in ToSet(wire)' : IsAnswer(m) => m \in ToSet(wire)
  BY ConcatIs DEF IInv, Typed, ArePatches
<1>2. IsSequence(inbox') /\ ToSet(inbox)' \subseteq ToSet(inbox) /\ level' \in Levels
  BY DEF IInv, Typed
<1> QED
  BY <1>1, <1>2, Quiet

\* The client answers the next operation.
LEMMA Answered ==
    ASSUME IInv, inbox # <<>>, NEW known, NEW frames, ArePatches(frames), NEW result,
           Apply(known, frames, result),
           result.type = "Reads" =>
             /\ Todo.type = "GetProperties"
             /\ Todo.properties # {} => DOMAIN result.props \subseteq Todo.properties
    PROVE  IInv'
<1> DEFINE answer == [id |-> Head(inbox).id, result |-> result]
<1>1. /\ inbox' = Tail(inbox) /\ wire' = (wire \o frames) \o <<answer>>
      /\ UNCHANGED <<asked, level, tasks, view>>
  BY DEF Apply, brokerVars, verdeVars
<1>2. /\ IsSequence(inbox') /\ ToSet(inbox)' \subseteq ToSet(inbox) /\ Head(inbox) \in ToSet(inbox)
  BY <1>1, TailIs DEF IInv, Typed
<1>3. /\ IsSequence(wire') /\ ToSet(wire)' = ToSet(wire) \cup ToSet(frames) \cup {answer}
  <2>1. IsSequence(wire \o frames) /\ ToSet(wire \o frames) = ToSet(wire) \cup ToSet(frames)
    BY ConcatIs DEF IInv, Typed, ArePatches
  <2>2. IsSequence((wire \o frames) \o <<answer>>)
        /\ ToSet((wire \o frames) \o <<answer>>) = ToSet(wire \o frames) \cup {answer}
    BY <2>1, OneIs, ConcatIs
  <2> QED
    BY <1>1, <2>1, <2>2
<1>4. \A m \in ToSet(wire)' : IsAnswer(m) => m \in ToSet(wire) \/ m = answer
  BY <1>3 DEF ArePatches
<1>5. Typed'
  BY <1>1, <1>2, <1>3 DEF IInv, Typed, IsSequence
<1>6. \A t : Covered(t)' = Covered(t) /\ Allowed(t)' = Allowed(t)
  BY <1>1 DEF Covered, Allowed
<1>7. Numbered'
  <2>1. answer.id \in 1..asked
    BY <1>2 DEF IInv, Numbered
  <2> HIDE DEF answer
  <2> QED
    BY <1>1, <1>2, <1>4, <2>1 DEF IInv, Numbered, IsAnswer
<1>8. AsksWithin'
  BY <1>2, <1>6 DEF IInv, AsksWithin
<1>9. AnswersWithin'
  <2>1. ASSUME result.type = "Reads", Covered(Head(inbox).id)
        PROVE  DOMAIN result.props \subseteq Allowed(Head(inbox).id)
    <3>1. Todo.properties = Allowed(Head(inbox).id)
      BY <1>2, <2>1 DEF IInv, AsksWithin, Todo
    <3>2. Allowed(Head(inbox).id) # {}
      BY <2>1, VerdeOpsAssumption DEF IInv, Typed, Covered, Allowed
    <3> QED
      BY <2>1, <3>1, <3>2
  <2>2. answer.id = Head(inbox).id /\ answer.result = result
    OBVIOUS
  <2> HIDE DEF answer
  <2> QED
    BY <1>4, <1>6, <2>1, <2>2 DEF IInv, AnswersWithin, IsAnswer
<1>10. ResultsWithin' /\ WithinThreshold'
  BY <1>1, <1>6 DEF IInv, ResultsWithin, WithinThreshold
<1> QED
  BY <1>5, <1>7, <1>8, <1>9, <1>10 DEF IInv

\* The answer is not a read.
LEMMA AnsweredOtherwise ==
    ASSUME IInv, inbox # <<>>, NEW known, NEW frames, ArePatches(frames), NEW result,
           Apply(known, frames, result), result.type # "Reads"
    PROVE  IInv'
  BY Answered

LEMMA NoReads == Ok.type # "Reads" /\ Output.type # "Reads" /\ \A code : Err(code).type # "Reads"
  BY DEF Ok, Output, Err

LEMMA RefuseStep ==
    ASSUME IInv, inbox # <<>>, NEW code, Refuse(code)
    PROVE  IInv'
  BY AnsweredOtherwise, NonePatched, NoReads DEF Refuse

\* A read is sent as it is.
LEMMA Lowered ==
    ASSUME NEW raw, NEW op \in lower_operation(raw), op.type = "GetProperties"
    PROVE  raw.type = "GetProperties" /\ op = raw
<1>1. CASE raw.type = "set_property"
  BY <1>1 DEF lower_operation
<1>2. CASE raw.type = "set_attribute"
  BY <1>2 DEF lower_operation
<1>3. CASE raw.type = "add_attribute"
  BY <1>3 DEF lower_operation
<1>4. CASE raw.type \notin {"set_property", "set_attribute", "add_attribute"}
  BY <1>4 DEF lower_operation
<1> QED
  BY <1>1, <1>2, <1>3, <1>4

LEMMA RunStep ==
    ASSUME IInv, NEW raw, RunOperation(raw),
           raw.type = "GetProperties" =>
             \E i : raw = [type |-> "GetProperties", node |-> i, properties |-> {}]
    PROVE  IInv'
<1>1. /\ asked' = asked + 1 /\ UNCHANGED <<wire, level, view>>
      /\ asked' \in Nat /\ asked' >= asked /\ level' \in Levels
  BY DEF RunOperation, IInv, Typed, verdeVars
<1>2. CASE lower_operation(raw) = {}
  <2>1. UNCHANGED <<tasks, inbox>>
    BY <1>2 DEF RunOperation
  <2> QED
    BY <1>1, <2>1, Quiet DEF IInv, Typed
<1>3. CASE lower_operation(raw) # {}
  <2>0. PICK t0 \in Nat : t0 = asked + 1
    BY DEF IInv, Typed
  <2>1. PICK op \in lower_operation(raw) :
          /\ inbox' = Append(inbox, [id |-> asked + 1, op |-> Resolve(op)])
          /\ tasks' = Put(tasks, asked + 1,
                          [node |-> op.node, known |-> op.node \in DOMAIN mirror,
                           level |-> level, lost |-> {}, result |-> <<>>])
    BY <1>3 DEF RunOperation
  <2> DEFINE request == [id |-> t0, op |-> Resolve(op)]
             task    == [node |-> op.node, known |-> op.node \in DOMAIN mirror,
                         level |-> level, lost |-> {}, result |-> <<>>]
  <2>2. IsSequence(inbox') /\ ToSet(inbox)' = ToSet(inbox) \cup {request}
    BY <2>0, <2>1, AppendIs DEF IInv, Typed
  <2>3. /\ DOMAIN tasks' = DOMAIN tasks \cup {t0}
        /\ \A t \in DOMAIN tasks' : tasks'[t] = IF t = t0 THEN task ELSE tasks[t]
    BY <2>0, <2>1 DEF Put
  <2>4. \A t \in 1..asked : t # t0
    BY <2>0 DEF IInv, Typed
  <2>5. \A t : t # t0 => Covered(t)' = Covered(t)
    BY <2>3 DEF Covered
  <2>6. \A t \in DOMAIN tasks : t # t0 => Allowed(t)' = Allowed(t)
    BY <2>3 DEF Allowed
  <2>7. /\ Covered(t0)' => op.node \in DOMAIN mirror
        /\ Allowed(t0)' = class_properties(Class[op.node], level)
    <3>1. tasks'[t0] = task
      BY <2>3
    <3>2. task.known = (op.node \in DOMAIN mirror)
      BY Zenon
    <3>3. task.node = op.node /\ task.level = level
      OBVIOUS
    <3> HIDE DEF task
    <3>4. tasks'[t0].known => op.node \in DOMAIN mirror
      BY <3>1, <3>2
    <3> QED
      BY <3>1, <3>3, <3>4 DEF Covered, Allowed
  <2>8. Typed'
    <3>1. /\ \A t \in DOMAIN tasks' : tasks'[t].level \in Levels
          /\ \A t \in DOMAIN tasks' :
                DOMAIN tasks'[t] = {"node", "known", "level", "lost", "result"}
      BY <2>3 DEF IInv, Typed
    <3> QED
      BY <1>1, <2>2, <3>1 DEF IInv, Typed, IsSequence
  <2>9. Numbered'
    <3>0. t0 \in 1..asked'
      BY <1>1, <2>0 DEF IInv, Typed
    <3>1. request.id \in 1..asked'
      BY <3>0
    <3>2. \A n \in 1..asked : n \in 1..asked'
      BY <1>1 DEF IInv, Typed
    <3> HIDE DEF request
    <3> QED
      BY <1>1, <2>2, <3>1, <3>2 DEF IInv, Numbered, IsAnswer
  <2>10. AsksWithin'
    <3>1. SUFFICES ASSUME NEW m \in ToSet(inbox)', m.op.type = "GetProperties", Covered(m.id)'
                   PROVE  m.op.properties = Allowed(m.id)'
      BY DEF AsksWithin
    <3>2. CASE m \in ToSet(inbox)
      <4>1. m.id # t0
        BY <3>2, <2>4 DEF IInv, Numbered
      <4>2. Covered(m.id) /\ m.id \in DOMAIN tasks
        BY <3>1, <4>1, <2>5 DEF Covered
      <4> QED
        BY <3>1, <3>2, <4>1, <4>2, <2>6 DEF IInv, AsksWithin
    <3>3. CASE m = request
      <4>1. m.id = t0 /\ Resolve(op).type = "GetProperties" /\ m.op = Resolve(op)
        BY <3>1, <3>3
      <4>2. op.node \in DOMAIN mirror
        BY <3>1, <4>1, <2>7
      <4>3. op.type = "GetProperties"
        BY <4>1 DEF Resolve
      <4>4. PICK i : op = [type |-> "GetProperties", node |-> i, properties |-> {}]
        BY <4>3, Lowered
      <4>5. Resolve(op) = [op EXCEPT !.properties = class_properties(Class[op.node], level)]
        BY <4>2, <4>3 DEF Resolve
      <4>6. Resolve(op).properties = class_properties(Class[op.node], level)
        BY <4>4, <4>5
      <4> QED
        BY <2>7, <4>1, <4>6
    <3> QED
      BY <2>2, <3>2, <3>3
  <2>11. AnswersWithin'
    <3>1. SUFFICES ASSUME NEW m \in ToSet(wire), IsAnswer(m), m.result.type = "Reads",
                          Covered(m.id)'
                   PROVE  DOMAIN m.result.props \subseteq Allowed(m.id)'
      BY <1>1 DEF AnswersWithin, IsAnswer
    <3>2. m.id # t0
      BY <3>1, <2>4 DEF IInv, Numbered
    <3>3. Covered(m.id) /\ m.id \in DOMAIN tasks
      BY <3>1, <3>2, <2>5 DEF Covered
    <3> QED
      BY <3>1, <3>2, <3>3, <2>6 DEF IInv, AnswersWithin
  <2>12. ResultsWithin'
    <3>1. SUFFICES ASSUME NEW t \in DOMAIN tasks', tasks'[t].result # <<>>,
                          tasks'[t].result[1].type = "Reads", Covered(t)'
                   PROVE  DOMAIN tasks'[t].result[1].props \subseteq Allowed(t)'
      BY DEF ResultsWithin
    <3>2. t # t0
      BY <3>1, <2>3
    <3>3. Covered(t) /\ t \in DOMAIN tasks /\ tasks'[t] = tasks[t]
      BY <3>1, <3>2, <2>3, <2>5 DEF Covered
    <3> QED
      BY <3>1, <3>2, <3>3, <2>6 DEF IInv, ResultsWithin
  <2>13. WithinThreshold'
    BY <1>1 DEF IInv, WithinThreshold
  <2> QED
    BY <2>8, <2>9, <2>10, <2>11, <2>12, <2>13 DEF IInv
<1> QED
  BY <1>2, <1>3

\* Only a read is like a read.
LEMMA RunOther ==
    ASSUME IInv, NEW raw, RunOperation(raw), raw.type # "GetProperties"
    PROVE  IInv'
  BY RunStep

LEMMA VerdeStep ==
    ASSUME IInv, Verde
    PROVE  IInv'
<1>1. ASSUME NEW i \in told,
             RunOperation([type |-> "GetProperties", node |-> i, properties |-> {}])
      PROVE  IInv'
  BY <1>1, RunStep
<1>2. ASSUME NEW i \in told, EditAttributes(i)
      PROVE  IInv'
  <2>1. PICK name \in {"A", "B"} :
          \/ RunOperation([type |-> "RemoveAttribute", node |-> i, name |-> name])
          \/ \E new \in {"A", "B"} :
               RunOperation([type |-> "RenameAttribute", node |-> i, old |-> name, new |-> new])
          \/ \E kind \in {"number", "Vector3"} :
               RunOperation([type |-> "add_attribute", node |-> i, name |-> name, kind |-> kind])
    BY <1>2 DEF EditAttributes
  <2>2. CASE RunOperation([type |-> "RemoveAttribute", node |-> i, name |-> name])
    BY <2>2, RunOther
  <2>3. ASSUME NEW new \in {"A", "B"},
               RunOperation([type |-> "RenameAttribute", node |-> i, old |-> name, new |-> new])
        PROVE  IInv'
    BY <2>3, RunOther
  <2>4. ASSUME NEW kind \in {"number", "Vector3"},
               RunOperation([type |-> "add_attribute", node |-> i, name |-> name, kind |-> kind])
        PROVE  IInv'
    BY <2>4, RunOther
  <2> QED
    BY <2>1, <2>2, <2>3, <2>4
<1>3. ASSUME NEW i \in told, EditTree(i)
      PROVE  IInv'
  <2>1. ASSUME NEW q \in told \cup {Nowhere},
               RunOperation([type |-> "Move", node |-> i, parent |-> q])
        PROVE  IInv'
    BY <2>1, RunOther
  <2>2. ASSUME NEW type \in {"Rename", "Delete", "Tag", "RunCode"},
               RunOperation([type |-> type, node |-> i])
        PROVE  IInv'
    BY <2>2, RunOther
  <2>3. ASSUME NEW c, RunOperation([type |-> "Create", node |-> i, class |-> c])
        PROVE  IInv'
    BY <2>3, RunOther
  <2> QED
    BY <1>3, <2>1, <2>2, <2>3 DEF EditTree
<1>4. ASSUME NEW type \in {"set_property", "set_attribute"}, NEW values, SetValue(type, values)
      PROVE  IInv'
  <2>1. PICK name \in DOMAIN values : \E e \in Edits(values[name]) :
          RunOperation([type |-> type, node |-> view.node, name |-> name, json |-> e.json,
                        edit |-> [was |-> e.was, k |-> e.k, n |-> e.n]])
    BY <1>4 DEF SetValue
  <2>2. PICK e \in Edits(values[name]) :
          RunOperation([type |-> type, node |-> view.node, name |-> name, json |-> e.json,
                        edit |-> [was |-> e.was, k |-> e.k, n |-> e.n]])
    BY <2>1
  <2> QED
    BY <2>2, RunOther
<1>5. ASSUME EditValue
      PROVE  IInv'
  BY <1>4, <1>5 DEF EditValue
<1>6. ASSUME NEW query, RequestSearch(query)
      PROVE  IInv'
  <2>1. /\ UNCHANGED <<inbox, wire, level, tasks, view>> /\ asked' \in Nat /\ asked' >= asked
    BY <1>6 DEF RequestSearch, IInv, Typed, verdeVars
  <2> QED
    BY <2>1, Quiet DEF IInv, Typed
<1> QED
  BY <1>1, <1>2, <1>3, <1>5, <1>6 DEF Verde

LEMMA ClientStep ==
    ASSUME IInv, Client
    PROVE  IInv'
<1>1. CASE UnknownNode
  BY <1>1, RefuseStep DEF UnknownNode
<1>2. CASE Rename
  <2>1. inbox # <<>> /\ Apply(Refreshed(live, parents).known, Refreshed(live, parents).frames, Ok)
    BY <1>2 DEF Rename, On
  <2>2. ArePatches(Refreshed(live, parents).frames)
    BY MirrorFrames DEF Refreshed
  <2> QED
    BY <2>1, <2>2, NoReads, AnsweredOtherwise
<1>3. CASE Tag
  BY <1>3, NonePatched, NoReads, AnsweredOtherwise DEF Tag, On
<1>4. CASE RunCode
  BY <1>4, NonePatched, NoReads, AnsweredOtherwise DEF RunCode
<1>5. CASE Delete
  <2> DEFINE m == Pruned(parents, Leaving(live, Todo.node, Nowhere))
  <2>1. inbox # <<>> /\ Apply(m.known, m.frames, Ok)
    BY <1>5 DEF Delete, On
  <2>2. ArePatches(m.frames)
    BY PrunedFrames
  <2> HIDE DEF m
  <2> QED
    BY <2>1, <2>2, NoReads, AnsweredOtherwise
<1>6. CASE Move
  <2>1. inbox # <<>>
    BY <1>6 DEF Move, On
  <2>2. CASE Todo.parent \in Under(live, Todo.node)
    BY <1>6, <2>1, <2>2, RefuseStep DEF Move
  <2>3. CASE Todo.parent \notin Under(live, Todo.node)
    <3> DEFINE out == Pruned(parents, Leaving(live, Todo.node, Todo.parent))
               m   == IF Todo.parent = Nowhere THEN [known |-> out.known, frames |-> <<>>]
                                             ELSE Refreshed(live', out.known)
    <3>1. Apply(m.known, out.frames \o m.frames, Ok)
      BY <1>6, <2>3 DEF Move
    <3>2. ArePatches(out.frames)
      BY PrunedFrames
    <3>3. ArePatches(m.frames)
      BY MirrorFrames, NonePatched DEF Refreshed
    <3>4. ArePatches(out.frames \o m.frames)
      BY <3>2, <3>3, BothPatched
    <3> HIDE DEF m, out
    <3> QED
      BY <2>1, <3>1, <3>4, NoReads, AnsweredOtherwise
  <2> QED
    BY <2>2, <2>3
<1>7. CASE Create
  <2>1. inbox # <<>>
    BY <1>7 DEF Create, On
  <2>2. CASE Refuse("invalid_class")
    BY <2>1, <2>2, RefuseStep
  <2>3. ASSUME NEW i \in Nodes,
               LET m == MirrorAll(live', parents, {i}) IN Apply(m.known, m.frames, Ok)
        PROVE  IInv'
    <3> DEFINE m == MirrorAll(live', parents, {i})
    <3>1. Apply(m.known, m.frames, Ok)
      BY <2>3
    <3>2. ArePatches(m.frames)
      BY MirrorFrames
    <3> HIDE DEF m
    <3> QED
      BY <2>1, <3>1, <3>2, NoReads, AnsweredOtherwise
  <2> QED
    BY <1>7, <2>2, <2>3 DEF Create
<1>8. CASE SetProperty
  <2>1. inbox # <<>>
    BY <1>8 DEF SetProperty, On
  <2>2. \/ Refuse("assign_failed")
        \/ LET m == Refreshed(live, parents) IN Apply(m.known, m.frames, Ok)
    BY <1>8, Zenon DEF SetProperty
  <2>3. ArePatches(Refreshed(live, parents).frames)
    BY MirrorFrames DEF Refreshed
  <2> QED
    BY <2>1, <2>2, <2>3, NoReads, AnsweredOtherwise, RefuseStep
<1>9. CASE SetAttribute
  BY <1>9, NonePatched, NoReads, AnsweredOtherwise DEF SetAttribute, On
<1>10. CASE RemoveAttribute
  BY <1>10, NonePatched, NoReads, AnsweredOtherwise DEF RemoveAttribute, On
<1>11. CASE RenameAttribute
  BY <1>11, NonePatched, NoReads, AnsweredOtherwise DEF RenameAttribute, On
<1>12. CASE GetProperties
  <2> DEFINE has   == DOMAIN props[Todo.node]
             names == (IF Todo.properties = {} THEN has ELSE Todo.properties \cap has) \ SKIP_PROPERTIES
             reads == [type  |-> "Reads", props |-> Restrict(props[Todo.node], names),
                       attrs |-> attrs[Todo.node]]
             m     == MirrorAll(live, parents, Refs(reads.props))
  <2>1. inbox # <<>> /\ Todo.type = "GetProperties" /\ Apply(m.known, m.frames, reads)
    BY <1>12 DEF GetProperties, On
  <2>2. ArePatches(m.frames)
    BY MirrorFrames
  <2>3. DOMAIN reads.props = names
    BY DEF Restrict
  <2>4. Todo.properties # {} => DOMAIN reads.props \subseteq Todo.properties
    BY <2>3
  <2> HIDE DEF m, reads
  <2> QED
    BY <2>1, <2>2, <2>4, Answered
<1>13. CASE SyncSnapshot
  <2> DEFINE here  == {i \in DOMAIN live : Inside(live, i)}
             sent  == MirrorAll(live, parents, here)
             after == Pruned(sent.known, DOMAIN sent.known \ here)
  <2>1. wire' = (wire \o sent.frames) \o after.frames
        /\ UNCHANGED <<inbox, asked, level, tasks, view>>
    BY <1>13 DEF SyncSnapshot, brokerVars, verdeVars
  <2>2. ArePatches(sent.frames) /\ ArePatches(after.frames)
    BY MirrorFrames, PrunedFrames
  <2> HIDE DEF sent, after
  <2>3. /\ IsSequence(wire')
        /\ ToSet(wire)' = ToSet(wire) \cup ToSet(sent.frames) \cup ToSet(after.frames)
    <3>1. /\ IsSequence(wire \o sent.frames)
          /\ ToSet(wire \o sent.frames) = ToSet(wire) \cup ToSet(sent.frames)
      BY <2>2, ConcatIs DEF IInv, Typed, ArePatches
    <3>2. /\ IsSequence((wire \o sent.frames) \o after.frames)
          /\ ToSet((wire \o sent.frames) \o after.frames)
               = ToSet(wire \o sent.frames) \cup ToSet(after.frames)
      BY <2>2, <3>1, ConcatIs DEF ArePatches
    <3> QED
      BY <2>1, <3>1, <3>2
  <2>4. \A m \in ToSet(wire)' : IsAnswer(m) => m \in ToSet(wire)
    BY <2>2, <2>3 DEF ArePatches
  <2>5. /\ IsSequence(inbox') /\ ToSet(inbox)' \subseteq ToSet(inbox)
        /\ asked' \in Nat /\ asked' >= asked /\ level' \in Levels
    BY <2>1 DEF IInv, Typed
  <2> QED
    BY <2>1, <2>3, <2>4, <2>5, Quiet
<1> QED
  BY <1>1, <1>2, <1>3, <1>4, <1>5, <1>6, <1>7, <1>8, <1>9, <1>10, <1>11, <1>12, <1>13 DEF Client

LEMMA GameStep ==
    ASSUME IInv, Game
    PROVE  IInv'
<1>1. ASSUME NEW i \in Nodes, Leave(i)
      PROVE  IInv'
  <2> DEFINE out == Pruned(parents, Under(live, i))
  <2>1. /\ wire' = wire \o out.frames /\ asked' \in Nat /\ asked' >= asked
        /\ UNCHANGED <<inbox, level, tasks, view>>
    BY <1>1 DEF Leave, IInv, Typed, verdeVars
  <2>2. ArePatches(out.frames)
    BY PrunedFrames
  <2> HIDE DEF out
  <2> QED
    BY <2>1, <2>2, Sent
<1>2. ASSUME NEW i \in Nodes, NEW q \in Places, Enter(i, q)
      PROVE  IInv'
  <2>1. asked' \in Nat /\ asked' >= asked /\ UNCHANGED <<inbox, wire, level, tasks, view>>
    BY <1>2 DEF Enter, IInv, Typed, verdeVars
  <2> QED
    BY <2>1, Quiet DEF IInv, Typed
<1> QED
  BY <1>1, <1>2 DEF Game

\* What the tasks keep of the operation stays as they get patches and results.
LEMMA TasksKept ==
    ASSUME IInv, IsSequence(wire'), ToSet(wire)' \subseteq ToSet(wire),
           UNCHANGED <<inbox, asked, level>>, DOMAIN tasks' \subseteq DOMAIN tasks,
           \A t \in DOMAIN tasks' :
             /\ tasks'[t].node = tasks[t].node /\ tasks'[t].known = tasks[t].known
             /\ tasks'[t].level = tasks[t].level /\ DOMAIN tasks'[t] = DOMAIN tasks[t]
    PROVE  /\ Typed' /\ Numbered' /\ AsksWithin' /\ AnswersWithin'
           /\ \A t : Covered(t)' => Covered(t) /\ Allowed(t)' = Allowed(t)
<1>1. \A t : Covered(t)' => Covered(t) /\ Allowed(t)' = Allowed(t)
  BY DEF Covered, Allowed
<1>2. Typed'
  BY DEF IInv, Typed, IsSequence
<1>3. Numbered'
  BY DEF IInv, Numbered, IsAnswer
<1>4. AsksWithin' /\ AnswersWithin'
  BY <1>1 DEF IInv, AsksWithin, AnswersWithin, IsAnswer
<1> QED
  BY <1>1, <1>2, <1>3, <1>4

LEMMA BrokerStep ==
    ASSUME IInv, Broker
    PROVE  IInv'
<1>1. CASE ReceivePatch
  <2>1. /\ wire # <<>> /\ wire' = Tail(wire) /\ UNCHANGED <<inbox, asked, level, view>>
        /\ \E gone : tasks' = [t \in DOMAIN tasks |-> [tasks[t] EXCEPT !.lost = @ \cup gone]]
    BY <1>1 DEF ReceivePatch, verdeVars
  <2>2. PICK gone : tasks' = [t \in DOMAIN tasks |-> [tasks[t] EXCEPT !.lost = @ \cup gone]]
    BY <2>1
  <2>3. DOMAIN tasks' = DOMAIN tasks /\ \A t \in DOMAIN tasks :
             /\ tasks'[t].node = tasks[t].node /\ tasks'[t].known = tasks[t].known
             /\ tasks'[t].level = tasks[t].level /\ DOMAIN tasks'[t] = DOMAIN tasks[t]
             /\ tasks'[t].result = tasks[t].result
    BY <2>2 DEF IInv, Typed
  <2>4. IsSequence(wire') /\ ToSet(wire)' \subseteq ToSet(wire)
    BY <2>1, TailIs DEF IInv, Typed
  <2>5. /\ Typed' /\ Numbered' /\ AsksWithin' /\ AnswersWithin'
        /\ \A t : Covered(t)' => Covered(t) /\ Allowed(t)' = Allowed(t)
    BY <2>1, <2>3, <2>4, TasksKept
  <2>6. ResultsWithin' /\ WithinThreshold'
    BY <2>1, <2>3, <2>5 DEF IInv, ResultsWithin, WithinThreshold
  <2> QED
    BY <2>5, <2>6 DEF IInv
<1>2. CASE ReceiveResult
  <2> DEFINE r == Head(wire)
  <2>1. /\ wire # <<>> /\ IsAnswer(r) /\ wire' = Tail(wire)
        /\ UNCHANGED <<inbox, asked, level, view>>
        /\ tasks' = [t \in DOMAIN tasks |->
                       IF t = r.id THEN [tasks[t] EXCEPT !.result = <<r.result>>] ELSE tasks[t]]
    BY <1>2 DEF ReceiveResult, verdeVars, IsAnswer
  <2>2. IsSequence(wire') /\ ToSet(wire)' \subseteq ToSet(wire) /\ r \in ToSet(wire)
    BY <2>1, TailIs DEF IInv, Typed
  <2> HIDE DEF r
  <2>3. DOMAIN tasks' = DOMAIN tasks /\ \A t \in DOMAIN tasks :
             /\ tasks'[t].node = tasks[t].node /\ tasks'[t].known = tasks[t].known
             /\ tasks'[t].level = tasks[t].level /\ DOMAIN tasks'[t] = DOMAIN tasks[t]
             /\ tasks'[t].result = IF t = r.id THEN <<r.result>> ELSE tasks[t].result
    BY <2>1 DEF IInv, Typed
  <2>4. /\ Typed' /\ Numbered' /\ AsksWithin' /\ AnswersWithin'
        /\ \A t : Covered(t)' => Covered(t) /\ Allowed(t)' = Allowed(t)
    BY <2>1, <2>2, <2>3, TasksKept
  <2>5. ResultsWithin'
    <3>1. SUFFICES ASSUME NEW t \in DOMAIN tasks, tasks'[t].result # <<>>,
                          tasks'[t].result[1].type = "Reads", Covered(t)'
                   PROVE  DOMAIN tasks'[t].result[1].props \subseteq Allowed(t)'
      BY <2>3 DEF ResultsWithin
    <3>2. CASE t = r.id
      <4>1. tasks'[t].result[1] = r.result
        BY <2>3, <3>2
      <4> QED
        BY <2>1, <2>2, <2>4, <3>1, <3>2, <4>1 DEF IInv, AnswersWithin
    <3>3. CASE t # r.id
      BY <2>3, <2>4, <3>1, <3>3 DEF IInv, ResultsWithin
    <3> QED
      BY <3>2, <3>3
  <2>6. WithinThreshold'
    BY <2>1 DEF IInv, WithinThreshold
  <2> QED
    BY <2>4, <2>5, <2>6 DEF IInv
<1>3. ASSUME NEW t \in DOMAIN tasks, Settle(t)
      PROVE  /\ Typed' /\ Numbered' /\ AsksWithin' /\ AnswersWithin' /\ ResultsWithin'
  <2>1. /\ UNCHANGED <<inbox, wire, asked, level>>
        /\ tasks' = Restrict(tasks, DOMAIN tasks \ {t})
    BY <1>3 DEF Settle
  <2>2. DOMAIN tasks' \subseteq DOMAIN tasks /\ \A u \in DOMAIN tasks' : tasks'[u] = tasks[u]
    BY <2>1 DEF Restrict
  <2>3. /\ Typed' /\ Numbered' /\ AsksWithin' /\ AnswersWithin'
        /\ \A u : Covered(u)' => Covered(u) /\ Allowed(u)' = Allowed(u)
    BY <2>1, <2>2, TasksKept DEF IInv, Typed
  <2>4. ResultsWithin'
    BY <2>2, <2>3 DEF IInv, ResultsWithin
  <2> QED
    BY <2>3, <2>4
<1>4. ASSUME NEW t \in DOMAIN tasks, ToOutcome(t)
      PROVE  IInv'
  <2> DEFINE r == tasks[t].result[1]
  <2>1. CASE r.type # "Reads"
    <3>1. UNCHANGED view
      BY <1>4, <2>1 DEF ToOutcome
    <3> QED
      BY <1>3, <1>4, <3>1 DEF ToOutcome, IInv, WithinThreshold
  <2>2. CASE r.type = "Reads"
    <3>1. /\ view'.node = tasks[t].node /\ view'.known = tasks[t].known
          /\ view'.level = tasks[t].level
          /\ view'.props = Restrict(r.props, DOMAIN r.props \ HIDDEN_PROPERTIES)
          /\ tasks[t].result # <<>>
      BY <1>4, <2>2, Zenon DEF ToOutcome
    <3>2. Covered(t) => DOMAIN view'.props \subseteq Allowed(t)
      BY <2>2, <3>1 DEF IInv, ResultsWithin, Restrict
    <3>3. ASSUME view'.known, Class[view'.node] \in DOMAIN Dump, NEW q \in DOMAIN view'.props
          PROVE  \E c \in Superclasses(Class[view'.node]) :
                    q \in DOMAIN Dump[c].levels /\ Dump[c].levels[q] <= view'.level
      <4>1. q \in class_properties(Class[view'.node], view'.level)
        BY <3>1, <3>2, <3>3 DEF Covered, Allowed
      <4> QED
        BY <3>3, <4>1 DEF class_properties
    <3>4. WithinThreshold'
      BY <3>3 DEF WithinThreshold
    <3> QED
      BY <1>3, <1>4, <3>4 DEF ToOutcome, IInv
  <2> QED
    BY <2>1, <2>2
<1>5. ASSUME NEW t \in DOMAIN tasks, Timeout(t)
      PROVE  IInv'
  BY <1>3, <1>5 DEF Timeout, IInv, WithinThreshold
<1>6. ASSUME NEW query \in searches, RunSearch(query)
      PROVE  IInv'
  <2>1. UNCHANGED <<inbox, wire, asked, level, tasks, view>>
    BY <1>6 DEF RunSearch
  <2> QED
    BY <2>1, Quiet DEF IInv, Typed
<1>7. ASSUME NEW l \in Levels, SetSecurity(l)
      PROVE  IInv'
  <2>1. UNCHANGED <<inbox, wire, asked, tasks, view>> /\ level' \in Levels
    BY <1>7 DEF SetSecurity, verdeVars
  <2> QED
    BY <2>1, Quiet DEF IInv, Typed
<1> QED
  BY <1>1, <1>2, <1>4, <1>5, <1>6, <1>7 DEF Broker

LEMMA InitIsWithin == Init => IInv
<1> SUFFICES ASSUME Init PROVE IInv
  OBVIOUS
<1>1. inbox = <<>> /\ wire = <<>> /\ asked = 0 /\ view = <<>> /\ tasks = Empty
  BY DEF Init
<1>2. level \in Levels
  BY VerdeOpsAssumption DEF Init
<1>3. DOMAIN tasks = {}
  BY <1>1 DEF Empty
<1> QED
  BY <1>1, <1>2, <1>3, EmptyIs
  DEF IInv, Typed, Numbered, AsksWithin, AnswersWithin, ResultsWithin, WithinThreshold

LEMMA NextStaysWithin == IInv /\ [Next]_vars => IInv'
<1> SUFFICES ASSUME IInv, [Next]_vars PROVE IInv'
  OBVIOUS
<1>1. CASE Next
  BY <1>1, VerdeStep, ClientStep, BrokerStep, GameStep DEF Next
<1>2. CASE UNCHANGED vars
  BY <1>2, Quiet DEF vars, IInv, Typed, brokerVars, verdeVars
<1> QED
  BY <1>1, <1>2

\* Whatever the dump, the thresholds, the game and the order of messages are, no property
\* above the threshold of the time Verde asked is shown (run_operation and class_properties).
THEOREM ShownWithin == Spec => []WithinThreshold
<1>1. IInv => WithinThreshold
  BY DEF IInv
<1> QED
  BY InitIsWithin, NextStaysWithin, <1>1, PTL DEF Spec

-----------------------------------------------------------------------------
(***************************************************************************)
(* The game's trees: what is above an instance, and what is mirrored for   *)
(* one, are both got by going up from it.                                  *)
(***************************************************************************)
Joined(line, j) == {j} \cup line
Riser == INSTANCE RecursionFacts WITH Op <- Joined

\* f[j] holds j and, as long as the parent is in `go`, those above it.
IsRise(f, tree, go) ==
    f = [j \in DOMAIN tree |-> {j} \cup (IF tree[j] \in go THEN f[tree[j]] ELSE {})]

LEMMA RiseExists ==
    ASSUME NEW tree, Acyclic(tree), NEW go \in SUBSET DOMAIN tree
    PROVE  \E f : IsRise(f, tree, go)
<1>. DEFINE D == DOMAIN tree
            ends == {j \in D : tree[j] \notin go}
            base == [j \in D |-> {j}]
<1>1. Riser!Grounded(D, ends, tree)
  <2>1. \A j \in D \ ends : tree[j] \in D
    OBVIOUS
  <2>2. \A S \in SUBSET (D \ ends) : S # {} => \E j \in S : tree[j] \notin S
    BY DEF Acyclic
  <2>. HIDE DEF ends, D
  <2>. QED
    BY <2>1, <2>2 DEF Riser!Grounded
<1>2. \E g : Riser!Climbs(g, D, ends, tree, base)
  <2>. HIDE DEF D, ends, base
  <2>. QED
    BY <1>1, Riser!ClimbExists
<1>3. PICK g : Riser!Climbs(g, D, ends, tree, base)
  BY <1>2
<1>4. g = [j \in D |-> IF j \in ends THEN base[j] ELSE Joined(g[tree[j]], j)]
  BY <1>3 DEF Riser!Climbs
<1>5. \A j \in D : (IF j \in ends THEN base[j] ELSE Joined(g[tree[j]], j))
                     = {j} \cup (IF tree[j] \in go THEN g[tree[j]] ELSE {})
  BY DEF Joined
<1>6. IsRise(g, tree, go)
  <2>. HIDE DEF ends, base
  <2>. QED
    BY <1>4, <1>5 DEF IsRise
<1>. QED
  BY <1>6

LEMMA RiseLeast ==
    ASSUME NEW tree, Acyclic(tree), NEW go \in SUBSET DOMAIN tree,
           NEW f, IsRise(f, tree, go), NEW p \in DOMAIN tree,
           NEW C, p \in C, \A j \in C \cap DOMAIN tree : tree[j] \in go => tree[j] \in C
    PROVE  f[p] \subseteq C
<1>. DEFINE Bad == {j \in C \cap DOMAIN tree : ~ (f[j] \subseteq C)}
<1>1. \A j \in DOMAIN tree : f[j] = {j} \cup (IF tree[j] \in go THEN f[tree[j]] ELSE {})
  BY DEF IsRise
<1>2. SUFFICES ASSUME Bad # {} PROVE FALSE
  OBVIOUS
<1>3. Bad \in SUBSET DOMAIN tree
  OBVIOUS
<1>4. \E j \in Bad : tree[j] \notin Bad
  <2>. HIDE DEF Bad
  <2>. QED
    BY <1>2, <1>3 DEF Acyclic
<1>5. PICK j \in C \cap DOMAIN tree : ~ (f[j] \subseteq C) /\ tree[j] \notin Bad
  BY <1>4
<1>6. CASE tree[j] \in go
  <2>1. tree[j] \in C \cap DOMAIN tree
    BY <1>6
  <2>2. f[tree[j]] \subseteq C
    BY <1>5, <2>1
  <2>. QED
    BY <1>1, <1>5, <1>6, <2>2
<1>7. CASE tree[j] \notin go
  BY <1>1, <1>5, <1>7
<1>. QED
  BY <1>6, <1>7

LEMMA RiseFacts ==
    ASSUME NEW tree, Acyclic(tree), NEW go \in SUBSET DOMAIN tree,
           NEW f, IsRise(f, tree, go), NEW p \in DOMAIN tree
    PROVE  /\ p \in f[p] /\ f[p] \subseteq DOMAIN tree
           /\ \A j \in f[p] : f[j] \subseteq f[p] /\ (tree[j] \in go => tree[j] \in f[p])
<1>1. \A j \in DOMAIN tree : f[j] = {j} \cup (IF tree[j] \in go THEN f[tree[j]] ELSE {})
  BY DEF IsRise
<1>2. \A j \in DOMAIN tree : j \in f[j]
  BY <1>1
<1>3. ASSUME NEW C, \A j \in C \cap DOMAIN tree : tree[j] \in go => tree[j] \in C,
             NEW q \in C \cap DOMAIN tree
      PROVE  f[q] \subseteq C
  BY <1>3, RiseLeast
<1>4. \A q \in DOMAIN tree : f[q] \subseteq DOMAIN tree
  BY <1>3
<1>5. \A q \in DOMAIN tree : \A j \in f[q] : tree[j] \in go => tree[j] \in f[q]
  <2>. DEFINE Bad == {q \in DOMAIN tree : \E j \in f[q] : tree[j] \in go /\ tree[j] \notin f[q]}
  <2>1. SUFFICES ASSUME Bad # {} PROVE FALSE
    OBVIOUS
  <2>2. Bad \in SUBSET DOMAIN tree
    OBVIOUS
  <2>3. \E q \in Bad : tree[q] \notin Bad
    <3>. HIDE DEF Bad
    <3>. QED
      BY <2>1, <2>2 DEF Acyclic
  <2>4. PICK q \in DOMAIN tree : /\ \E j \in f[q] : tree[j] \in go /\ tree[j] \notin f[q]
                                 /\ tree[q] \notin Bad
    BY <2>3
  <2>5. PICK j \in f[q] : tree[j] \in go /\ tree[j] \notin f[q]
    BY <2>4
  <2>6. CASE tree[q] \in go
    <3>1. f[q] = {q} \cup f[tree[q]] /\ tree[q] \in f[tree[q]]
      BY <1>1, <1>2, <2>6
    <3>2. j \in f[tree[q]]
      BY <2>5, <3>1
    <3>. QED
      BY <2>4, <2>5, <2>6, <3>1, <3>2
  <2>7. CASE tree[q] \notin go
    BY <1>1, <2>5, <2>7
  <2>. QED
    BY <2>6, <2>7
<1>6. \A j \in f[p] : f[j] \subseteq f[p]
  <2>. SUFFICES ASSUME NEW j \in f[p] PROVE f[j] \subseteq f[p]
    OBVIOUS
  <2>1. \A x \in f[p] \cap DOMAIN tree : tree[x] \in go => tree[x] \in f[p]
    BY <1>5
  <2>2. j \in f[p] \cap DOMAIN tree
    BY <1>4
  <2>. QED
    BY <1>3, <2>1, <2>2
<1>. QED
  BY <1>2, <1>3, <1>4, <1>5, <1>6

LEMMA AboveFacts ==
    ASSUME NEW tree, Acyclic(tree), NEW p \in DOMAIN tree
    PROVE  /\ p \in Above(tree, p) /\ Above(tree, p) \subseteq DOMAIN tree
           /\ \A j \in Above(tree, p) : /\ Above(tree, j) \subseteq Above(tree, p)
                                        /\ tree[j] \in DOMAIN tree => tree[j] \in Above(tree, p)
           /\ \A C : p \in C /\ (\A j \in C \cap DOMAIN tree : tree[j] \in DOMAIN tree => tree[j] \in C)
                       => Above(tree, p) \subseteq C
<1>. DEFINE f == CHOOSE g : g = [j \in DOMAIN tree |->
                     {j} \cup (IF tree[j] \in DOMAIN tree THEN g[tree[j]] ELSE {})]
<1>1. \A q \in DOMAIN tree : Above(tree, q) = f[q]
  BY DEF Above
<1>2. IsRise(f, tree, DOMAIN tree)
  <2>1. \E g : g = [j \in DOMAIN tree |->
                     {j} \cup (IF tree[j] \in DOMAIN tree THEN g[tree[j]] ELSE {})]
    BY RiseExists DEF IsRise
  <2>. QED
    BY <2>1 DEF IsRise
<1>. DEFINE go == DOMAIN tree
<1>3. IsRise(f, tree, go) /\ go \in SUBSET DOMAIN tree
  BY <1>2
<1>. HIDE DEF f, go
<1>4. /\ p \in f[p] /\ f[p] \subseteq DOMAIN tree
      /\ \A j \in f[p] : f[j] \subseteq f[p] /\ (tree[j] \in go => tree[j] \in f[p])
  BY <1>3, RiseFacts
<1>5. ASSUME NEW C, p \in C, \A j \in C \cap DOMAIN tree : tree[j] \in go => tree[j] \in C
      PROVE  f[p] \subseteq C
  BY <1>3, <1>5, RiseLeast
<1>6. \A j \in f[p] : j \in DOMAIN tree
  BY <1>4
<1>7. \A C : p \in C /\ (\A j \in C \cap DOMAIN tree : tree[j] \in DOMAIN tree => tree[j] \in C)
              => Above(tree, p) \subseteq C
  BY <1>1, <1>5 DEF go
<1>. QED
  BY <1>1, <1>4, <1>6, <1>7 DEF go

\* What is sent for an instance: it is among it, and so is the parent of each unless known.
LEMMA MirroredFacts ==
    ASSUME NEW tree, Acyclic(tree), NEW known, NEW i \in DOMAIN tree
    PROVE  /\ i \in Mirrored(tree, known, i) /\ Mirrored(tree, known, i) \subseteq DOMAIN tree
           /\ \A j \in Mirrored(tree, known, i) :
                 tree[j] \in DOMAIN tree => tree[j] \in known \cup Mirrored(tree, known, i)
<1>. DEFINE go == DOMAIN tree \ known
            f == CHOOSE g : g = [j \in DOMAIN tree |->
                     {j} \cup (IF tree[j] \in DOMAIN tree \ known THEN g[tree[j]] ELSE {})]
<1>1. Mirrored(tree, known, i) = f[i]
  BY DEF Mirrored
<1>2. IsRise(f, tree, go)
  <2>1. \E g : g = [j \in DOMAIN tree |-> {j} \cup (IF tree[j] \in go THEN g[tree[j]] ELSE {})]
    <3>1. go \in SUBSET DOMAIN tree
      OBVIOUS
    <3>. HIDE DEF go
    <3>. QED
      BY <3>1, RiseExists DEF IsRise
  <2>. QED
    BY <2>1 DEF IsRise
<1>3. go \in SUBSET DOMAIN tree
  OBVIOUS
<1>. HIDE DEF f, go
<1>4. /\ i \in f[i] /\ f[i] \subseteq DOMAIN tree
      /\ \A j \in f[i] : tree[j] \in go => tree[j] \in f[i]
  BY <1>2, <1>3, RiseFacts
<1>. QED
  BY <1>1, <1>4 DEF go

(***************************************************************************)
(* The second invariant: values.  A property keeps the kind it had in a    *)
(* new instance, an enum its family and a reference what it refers to, in  *)
(* the game and wherever the value was copied to; an edit on its way is of *)
(* a value like the one it will replace.                                   *)
(***************************************************************************)
Like(v, u) ==
    /\ IsDomValue(v) /\ v.kind = u.kind
    /\ u.kind = "Enum" => v.nums[1] = u.nums[1]
    /\ u.kind = "Ref" => v.text = u.text

\* Properties of an instance i, and attributes.
PropsFit(i, values) ==
    \A p \in DOMAIN values : /\ p \in DOMAIN Initial[Class[i]]
                             /\ Like(values[p], Initial[Class[i]][p])
AttrsFit(values) == \A a \in DOMAIN values : Storable(values[a])

\* The tree the game may be, and what the client's mirror may hold of it.
GameFits ==
    /\ DOMAIN live \subseteq Nodes /\ Acyclic(live)
    /\ \A i \in DOMAIN live : live[i] \in DOMAIN live \cup {Root, Nowhere}
    /\ \A i \in Nodes : Refs(Initial[Class[i]]) \subseteq DOMAIN live
    /\ DOMAIN parents \subseteq DOMAIN live

ValuesFit ==
    /\ DOMAIN props = DOMAIN live /\ DOMAIN attrs = DOMAIN live
    /\ \A i \in DOMAIN live : PropsFit(i, props[i]) /\ AttrsFit(attrs[i])

\* An edit of a number of `was` is to set `value`.
EditOf(edit, value) ==
    /\ KeepsTheRest(edit.was, edit.k, edit.n, value)
         \/ (Flattens(edit.was, edit.k) /\ value.kind = "Vector2")
    /\ Storable(value)

\* An enum's item was chosen.
ChoiceOf(edit, value) ==
    /\ edit.k = 2 /\ edit.n \in DOMAIN Items[edit.was.nums[1] + 1]
    /\ value \in FromJson(describe_enum(edit.was.nums[1], edit.n))

OpFits(op) ==
    /\ op.type = "SetProperty" =>
         /\ op.edit # <<>> /\ op.name \in DOMAIN Initial[Class[op.node]]
         /\ Like(op.edit.was, Initial[Class[op.node]][op.name])
         /\ IF op.edit.was.kind = "Enum" THEN ChoiceOf(op.edit, op.value)
                                         ELSE EditOf(op.edit, op.value)
    /\ op.type = "SetAttribute" =>
         Storable(op.value) /\ (op.edit # <<>> => EditOf(op.edit, op.value))

AsksFit ==
    \A m \in ToSet(inbox) :
      OpFits(m.op) /\ (m.id \in DOMAIN tasks => tasks[m.id].node = m.op.node)

ReadFits(node, read) == read.type = "Reads" => PropsFit(node, read.props) /\ AttrsFit(read.attrs)

AnswersFit ==
    \A m \in ToSet(wire) :
      IsAnswer(m) /\ m.id \in DOMAIN tasks => ReadFits(tasks[m.id].node, m.result)

ResultsFit ==
    \A t \in DOMAIN tasks : tasks[t].result # <<>> => ReadFits(tasks[t].node, tasks[t].result[1])

ViewFits == view # <<>> => PropsFit(view.node, view.props) /\ AttrsFit(view.attrs)

(***************************************************************************)
(* And links.  What a read refers to is mirrored when the read comes, by   *)
(* the patches ahead of it, unless it was removed since.                   *)
(***************************************************************************)
\* What the patches ahead of the k-th message upsert.
Upserted(k) == {i \in Nodes : \E l \in 1..(k - 1) : ~ IsAnswer(wire[l]) /\ i \in DOMAIN wire[l].upserts}

Ordered == \A m \in ToSet(wire) : IsAnswer(m) <=> "upserts" \notin DOMAIN m

AnswersResolve ==
    \A k \in 1..Len(wire) :
      LET m == wire[k]
      IN  IsAnswer(m) /\ m.id \in DOMAIN tasks /\ m.result.type = "Reads"
            => Refs(m.result.props) \subseteq DOMAIN mirror \cup tasks[m.id].lost \cup Upserted(k)

ResultsResolve ==
    \A t \in DOMAIN tasks :
      tasks[t].result # <<>> /\ tasks[t].result[1].type = "Reads"
        => Refs(tasks[t].result[1].props) \subseteq DOMAIN mirror \cup tasks[t].lost

VInv ==
    /\ GameFits /\ ValuesFit /\ AsksFit /\ AnswersFit /\ ResultsFit /\ ViewFits
    /\ EditsKeepTheRest
LInv == Ordered /\ AnswersResolve /\ ResultsResolve /\ LinksResolve

(***************************************************************************)
(* Values that fit.                                                        *)
(***************************************************************************)
LEMMA EnumIs ==
    ASSUME NEW v, IsDomValue(v), v.kind = "Enum"
    PROVE  v.nums \in [1..2 -> Nat]
<1>1. v.kind \notin {"Bool"} \cup Texts \cup Compound \cup Others
  BY DEF Texts, Compound, Others
<1>2. PICK kind \in DOMAIN Arity : v \in [kind : {kind}, nums : [1..Arity[kind] -> Component(kind)]]
  BY <1>1 DEF IsDomValue
<1>3. kind = "Enum" /\ v.nums \in [1..Arity[kind] -> Component(kind)]
  BY <1>2
<1>4. Arity["Enum"] = 2 /\ Component("Enum") = Nat
  BY DEF Arity, Component
<1>. QED
  BY <1>3, <1>4

LEMMA EnumFits ==
    ASSUME NEW f \in Nat, NEW n \in Nat
    PROVE  IsDomValue(Numbers("Enum", <<f, n>>))
<1>1. Arity["Enum"] = 2 /\ Component("Enum") = Nat /\ "Enum" \in DOMAIN Arity
  BY DEF Arity, Component
<1>2. <<f, n>> \in [1..2 -> Nat]
  OBVIOUS
<1>3. Numbers("Enum", <<f, n>>) \in [kind : {"Enum"}, nums : [1..2 -> Nat]]
  BY <1>2 DEF Numbers
<1>. QED
  BY <1>1, <1>3 DEF IsDomValue

\* An object with a name that is text, and a value, is read as its name.
LEMMA ReadNamed ==
    ASSUME NEW a, NEW b
    PROVE  FromJson(Obj([Value |-> Num(a), Name |-> Text(b)])) = {Worded("String", b)}
<1>. DEFINE fields == [Value |-> Num(a), Name |-> Text(b)]
            j == Obj(fields)
<1>1. FromJson(j) = FromShape(j) /\ j.obj = fields
  BY ReadObj
<1>2. DOMAIN fields = {"Value", "Name"} /\ fields["Name"] = Text(b) /\ fields.Name = Text(b)
  OBVIOUS
<1>3. DOMAIN j = {"obj"}
  BY DEF Obj
<1>. HIDE DEF fields
<1>4. /\ "X" \notin DOMAIN fields /\ "R" \notin DOMAIN fields /\ "Scale" \notin DOMAIN fields
      /\ "Min" \notin DOMAIN fields
  BY <1>2
<1>5. ~ Fits("UDim2", j) /\ ~ Fits("Vector3", j) /\ ~ Fits("Vector2", j) /\ ~ Fits("Color3", j)
  BY <1>4, Lacking, FitsIs
<1>6. ~ Fits("UDim", j) /\ ~ Fits("NumberRange", j) /\ ~ Fits("Rect", j)
  BY <1>4, Lacking, FitsIs
<1>7. Fits("EnumByName", j)
  <2>1. IsText(Text(b))
    BY DEF IsText, Text
  <2>. QED
    BY <1>1, <1>2, <1>3, <2>1, FitsIs DEF Has
<1>8. \A l \in 1..(8-1) : ~ Fits(Precedence[l], j)
  <2>1. \A l \in 1..(8-1) : l = 1 \/ l = 2 \/ l = 3 \/ l = 4 \/ l = 5 \/ l = 6 \/ l = 7
    OBVIOUS
  <2>. QED
    BY <1>5, <1>6, <2>1, Shapes
<1>9. FromShape(j) = {into_dom("EnumByName", j.obj)}
  BY <1>7, <1>8, FirstShape, Shapes
<1>10. into_dom("EnumByName", fields) = Worded("String", b)
  BY <1>2 DEF into_dom, Text
<1>. QED
  BY <1>1, <1>9, <1>10 DEF fields

\* The item that was chosen is the one that is assigned, by its name or by its value.
LEMMA ChoiceBack ==
    ASSUME NEW family \in Nat, family + 1 \in DOMAIN Items, NEW n \in DOMAIN Items[family + 1],
           NEW value \in FromJson(describe_enum(family, n)),
           NEW m \in enumFromScalar(family, value)
    PROVE  m = n
<1>1. n \in Nat /\ m \in Nat /\ m \in DOMAIN Items[family + 1]
  BY GameAssumption DEF enumFromScalar
<1>2. CASE family + 1 \notin DOMAIN Catalog
  <2>1. One * n \in Int
    BY <1>1 DEF One
  <2>2. value = Numbers("Float", <<One * n>>)
    BY <1>2, <2>1, ReadNum DEF describe_enum
  <2>3. value.kind = "Float" /\ value.nums[1] = One * n
    BY <2>2 DEF Numbers
  <2>4. One * n = One * m
    BY <2>3 DEF enumFromScalar
  <2>. QED
    BY <1>1, <2>4 DEF One
<1>3. CASE family + 1 \in DOMAIN Catalog
  <2>1. Catalog[family + 1] = Items[family + 1]
    BY <1>3, VerdeOpsAssumption
  <2>2. describe_enum(family, n)
          = Obj([Value |-> Num(One * n), Name |-> Text(Items[family + 1][n])])
    BY <1>3, <2>1 DEF describe_enum
  <2>3. value = Worded("String", Items[family + 1][n])
    BY <2>2, ReadNamed
  <2>4. value.kind = "String" /\ value.text = Items[family + 1][n]
    BY <2>3 DEF Worded
  <2>5. Items[family + 1][m] = Items[family + 1][n]
    BY <2>4 DEF enumFromScalar
  <2>. QED
    BY <1>1, <2>5, VerdeOpsAssumption
<1>. QED
  BY <1>2, <1>3

\* An edit on its way to a property is of a value like the one that is there: what is
\* assigned is the edited value, and fits.
LEMMA AssignFits ==
    ASSUME NEW u, u.kind = "Enum" => u.nums[1] + 1 \in DOMAIN Items,
           NEW current, Like(current, u), NEW edit, Like(edit.was, u), NEW value,
           IF edit.was.kind = "Enum" THEN ChoiceOf(edit, value) ELSE EditOf(edit, value),
           NEW now \in Assigned(current, value)
    PROVE  Like(now, u) /\ KeepsTheRest(edit.was, edit.k, edit.n, now)
<1>1. current.kind = u.kind /\ edit.was.kind = u.kind
  BY DEF Like
<1>2. CASE u.kind = "Enum"
  <2>. DEFINE family == u.nums[1]
  <2>1. current.nums[1] = family /\ edit.was.nums[1] = family
    BY <1>2 DEF Like
  <2>2. family \in Nat
    BY <1>1, <1>2, <2>1, EnumIs DEF Like
  <2>3. /\ edit.k = 2 /\ edit.n \in DOMAIN Items[family + 1]
        /\ value \in FromJson(describe_enum(family, edit.n))
    BY <1>1, <1>2, <2>1 DEF ChoiceOf
  <2>4. PICK m \in enumFromScalar(family, value) : now = Numbers("Enum", <<family, m>>)
    BY <1>1, <1>2, <2>1 DEF Assigned
  <2>. HIDE DEF family
  <2>5. m = edit.n /\ edit.n \in Nat
    BY <1>2, <2>2, <2>3, <2>4, ChoiceBack, GameAssumption DEF family
  <2>6. IsDomValue(now) /\ now.kind = "Enum" /\ now.nums[1] = family /\ now.nums[2] = edit.n
    BY <2>2, <2>4, <2>5, EnumFits DEF Numbers
  <2>7. ReadAs("Enum") = "Enum" /\ Arity["Enum"] = 2 /\ "Enum" \notin Colors
    BY DEF ReadAs, Scalars, Arity, Colors
  <2>8. KeepsTheRest(edit.was, edit.k, edit.n, now)
    <3>1. \A i \in 1..2 : i = 1 \/ i = 2
      OBVIOUS
    <3>. QED
      BY <1>1, <1>2, <2>1, <2>3, <2>6, <2>7, <3>1 DEF KeepsTheRest, Near
  <2>9. Like(now, u)
    BY <1>2, <2>6 DEF Like, family
  <2>. QED
    BY <2>8, <2>9
<1>3. CASE u.kind # "Enum"
  <2>1. now = value /\ value.kind = u.kind
    BY <1>1, <1>3 DEF Assigned
  <2>2. EditOf(edit, value)
    BY <1>1, <1>3
  <2>3. value.kind # "Ref"
    BY <2>2 DEF EditOf, Storable, AttributeKinds
  <2>4. Like(now, u)
    BY <1>3, <2>1, <2>2, <2>3 DEF Like, EditOf, Storable
  <2>5. ~ (Flattens(edit.was, edit.k) /\ value.kind = "Vector2")
    BY <1>1, <2>1 DEF Flattens
  <2>. QED
    BY <2>1, <2>2, <2>4, <2>5 DEF EditOf
<1>. QED
  BY <1>2, <1>3

\* What is entered in the inspector is an edit of the value that is shown there.
LEMMA EditFits ==
    ASSUME NEW v, IsDomValue(v), NEW e \in Edits(v), NEW value \in FromJson(e.json),
           NEW edit, edit = [was |-> e.was, k |-> e.k, n |-> e.n]
    PROVE  /\ edit.was = v /\ edit # <<>>
           /\ IF v.kind = "Enum" THEN ChoiceOf(edit, value) ELSE EditOf(edit, value)
<1>0. edit # <<>>
  <2>1. DOMAIN edit = {"was", "k", "n"}
    OBVIOUS
  <2>2. DOMAIN <<>> = {}
    OBVIOUS
  <2>. QED
    BY <2>1, <2>2
<1>1. CASE v.kind = "Enum"
  <2>1. PICK n \in DOMAIN Items[v.nums[1] + 1] :
          e = [was |-> v, k |-> 2, n |-> n, json |-> describe_enum(v.nums[1], n)]
    BY <1>1 DEF Edits
  <2>. QED
    BY <1>0, <1>1, <2>1 DEF ChoiceOf
<1>2. CASE v.kind # "Enum"
  <2>1. v.kind \in DOMAIN Paths
    BY <1>2 DEF Edits
  <2>2. PICK k \in 1..Arity[v.kind], n \in Samples :
          e = [was |-> v, k |-> k, n |-> n, json |-> Edited(describe(v), Paths[v.kind][k], n)]
    BY <1>2, <2>1 DEF Edits
  <2>3. n \in Int
    BY GameAssumption
  <2>4. /\ KeepsTheRest(v, k, n, value) \/ (Flattens(v, k) /\ value.kind = "Vector2")
        /\ Storable(value)
    BY <2>1, <2>2, <2>3, EditsRoundTrip
  <2>. QED
    BY <1>0, <1>2, <2>2, <2>4 DEF EditOf
<1>. QED
  BY <1>1, <1>2

LEMMA RestrictFits ==
    ASSUME NEW i, NEW values, PropsFit(i, values), NEW S, S \subseteq DOMAIN values
    PROVE  PropsFit(i, Restrict(values, S))
  BY DEF PropsFit, Restrict

LEMMA InitialFits ==
    ASSUME NEW i \in Nodes
    PROVE  PropsFit(i, Initial[Class[i]])
  BY GameAssumption DEF PropsFit, Like

LEMMA RefsOf ==
    ASSUME NEW i, NEW values, PropsFit(i, values)
    PROVE  Refs(values) \subseteq Refs(Initial[Class[i]])
  BY DEF PropsFit, Like, Refs

LEMMA AttrsOf == AttrsFit(Empty)
  BY DEF AttrsFit, Empty

(***************************************************************************)
(* Trees that stay trees.                                                  *)
(***************************************************************************)
LEMMA AboveIs ==
    ASSUME NEW tree, Acyclic(tree), NEW p \in DOMAIN tree
    PROVE  Above(tree, p) = {p} \cup (IF tree[p] \in DOMAIN tree THEN Above(tree, tree[p]) ELSE {})
<1>. DEFINE f == CHOOSE g : g = [j \in DOMAIN tree |->
                     {j} \cup (IF tree[j] \in DOMAIN tree THEN g[tree[j]] ELSE {})]
<1>1. \A q \in DOMAIN tree : Above(tree, q) = f[q]
  BY DEF Above
<1>2. IsRise(f, tree, DOMAIN tree)
  <2>1. \E g : g = [j \in DOMAIN tree |->
                     {j} \cup (IF tree[j] \in DOMAIN tree THEN g[tree[j]] ELSE {})]
    BY RiseExists DEF IsRise
  <2>. QED
    BY <2>1 DEF IsRise
<1>. HIDE DEF f
<1>3. f[p] = {p} \cup (IF tree[p] \in DOMAIN tree THEN f[tree[p]] ELSE {})
  BY <1>2 DEF IsRise
<1>. QED
  BY <1>1, <1>3

\* Instances lose their parent.
LEMMA CutAcyclic ==
    ASSUME NEW tree, Acyclic(tree), NEW after, DOMAIN after = DOMAIN tree,
           \A j \in DOMAIN tree : after[j] = tree[j] \/ after[j] \notin DOMAIN tree
    PROVE  Acyclic(after)
  BY DEF Acyclic

\* An instance gets a parent that is not under it.
LEMMA HangAcyclic ==
    ASSUME NEW tree, Acyclic(tree), NEW i \in DOMAIN tree, NEW p,
           p \in DOMAIN tree => i \notin Above(tree, p)
    PROVE  Acyclic([tree EXCEPT ![i] = p])
<1>. DEFINE after == [tree EXCEPT ![i] = p]
<1>1. DOMAIN after = DOMAIN tree /\ after[i] = p /\ \A j \in DOMAIN tree \ {i} : after[j] = tree[j]
  OBVIOUS
<1>. HIDE DEF after
<1>2. SUFFICES ASSUME NEW S \in SUBSET DOMAIN tree, S # {}, \A j \in S : after[j] \in S
               PROVE  FALSE
  BY <1>1 DEF Acyclic, after
<1>3. CASE i \notin S
  <2>1. \A j \in S : tree[j] \in S
    BY <1>1, <1>2, <1>3
  <2>. QED
    BY <1>2, <2>1 DEF Acyclic
<1>4. CASE i \in S
  <2>1. p \in S
    BY <1>1, <1>2, <1>4
  <2>2. p \in DOMAIN tree
    BY <2>1
  <2>. DEFINE W == S \cap Above(tree, p)
  <2>3. p \in W /\ W \subseteq DOMAIN tree /\ i \notin W
    BY <2>1, <2>2, AboveFacts
  <2>4. ASSUME NEW j \in W PROVE tree[j] \in W
    <3>1. tree[j] \in S
      BY <1>1, <1>2, <2>3
    <3>. QED
      BY <2>2, <3>1, AboveFacts
  <2>. HIDE DEF W
  <2>. QED
    BY <2>3, <2>4 DEF Acyclic
<1>. QED
  BY <1>3, <1>4

\* An instance that is not there, nor anyone's parent, is added.
LEMMA PutAcyclic ==
    ASSUME NEW tree, Acyclic(tree), NEW i, i \notin DOMAIN tree, NEW p, p # i,
           \A j \in DOMAIN tree : tree[j] # i
    PROVE  Acyclic(Put(tree, i, p))
<1>. DEFINE after == Put(tree, i, p)
<1>1. DOMAIN after = DOMAIN tree \cup {i} /\ after[i] = p /\ \A j \in DOMAIN tree : after[j] = tree[j]
  BY DEF Put
<1>. HIDE DEF after
<1>2. SUFFICES ASSUME NEW S \in SUBSET (DOMAIN tree \cup {i}), S # {}, \A j \in S : after[j] \in S
               PROVE  FALSE
  BY <1>1 DEF Acyclic, after
<1>3. \A j \in S \ {i} : tree[j] \in S \ {i}
  BY <1>1, <1>2
<1>4. S \ {i} # {}
  BY <1>1, <1>2
<1>5. S \ {i} \in SUBSET DOMAIN tree
  OBVIOUS
<1>. QED
  BY <1>3, <1>4, <1>5 DEF Acyclic

\* What is outside the game is not above what is inside.
LEMMA NotAbove ==
    ASSUME NEW tree, Acyclic(tree), NEW i \in DOMAIN tree, tree[i] \notin DOMAIN tree, tree[i] # Root, Root \notin DOMAIN tree,
           NEW p \in DOMAIN tree, Inside(tree, p)
    PROVE  i \notin Above(tree, p)
<1>. SUFFICES ASSUME i \in Above(tree, p) PROVE FALSE
  OBVIOUS
<1>1. PICK a \in Above(tree, p) : tree[a] = Root
  BY DEF Inside
<1>. DEFINE C == {j \in DOMAIN tree : i \in Above(tree, j)}
<1>2. \A j \in C \cap DOMAIN tree : tree[j] \in DOMAIN tree => tree[j] \in C
  BY AboveIs
<1>3. p \in C
  OBVIOUS
<1>. HIDE DEF C
<1>4. Above(tree, p) \subseteq C
  BY <1>2, <1>3, AboveFacts
<1>5. a \in DOMAIN tree /\ i \in Above(tree, a)
  BY <1>1, <1>4 DEF C
<1>. QED
  BY <1>1, <1>5, AboveIs

\* What SyncNode sends is of the tree, and what was asked for is among it.
LEMMA MirrorAllIs ==
    ASSUME NEW tree, Acyclic(tree), NEW known, NEW S, S \subseteq DOMAIN tree
    PROVE  LET ups == [j \in UNION {Mirrored(tree, DOMAIN known, i) : i \in S} |->
                         IF tree[j] = Nowhere THEN Root ELSE tree[j]]
               m   == MirrorAll(tree, known, S)
           IN  /\ m = [known |-> Over(ups, known), frames |-> IF S = {} THEN <<>> ELSE <<Patch(ups, {})>>]
               /\ S \subseteq DOMAIN ups /\ DOMAIN ups \subseteq DOMAIN tree
               /\ DOMAIN m.known = DOMAIN ups \cup DOMAIN known
<1>. DEFINE ups == [j \in UNION {Mirrored(tree, DOMAIN known, i) : i \in S} |->
                      IF tree[j] = Nowhere THEN Root ELSE tree[j]]
            m   == MirrorAll(tree, known, S)
<1>1. m = [known |-> Over(ups, known), frames |-> IF S = {} THEN <<>> ELSE <<Patch(ups, {})>>]
  BY DEF MirrorAll
<1>2. DOMAIN ups = UNION {Mirrored(tree, DOMAIN known, i) : i \in S}
  OBVIOUS
<1>3. S \subseteq DOMAIN ups /\ DOMAIN ups \subseteq DOMAIN tree
  BY <1>2, MirroredFacts
<1>4. DOMAIN m.known = DOMAIN ups \cup DOMAIN known
  <2>. HIDE DEF ups
  <2>. QED
    BY <1>1 DEF Over
<1>. QED
  BY <1>1, <1>3, <1>4

LEMMA MirrorAllOf ==
    ASSUME NEW tree, Acyclic(tree), NEW known, DOMAIN known \subseteq DOMAIN tree,
           NEW S, S \subseteq DOMAIN tree
    PROVE  DOMAIN MirrorAll(tree, known, S).known \subseteq DOMAIN tree
<1>. DEFINE ups == [j \in UNION {Mirrored(tree, DOMAIN known, i) : i \in S} |->
                      IF tree[j] = Nowhere THEN Root ELSE tree[j]]
            m   == MirrorAll(tree, known, S)
<1>1. DOMAIN ups \subseteq DOMAIN tree /\ DOMAIN m.known = DOMAIN ups \cup DOMAIN known
  BY MirrorAllIs
<1>. HIDE DEF ups, m
<1>2. DOMAIN m.known \subseteq DOMAIN tree
  BY <1>1
<1>. QED
  BY <1>2 DEF m

LEMMA PrunedOf ==
    ASSUME NEW known, NEW leaving
    PROVE  DOMAIN Pruned(known, leaving).known \subseteq DOMAIN known
<1>. DEFINE gone == UNION {Under(known, i) : i \in leaving \cap DOMAIN known}
<1>1. Pruned(known, leaving).known = Restrict(known, DOMAIN known \ gone)
  BY DEF Pruned
<1>. HIDE DEF gone
<1>. QED
  BY <1>1 DEF Restrict

(***************************************************************************)
(* The steps, for values.                                                  *)
(***************************************************************************)
\* Nothing is asked or answered.
LEMMA FitQuiet ==
    ASSUME VInv, ToSet(inbox)' \subseteq ToSet(inbox),
           \A m \in ToSet(wire)' : IsAnswer(m) => m \in ToSet(wire),
           DOMAIN tasks' \subseteq DOMAIN tasks,
           \A t \in DOMAIN tasks' : tasks'[t].node = tasks[t].node,
           GameFits', ValuesFit', ResultsFit', ViewFits', EditsKeepTheRest'
    PROVE  VInv'
<1>1. AsksFit'
  BY DEF VInv, AsksFit
<1>2. AnswersFit'
  BY DEF VInv, AnswersFit, IsAnswer
<1>. QED
  BY <1>1, <1>2 DEF VInv

LEMMA NothingMade ==
    ASSUME VInv, UNCHANGED made
    PROVE  EditsKeepTheRest'
  BY DEF VInv, EditsKeepTheRest

LEMMA SameTree ==
    ASSUME VInv, UNCHANGED live, DOMAIN parents' \subseteq DOMAIN live
    PROVE  GameFits'
  BY DEF VInv, GameFits

LEMMA SameValues ==
    ASSUME VInv, UNCHANGED gameVars
    PROVE  ValuesFit' /\ UNCHANGED live
<1>1. UNCHANGED <<live, props, attrs>>
  BY DEF gameVars
<1>. QED
  BY <1>1 DEF VInv, ValuesFit

LEMMA FitAnswered ==
    ASSUME IInv, VInv, inbox # <<>>, NEW known, NEW frames, ArePatches(frames), NEW result,
           Apply(known, frames, result), ReadFits(Todo.node, result),
           GameFits', ValuesFit', EditsKeepTheRest'
    PROVE  VInv'
<1>. DEFINE answer == [id |-> Head(inbox).id, result |-> result]
<1>1. /\ inbox' = Tail(inbox) /\ wire' = (wire \o frames) \o <<answer>>
      /\ UNCHANGED <<tasks, view>>
  BY DEF Apply, brokerVars, verdeVars
<1>2. ToSet(inbox)' \subseteq ToSet(inbox) /\ Head(inbox) \in ToSet(inbox)
  BY <1>1, TailIs DEF IInv, Typed
<1>3. ToSet(wire)' = ToSet(wire) \cup ToSet(frames) \cup {answer}
  <2>1. IsSequence(wire \o frames) /\ ToSet(wire \o frames) = ToSet(wire) \cup ToSet(frames)
    BY ConcatIs DEF IInv, Typed, ArePatches
  <2>2. ToSet((wire \o frames) \o <<answer>>) = ToSet(wire \o frames) \cup {answer}
    BY <2>1, OneIs, ConcatIs
  <2>. QED
    BY <1>1, <2>1, <2>2
<1>4. \A m \in ToSet(wire)' : IsAnswer(m) => m \in ToSet(wire) \/ m = answer
  BY <1>3 DEF ArePatches
<1>5. answer.id \in DOMAIN tasks => ReadFits(tasks[answer.id].node, answer.result)
  BY <1>2 DEF VInv, AsksFit, Todo
<1>. HIDE DEF answer
<1>6. AsksFit'
  BY <1>1, <1>2 DEF VInv, AsksFit
<1>7. AnswersFit'
  BY <1>1, <1>4, <1>5 DEF VInv, AnswersFit, IsAnswer
<1>8. ResultsFit' /\ ViewFits'
  BY <1>1 DEF VInv, ResultsFit, ViewFits
<1>. QED
  BY <1>6, <1>7, <1>8 DEF VInv

\* The answer is not a read, and no value changes.
LEMMA FitDone ==
    ASSUME IInv, VInv, inbox # <<>>, NEW known, NEW frames, ArePatches(frames), NEW result,
           Apply(known, frames, result), result.type # "Reads",
           DOMAIN known \subseteq DOMAIN live, UNCHANGED <<gameVars, made>>
    PROVE  VInv'
<1>1. ReadFits(Todo.node, result) /\ parents' = known
  BY DEF ReadFits, Apply
<1>2. GameFits' /\ ValuesFit' /\ EditsKeepTheRest'
  BY <1>1, SameTree, SameValues, NothingMade
<1>. QED
  BY <1>1, <1>2, FitAnswered

LEMMA FitRefuse ==
    ASSUME IInv, VInv, inbox # <<>>, NEW code, Refuse(code)
    PROVE  VInv'
<1>1. Apply(parents, <<>>, Err(code)) /\ UNCHANGED <<gameVars, made>>
  BY DEF Refuse
<1>2. DOMAIN parents \subseteq DOMAIN live
  BY DEF VInv, GameFits
<1>. QED
  BY <1>1, <1>2, NonePatched, NoReads, FitDone

\* What is refreshed is of the game.
LEMMA RefreshedOf ==
    ASSUME VInv, Resolved(Todo.node)
    PROVE  DOMAIN Refreshed(live, parents).known \subseteq DOMAIN live
<1>1. Acyclic(live) /\ DOMAIN parents \subseteq DOMAIN live /\ Todo.node \in DOMAIN live
  BY DEF VInv, GameFits, Resolved
<1>. QED
  BY <1>1, MirrorAllOf DEF Refreshed

LEMMA FitSetProperty ==
    ASSUME IInv, VInv, SetProperty
    PROVE  VInv'
<1>1. inbox # <<>> /\ Todo.type = "SetProperty" /\ Resolved(Todo.node)
  BY DEF SetProperty, On
<1>2. CASE Refuse("assign_failed")
  BY <1>1, <1>2, FitRefuse
<1>3. CASE ~ Refuse("assign_failed")
  <2>. DEFINE i == Todo.node
              p == Todo.name
              m == Refreshed(live, parents)
  <2>1. p \in DOMAIN props[i]
    BY <1>3 DEF SetProperty
  <2>2. PICK v \in Assigned(props[i][p], Todo.value) :
          /\ props' = [props EXCEPT ![i][p] = v]
          /\ Apply(m.known, m.frames, Ok)
          /\ Note(Todo.edit, FALSE, v)
          /\ UNCHANGED <<live, attrs>>
    BY <1>3, Zenon DEF SetProperty
  <2>3. i \in DOMAIN live /\ i \in Nodes
    BY <1>1 DEF VInv, GameFits, Resolved
  <2>4. PropsFit(i, props[i]) /\ AttrsFit(attrs[i]) /\ DOMAIN props = DOMAIN live /\ DOMAIN attrs = DOMAIN live
    BY <2>3 DEF VInv, ValuesFit
  <2>. DEFINE u == Initial[Class[i]][p]
  <2>5. p \in DOMAIN Initial[Class[i]] /\ Like(props[i][p], u)
    BY <2>1, <2>4 DEF PropsFit
  <2>6. u.kind = "Enum" => u.nums[1] + 1 \in DOMAIN Items
    BY <2>3, <2>5, GameAssumption
  <2>7. /\ Todo.edit # <<>> /\ Like(Todo.edit.was, u)
        /\ IF Todo.edit.was.kind = "Enum" THEN ChoiceOf(Todo.edit, Todo.value)
                                          ELSE EditOf(Todo.edit, Todo.value)
    <3>1. Head(inbox) \in ToSet(inbox)
      BY <1>1, TailIs DEF IInv, Typed
    <3>. QED
      BY <1>1, <3>1 DEF VInv, AsksFit, OpFits, Todo
  <2>. HIDE DEF u
  <2>8. Like(v, u) /\ KeepsTheRest(Todo.edit.was, Todo.edit.k, Todo.edit.n, v)
    BY <2>5, <2>6, <2>7, AssignFits
  <2>9. EditsKeepTheRest'
    <3>1. made' = [was |-> Todo.edit.was, k |-> Todo.edit.k, n |-> Todo.edit.n,
                   attribute |-> FALSE, now |-> v]
      BY <2>2, <2>7 DEF Note
    <3>. QED
      BY <2>8, <3>1 DEF EditsKeepTheRest
  <2>10. ValuesFit'
    <3>1. /\ DOMAIN props' = DOMAIN props
          /\ \A j \in DOMAIN props : j # i => props'[j] = props[j]
          /\ props'[i] = [props[i] EXCEPT ![p] = v]
      BY <2>2, <2>3, <2>4
    <3>2. PropsFit(i, props'[i])
      <4>1. DOMAIN props'[i] = DOMAIN props[i] /\ \A q \in DOMAIN props[i] :
              props'[i][q] = IF q = p THEN v ELSE props[i][q]
        BY <3>1
      <4>. QED
        BY <2>4, <2>8, <4>1 DEF PropsFit, u
    <3>. HIDE DEF i, p
    <3>. QED
      BY <2>2, <2>4, <3>1, <3>2 DEF VInv, ValuesFit
  <2>11. ArePatches(m.frames) /\ DOMAIN m.known \subseteq DOMAIN live
    BY <1>1, MirrorFrames, RefreshedOf DEF Refreshed
  <2>12. GameFits'
    BY <2>2, <2>11, SameTree DEF Apply
  <2>13. ReadFits(Todo.node, Ok)
    BY NoReads DEF ReadFits
  <2>. HIDE DEF m
  <2>. QED
    BY <1>1, <2>2, <2>9, <2>10, <2>11, <2>12, <2>13, FitAnswered
<1>. QED
  BY <1>2, <1>3

LEMMA FitAttrs ==
    ASSUME IInv, VInv, inbox # <<>>, Resolved(Todo.node), Apply(parents, <<>>, Ok),
           UNCHANGED <<live, props>>, NEW f, AttrsFit(f),
           attrs' = [attrs EXCEPT ![Todo.node] = f], EditsKeepTheRest'
    PROVE  VInv'
<1>1. Todo.node \in DOMAIN live /\ DOMAIN attrs = DOMAIN live /\ DOMAIN parents \subseteq DOMAIN live
  BY DEF VInv, GameFits, ValuesFit, Resolved
<1>2. /\ DOMAIN attrs' = DOMAIN live
      /\ \A j \in DOMAIN live : attrs'[j] = IF j = Todo.node THEN f ELSE attrs[j]
  BY <1>1
<1>3. ValuesFit'
  BY <1>2 DEF VInv, ValuesFit
<1>4. GameFits'
  BY <1>1, SameTree DEF Apply
<1>. QED
  BY <1>3, <1>4, NonePatched, NoReads, FitAnswered DEF ReadFits

LEMMA FitSetAttribute ==
    ASSUME IInv, VInv, SetAttribute
    PROVE  VInv'
<1>. DEFINE i == Todo.node
            f == Put(attrs[i], Todo.name, Todo.value)
<1>1. /\ inbox # <<>> /\ Todo.type = "SetAttribute" /\ Resolved(i) /\ Apply(parents, <<>>, Ok)
      /\ UNCHANGED <<live, props>> /\ Note(Todo.edit, TRUE, Todo.value)
      /\ attrs' = [attrs EXCEPT ![i] = Put(@, Todo.name, Todo.value)]
  BY DEF SetAttribute, On
<1>2. i \in DOMAIN attrs /\ AttrsFit(attrs[i])
  BY <1>1 DEF VInv, GameFits, ValuesFit, Resolved
<1>3. Storable(Todo.value) /\ (Todo.edit # <<>> => EditOf(Todo.edit, Todo.value))
  <2>1. Head(inbox) \in ToSet(inbox)
    BY <1>1, TailIs DEF IInv, Typed
  <2>. QED
    BY <1>1, <2>1 DEF VInv, AsksFit, OpFits, Todo
<1>4. AttrsFit(f)
  <2>1. /\ DOMAIN f = DOMAIN attrs[i] \cup {Todo.name}
        /\ \A a \in DOMAIN f : f[a] = IF a = Todo.name THEN Todo.value ELSE attrs[i][a]
    BY DEF Put
  <2>. HIDE DEF f
  <2>. QED
    BY <1>2, <1>3, <2>1 DEF AttrsFit
<1>5. attrs' = [attrs EXCEPT ![i] = f]
  BY <1>1, <1>2
<1>6. EditsKeepTheRest'
  <2>1. CASE Todo.edit = <<>>
    BY <1>1, <2>1, NothingMade DEF Note
  <2>2. CASE Todo.edit # <<>>
    <3>1. made' = [was |-> Todo.edit.was, k |-> Todo.edit.k, n |-> Todo.edit.n,
                   attribute |-> TRUE, now |-> Todo.value]
      BY <1>1, <2>2 DEF Note
    <3>. QED
      BY <1>3, <2>2, <3>1 DEF EditsKeepTheRest, EditOf
  <2>. QED
    BY <2>1, <2>2
<1>. HIDE DEF f
<1>. QED
  BY <1>1, <1>4, <1>5, <1>6, FitAttrs

LEMMA FitRemoveAttribute ==
    ASSUME IInv, VInv, RemoveAttribute
    PROVE  VInv'
<1>. DEFINE i == Todo.node
            f == Restrict(attrs[i], DOMAIN attrs[i] \ {Todo.name})
<1>1. /\ inbox # <<>> /\ Resolved(i) /\ Apply(parents, <<>>, Ok)
      /\ UNCHANGED <<live, props, made>>
      /\ attrs' = [attrs EXCEPT ![i] = Restrict(@, DOMAIN @ \ {Todo.name})]
  BY DEF RemoveAttribute, On
<1>2. i \in DOMAIN attrs /\ AttrsFit(attrs[i])
  BY <1>1 DEF VInv, GameFits, ValuesFit, Resolved
<1>3. AttrsFit(f)
  BY <1>2 DEF AttrsFit, Restrict
<1>4. attrs' = [attrs EXCEPT ![i] = f]
  BY <1>1, <1>2
<1>5. EditsKeepTheRest'
  BY <1>1, NothingMade
<1>. HIDE DEF f
<1>. QED
  BY <1>1, <1>3, <1>4, <1>5, FitAttrs

LEMMA FitRenameAttribute ==
    ASSUME IInv, VInv, RenameAttribute
    PROVE  VInv'
<1>. DEFINE i == Todo.node
            before == attrs[i]
            others == Restrict(before, DOMAIN before \ {Todo.old, Todo.new})
            f == IF Todo.old = Todo.new THEN before
                 ELSE IF Todo.old \notin DOMAIN before THEN others
                 ELSE Put(others, Todo.new, before[Todo.old])
<1>1. /\ inbox # <<>> /\ Resolved(i) /\ Apply(parents, <<>>, Ok)
      /\ UNCHANGED <<live, props, made>> /\ attrs' = [attrs EXCEPT ![i] = f]
  BY DEF RenameAttribute, On
<1>2. AttrsFit(before)
  BY <1>1 DEF VInv, GameFits, ValuesFit, Resolved
<1>3. /\ DOMAIN others \subseteq DOMAIN before
      /\ \A a \in DOMAIN others : others[a] = before[a]
  BY DEF Restrict
<1>. HIDE DEF others, before
<1>4. AttrsFit(others)
  BY <1>2, <1>3 DEF AttrsFit
<1>5. CASE Todo.old = Todo.new \/ Todo.old \notin DOMAIN before
  <2>1. AttrsFit(f)
    BY <1>2, <1>4, <1>5
  <2>. HIDE DEF f
  <2>. QED
    BY <1>1, <2>1, NothingMade, FitAttrs
<1>6. CASE Todo.old # Todo.new /\ Todo.old \in DOMAIN before
  <2>1. f = Put(others, Todo.new, before[Todo.old])
    BY <1>6
  <2>. HIDE DEF f
  <2>2. /\ DOMAIN f = DOMAIN others \cup {Todo.new}
        /\ \A a \in DOMAIN f : f[a] = IF a = Todo.new THEN before[Todo.old] ELSE others[a]
    BY <2>1 DEF Put
  <2>3. AttrsFit(f)
    BY <1>2, <1>4, <1>6, <2>2 DEF AttrsFit
  <2>. QED
    BY <1>1, <2>3, NothingMade, FitAttrs
<1>. QED
  BY <1>5, <1>6

LEMMA FitDelete ==
    ASSUME IInv, VInv, Delete
    PROVE  VInv'
<1>. DEFINE m == Pruned(parents, Leaving(live, Todo.node, Nowhere))
<1>1. /\ inbox # <<>> /\ Apply(m.known, m.frames, Ok) /\ UNCHANGED <<props, attrs, made>>
      /\ live' = [j \in DOMAIN live |-> IF j \in Under(live, Todo.node) THEN Nowhere ELSE live[j]]
  BY DEF Delete, On
<1>2. ArePatches(m.frames) /\ DOMAIN m.known \subseteq DOMAIN parents
  BY PrunedFrames, PrunedOf
<1>. HIDE DEF m
<1>3. /\ DOMAIN live \subseteq Nodes /\ Acyclic(live) /\ DOMAIN parents \subseteq DOMAIN live
      /\ \A i \in DOMAIN live : live[i] \in DOMAIN live \cup {Root, Nowhere}
  BY DEF VInv, GameFits
<1>4. DOMAIN live' = DOMAIN live /\ \A j \in DOMAIN live : live'[j] = live[j] \/ live'[j] = Nowhere
  BY <1>1
<1>5. Acyclic(live')
  BY <1>3, <1>4, CutAcyclic, VerdeOpsAssumption
<1>6. GameFits'
  <2>1. parents' = m.known
    BY <1>1 DEF Apply
  <2>. QED
    BY <1>2, <1>3, <1>4, <1>5, <2>1 DEF VInv, GameFits
<1>7. ValuesFit' /\ EditsKeepTheRest'
  BY <1>1, <1>4, NothingMade DEF VInv, ValuesFit
<1>8. ReadFits(Todo.node, Ok)
  BY NoReads DEF ReadFits
<1>. QED
  BY <1>1, <1>2, <1>6, <1>7, <1>8, FitAnswered

\* An instance of the game gets another parent.
LEMMA Hung ==
    ASSUME VInv, NEW i \in DOMAIN live, NEW p \in DOMAIN live \cup {Root, Nowhere},
           p \in DOMAIN live => i \notin Above(live, p), live' = [live EXCEPT ![i] = p],
           UNCHANGED <<props, attrs>>
    PROVE  /\ Acyclic(live') /\ DOMAIN live' = DOMAIN live /\ ValuesFit'
           /\ DOMAIN parents' \subseteq DOMAIN live => GameFits'
<1>1. /\ DOMAIN live \subseteq Nodes /\ Acyclic(live)
      /\ \A j \in DOMAIN live : live[j] \in DOMAIN live \cup {Root, Nowhere}
  BY DEF VInv, GameFits
<1>2. Acyclic(live')
  BY <1>1, HangAcyclic
<1>3. DOMAIN live' = DOMAIN live /\ \A j \in DOMAIN live : live'[j] \in DOMAIN live \cup {Root, Nowhere}
  BY <1>1
<1>4. ValuesFit'
  BY <1>3 DEF VInv, ValuesFit
<1>5. DOMAIN parents' \subseteq DOMAIN live => GameFits'
  BY <1>2, <1>3 DEF VInv, GameFits
<1>. QED
  BY <1>2, <1>3, <1>4, <1>5

LEMMA FitMove ==
    ASSUME IInv, VInv, Move
    PROVE  VInv'
<1>1. inbox # <<>> /\ Resolved(Todo.node)
  BY DEF Move, On
<1>2. CASE Todo.parent \in Under(live, Todo.node)
  BY <1>1, <1>2, FitRefuse DEF Move
<1>3. CASE Todo.parent \notin Under(live, Todo.node)
  <2>. DEFINE i == Todo.node
              p == Todo.parent
              out == Pruned(parents, Leaving(live, i, p))
              m   == IF p = Nowhere THEN [known |-> out.known, frames |-> <<>>]
                                    ELSE Refreshed(live', out.known)
  <2>1. /\ p = Nowhere \/ Resolved(p)
        /\ live' = [live EXCEPT ![i] = p] /\ UNCHANGED <<props, attrs, made>>
        /\ Apply(m.known, out.frames \o m.frames, Ok)
    BY <1>3 DEF Move
  <2>2. i \in DOMAIN live /\ p \in DOMAIN live \cup {Root, Nowhere} /\ DOMAIN parents \subseteq DOMAIN live
    BY <1>1, <2>1 DEF VInv, GameFits, Resolved
  <2>3. p \in DOMAIN live => i \notin Above(live, p)
    BY <1>3 DEF Under
  <2>4. /\ Acyclic(live') /\ DOMAIN live' = DOMAIN live /\ ValuesFit'
        /\ DOMAIN parents' \subseteq DOMAIN live => GameFits'
    BY <2>1, <2>2, <2>3, Hung
  <2>5. ArePatches(out.frames) /\ DOMAIN out.known \subseteq DOMAIN live
    BY <2>2, PrunedFrames, PrunedOf
  <2>. HIDE DEF out
  <2>6. ArePatches(m.frames) /\ DOMAIN m.known \subseteq DOMAIN live
    <3>1. CASE p = Nowhere
      BY <2>5, <3>1, NonePatched
    <3>2. CASE p # Nowhere
      <4>1. m = MirrorAll(live', out.known, {i})
        BY <3>2 DEF Refreshed
      <4>2. {i} \subseteq DOMAIN live'
        BY <2>2, <2>4
      <4>. HIDE DEF m
      <4>. QED
        BY <2>4, <2>5, <4>1, <4>2, MirrorFrames, MirrorAllOf
    <3>. QED
      BY <3>1, <3>2
  <2>. HIDE DEF m
  <2>7. ArePatches(out.frames \o m.frames)
    BY <2>5, <2>6, BothPatched
  <2>8. GameFits' /\ EditsKeepTheRest' /\ ReadFits(Todo.node, Ok)
    BY <2>1, <2>4, <2>6, NothingMade, NoReads DEF Apply, ReadFits
  <2>. QED
    BY <1>1, <2>1, <2>4, <2>7, <2>8, FitAnswered
<1>. QED
  BY <1>2, <1>3

LEMMA FitCreate ==
    ASSUME IInv, VInv, Create
    PROVE  VInv'
<1>1. inbox # <<>> /\ Resolved(Todo.node)
  BY DEF Create, On
<1>2. CASE Refuse("invalid_class")
  BY <1>1, <1>2, FitRefuse
<1>3. CASE ~ Refuse("invalid_class")
  <2>1. PICK i \in Nodes \ DOMAIN live :
            /\ Class[i] = Todo.class
            /\ live' = Put(live, i, Todo.node)
            /\ props' = Put(props, i, Initial[Todo.class])
            /\ attrs' = Put(attrs, i, Empty)
            /\ LET m == MirrorAll(live', parents, {i}) IN Apply(m.known, m.frames, Ok)
            /\ UNCHANGED made
    BY <1>3 DEF Create
  <2>. DEFINE m == MirrorAll(live', parents, {i})
  <2>2. /\ DOMAIN live \subseteq Nodes /\ Acyclic(live) /\ DOMAIN parents \subseteq DOMAIN live
        /\ \A j \in DOMAIN live : live[j] \in DOMAIN live \cup {Root, Nowhere}
        /\ \A j \in Nodes : Refs(Initial[Class[j]]) \subseteq DOMAIN live
        /\ Todo.node \in DOMAIN live
    BY <1>1 DEF VInv, GameFits, Resolved
  <2>3. i # Root /\ i # Nowhere
    BY VerdeOpsAssumption, TreesAssumption
  <2>4. Acyclic(live')
    BY <2>1, <2>2, <2>3, PutAcyclic
  <2>5. /\ DOMAIN live' = DOMAIN live \cup {i}
        /\ \A j \in DOMAIN live' : live'[j] = IF j = i THEN Todo.node ELSE live[j]
    BY <2>1 DEF Put
  <2>6. Apply(m.known, m.frames, Ok)
    BY <2>1
  <2>7. ArePatches(m.frames) /\ DOMAIN m.known \subseteq DOMAIN live'
    BY <2>2, <2>4, <2>5, MirrorFrames, MirrorAllOf
  <2>. HIDE DEF m
  <2>8. GameFits'
    <3>1. parents' = m.known
      BY <2>6 DEF Apply
    <3>2. DOMAIN live' \subseteq Nodes
      BY <2>2, <2>5
    <3>3. \A j \in DOMAIN live' : live'[j] \in DOMAIN live' \cup {Root, Nowhere}
      BY <2>2, <2>5
    <3>. QED
      BY <2>2, <2>4, <2>5, <2>7, <3>1, <3>2, <3>3 DEF GameFits
  <2>9. ValuesFit'
    <3>1. /\ DOMAIN props = DOMAIN live /\ DOMAIN attrs = DOMAIN live
          /\ \A j \in DOMAIN live : PropsFit(j, props[j]) /\ AttrsFit(attrs[j])
      BY DEF VInv, ValuesFit
    <3>2. /\ DOMAIN props' = DOMAIN live'
          /\ \A j \in DOMAIN live' : props'[j] = IF j = i THEN Initial[Class[i]] ELSE props[j]
      BY <2>1, <2>5, <3>1 DEF Put
    <3>3. /\ DOMAIN attrs' = DOMAIN live'
          /\ \A j \in DOMAIN live' : attrs'[j] = IF j = i THEN Empty ELSE attrs[j]
      BY <2>1, <2>5, <3>1 DEF Put
    <3>. QED
      BY <2>5, <3>1, <3>2, <3>3, InitialFits, AttrsOf DEF ValuesFit
  <2>10. EditsKeepTheRest' /\ ReadFits(Todo.node, Ok)
    BY <2>1, NothingMade, NoReads DEF ReadFits
  <2>. QED
    BY <1>1, <2>6, <2>7, <2>8, <2>9, <2>10, FitAnswered
<1>. QED
  BY <1>2, <1>3

\* What a read tells of, and what it refers to.
LEMMA ReadIs ==
    ASSUME VInv, NEW i \in DOMAIN live, NEW names, names \subseteq DOMAIN props[i]
    PROVE  /\ PropsFit(i, Restrict(props[i], names)) /\ AttrsFit(attrs[i])
           /\ Refs(Restrict(props[i], names)) \subseteq DOMAIN live
<1>1. PropsFit(i, props[i]) /\ AttrsFit(attrs[i])
  BY DEF VInv, ValuesFit
<1>2. PropsFit(i, Restrict(props[i], names))
  BY <1>1, RestrictFits
<1>3. Refs(Initial[Class[i]]) \subseteq DOMAIN live
  BY DEF VInv, GameFits
<1>. QED
  BY <1>1, <1>2, <1>3, RefsOf

LEMMA FitGetProperties ==
    ASSUME IInv, VInv, GetProperties
    PROVE  VInv'
<1>. DEFINE i     == Todo.node
            has   == DOMAIN props[i]
            names == (IF Todo.properties = {} THEN has ELSE Todo.properties \cap has) \ SKIP_PROPERTIES
            reads == [type  |-> "Reads", props |-> Restrict(props[i], names), attrs |-> attrs[i]]
            m     == MirrorAll(live, parents, Refs(reads.props))
<1>1. inbox # <<>> /\ Resolved(i) /\ Apply(m.known, m.frames, reads) /\ UNCHANGED <<gameVars, made>>
  BY DEF GetProperties, On
<1>2. /\ i \in DOMAIN live /\ Acyclic(live) /\ DOMAIN parents \subseteq DOMAIN live
      /\ names \subseteq DOMAIN props[i]
  BY <1>1 DEF VInv, GameFits, Resolved
<1>. HIDE DEF names
<1>3. /\ PropsFit(i, reads.props) /\ AttrsFit(reads.attrs)
      /\ Refs(reads.props) \subseteq DOMAIN live
  BY <1>2, ReadIs
<1>. HIDE DEF reads
<1>4. ArePatches(m.frames) /\ DOMAIN m.known \subseteq DOMAIN live
  BY <1>2, <1>3, MirrorFrames, MirrorAllOf
<1>. HIDE DEF m
<1>5. GameFits' /\ ValuesFit' /\ EditsKeepTheRest'
  BY <1>1, <1>4, SameTree, SameValues, NothingMade DEF Apply
<1>6. ReadFits(Todo.node, reads)
  BY <1>3 DEF ReadFits
<1>. QED
  BY <1>1, <1>4, <1>5, <1>6, FitAnswered

LEMMA FitSyncSnapshot ==
    ASSUME IInv, VInv, SyncSnapshot
    PROVE  VInv'
<1>. DEFINE here  == {i \in DOMAIN live : Inside(live, i)}
            sent  == MirrorAll(live, parents, here)
            after == Pruned(sent.known, DOMAIN sent.known \ here)
<1>1. /\ wire' = (wire \o sent.frames) \o after.frames /\ parents' = after.known
      /\ UNCHANGED <<gameVars, inbox, tasks, view, made>>
  BY DEF SyncSnapshot, brokerVars, verdeVars
<1>2. Acyclic(live) /\ DOMAIN parents \subseteq DOMAIN live /\ here \subseteq DOMAIN live
  BY DEF VInv, GameFits
<1>. HIDE DEF here
<1>3. ArePatches(sent.frames) /\ ArePatches(after.frames)
  BY MirrorFrames, PrunedFrames
<1>4. DOMAIN sent.known \subseteq DOMAIN live
  BY <1>2, MirrorAllOf
<1>5. DOMAIN after.known \subseteq DOMAIN live
  BY <1>4, PrunedOf
<1>. HIDE DEF sent, after
<1>6. \A m \in ToSet(wire)' : IsAnswer(m) => m \in ToSet(wire)
  <2>1. /\ IsSequence(wire \o sent.frames)
        /\ ToSet(wire \o sent.frames) = ToSet(wire) \cup ToSet(sent.frames)
    BY <1>3, ConcatIs DEF IInv, Typed, ArePatches
  <2>2. ToSet((wire \o sent.frames) \o after.frames)
          = ToSet(wire \o sent.frames) \cup ToSet(after.frames)
    BY <1>3, <2>1, ConcatIs DEF ArePatches
  <2>. QED
    BY <1>1, <1>3, <2>1, <2>2 DEF ArePatches
<1>7. GameFits' /\ ValuesFit' /\ EditsKeepTheRest'
  BY <1>1, <1>5, SameTree, SameValues, NothingMade
<1>8. ResultsFit' /\ ViewFits'
  BY <1>1 DEF VInv, ResultsFit, ViewFits
<1>. QED
  BY <1>1, <1>6, <1>7, <1>8, FitQuiet

LEMMA FitClient ==
    ASSUME IInv, VInv, Client
    PROVE  VInv'
<1>1. CASE UnknownNode
  BY <1>1, FitRefuse DEF UnknownNode
<1>2. CASE Rename
  <2>. DEFINE m == Refreshed(live, parents)
  <2>1. /\ inbox # <<>> /\ Resolved(Todo.node) /\ Apply(m.known, m.frames, Ok)
        /\ UNCHANGED <<gameVars, made>>
    BY <1>2 DEF Rename, On
  <2>2. ArePatches(m.frames) /\ DOMAIN m.known \subseteq DOMAIN live
    BY <2>1, MirrorFrames, RefreshedOf DEF Refreshed
  <2>. HIDE DEF m
  <2>. QED
    BY <2>1, <2>2, NoReads, FitDone
<1>3. CASE Tag \/ RunCode
  <2>1. /\ inbox # <<>> /\ UNCHANGED <<gameVars, made>>
        /\ Apply(parents, <<>>, Ok) \/ Apply(parents, <<>>, Output)
    BY <1>3 DEF Tag, RunCode, On
  <2>2. DOMAIN parents \subseteq DOMAIN live
    BY DEF VInv, GameFits
  <2>. QED
    BY <2>1, <2>2, NonePatched, NoReads, FitDone
<1>. QED
  BY <1>1, <1>2, <1>3, FitDelete, FitMove, FitCreate, FitSetProperty, FitSetAttribute,
     FitRemoveAttribute, FitRenameAttribute, FitGetProperties, FitSyncSnapshot DEF Client

\* An operation is sent that fits.
LEMMA FitRun ==
    ASSUME IInv, VInv, NEW raw, RunOperation(raw), \A op \in lower_operation(raw) : OpFits(op),
           raw.type = "GetProperties" =>
             \E i : raw = [type |-> "GetProperties", node |-> i, properties |-> {}]
    PROVE  VInv'
<1>1. UNCHANGED <<gameVars, parents, wire, view, made>>
  BY DEF RunOperation, verdeVars
<1>2. GameFits' /\ ValuesFit' /\ ViewFits' /\ EditsKeepTheRest'
  <2>1. GameFits'
    BY <1>1 DEF VInv, GameFits, gameVars
  <2>2. ViewFits'
    BY <1>1 DEF VInv, ViewFits
  <2>. QED
    BY <1>1, <2>1, <2>2, SameValues, NothingMade
<1>3. CASE lower_operation(raw) = {}
  <2>1. UNCHANGED <<tasks, inbox>>
    BY <1>3 DEF RunOperation
  <2>2. ResultsFit'
    BY <2>1 DEF VInv, ResultsFit
  <2>. QED
    BY <1>1, <1>2, <2>1, <2>2, FitQuiet
<1>4. CASE lower_operation(raw) # {}
  <2>0. PICK t0 \in Nat : t0 = asked + 1
    BY DEF IInv, Typed
  <2>1. PICK op \in lower_operation(raw) :
          /\ inbox' = Append(inbox, [id |-> asked + 1, op |-> Resolve(op)])
          /\ tasks' = Put(tasks, asked + 1,
                          [node |-> op.node, known |-> op.node \in DOMAIN mirror,
                           level |-> level, lost |-> {}, result |-> <<>>])
    BY <1>4 DEF RunOperation
  <2>. DEFINE request == [id |-> t0, op |-> Resolve(op)]
              task    == [node |-> op.node, known |-> op.node \in DOMAIN mirror,
                          level |-> level, lost |-> {}, result |-> <<>>]
  <2>2. ToSet(inbox)' = ToSet(inbox) \cup {request}
    BY <2>0, <2>1, AppendIs DEF IInv, Typed
  <2>3. /\ DOMAIN tasks' = DOMAIN tasks \cup {t0}
        /\ \A t \in DOMAIN tasks' : tasks'[t] = IF t = t0 THEN task ELSE tasks[t]
    BY <2>0, <2>1 DEF Put
  <2>4. \A t \in 1..asked : t # t0
    BY <2>0 DEF IInv, Typed
  <2>5. OpFits(Resolve(op)) /\ Resolve(op).node = op.node
    <3>1. CASE op.type = "GetProperties" /\ op.node \in DOMAIN mirror
      <4>1. PICK i : op = [type |-> "GetProperties", node |-> i, properties |-> {}]
        BY <3>1, Lowered
      <4>2. Resolve(op) = [op EXCEPT !.properties = class_properties(Class[op.node], level)]
        BY <3>1 DEF Resolve
      <4>3. Resolve(op).type = "GetProperties" /\ Resolve(op).node = op.node
        BY <4>1, <4>2
      <4>. QED
        BY <4>3 DEF OpFits
    <3>2. CASE ~ (op.type = "GetProperties" /\ op.node \in DOMAIN mirror)
      BY <3>2 DEF Resolve
    <3>. QED
      BY <3>1, <3>2
  <2>6. task.node = op.node /\ task.result = <<>> /\ request.op = Resolve(op) /\ request.id = t0
    OBVIOUS
  <2>. HIDE DEF task, request
  <2>7. AsksFit'
    <3>1. SUFFICES ASSUME NEW m \in ToSet(inbox)'
                   PROVE  OpFits(m.op) /\ (m.id \in DOMAIN tasks' => tasks'[m.id].node = m.op.node)
      BY DEF AsksFit
    <3>2. CASE m \in ToSet(inbox)
      BY <2>3, <2>4, <3>2 DEF VInv, AsksFit, IInv, Numbered
    <3>3. CASE m = request
      BY <2>3, <2>5, <2>6, <3>3
    <3>. QED
      BY <2>2, <3>2, <3>3
  <2>8. AnswersFit'
    <3>1. SUFFICES ASSUME NEW m \in ToSet(wire), IsAnswer(m), m.id \in DOMAIN tasks'
                   PROVE  ReadFits(tasks'[m.id].node, m.result)
      BY <1>1 DEF AnswersFit, IsAnswer
    <3>2. m.id # t0
      BY <2>4, <3>1 DEF IInv, Numbered
    <3>. QED
      BY <2>3, <3>1, <3>2 DEF VInv, AnswersFit
  <2>9. ResultsFit'
    BY <2>3, <2>6 DEF VInv, ResultsFit
  <2>. QED
    BY <1>2, <2>7, <2>8, <2>9 DEF VInv
<1>. QED
  BY <1>3, <1>4

\* Anything but a property or an attribute that is set.
LEMMA FitOther ==
    ASSUME IInv, VInv, NEW raw, RunOperation(raw),
           raw.type \notin {"GetProperties", "set_property", "set_attribute", "add_attribute",
                            "SetProperty", "SetAttribute"}
    PROVE  VInv'
<1>1. lower_operation(raw) = {raw}
  BY DEF lower_operation
<1>2. \A op \in lower_operation(raw) : OpFits(op)
  BY <1>1 DEF OpFits
<1>. QED
  BY <1>2, FitRun

LEMMA FitSetValue ==
    ASSUME IInv, VInv, view # <<>>,
           SetValue("set_property", view.props) \/ SetValue("set_attribute", view.attrs)
    PROVE  VInv'
<1>0. PropsFit(view.node, view.props) /\ AttrsFit(view.attrs)
  BY DEF VInv, ViewFits
<1>1. CASE SetValue("set_property", view.props)
  <2>1. PICK name \in DOMAIN view.props : \E e \in Edits(view.props[name]) :
          RunOperation([type |-> "set_property", node |-> view.node, name |-> name, json |-> e.json,
                        edit |-> [was |-> e.was, k |-> e.k, n |-> e.n]])
    BY <1>1 DEF SetValue
  <2>2. PICK e \in Edits(view.props[name]) :
          RunOperation([type |-> "set_property", node |-> view.node, name |-> name, json |-> e.json,
                        edit |-> [was |-> e.was, k |-> e.k, n |-> e.n]])
    BY <2>1
  <2>. DEFINE edit == [was |-> e.was, k |-> e.k, n |-> e.n]
              raw  == [type |-> "set_property", node |-> view.node, name |-> name, json |-> e.json,
                       edit |-> edit]
  <2>3. /\ name \in DOMAIN Initial[Class[view.node]]
        /\ Like(view.props[name], Initial[Class[view.node]][name])
    BY <1>0 DEF PropsFit
  <2>4. lower_operation(raw)
          = {[type |-> "SetProperty", node |-> view.node, name |-> name, value |-> v, edit |-> edit] :
               v \in FromJson(e.json)}
    BY DEF lower_operation
  <2>5. ASSUME NEW v \in FromJson(e.json)
        PROVE  /\ edit.was = view.props[name] /\ edit # <<>>
               /\ IF view.props[name].kind = "Enum" THEN ChoiceOf(edit, v) ELSE EditOf(edit, v)
    <3>1. IsDomValue(view.props[name])
      BY <2>3 DEF Like
    <3>. QED
      BY <3>1, EditFits
  <2>. HIDE DEF edit
  <2>6. ASSUME NEW op \in lower_operation(raw) PROVE OpFits(op)
    <3>1. PICK v \in FromJson(e.json) :
            op = [type |-> "SetProperty", node |-> view.node, name |-> name, value |-> v, edit |-> edit]
      BY <2>4
    <3>2. /\ op.type = "SetProperty" /\ op.node = view.node /\ op.name = name /\ op.value = v
          /\ op.edit = edit
      BY <3>1
    <3>. QED
      BY <2>3, <2>5, <3>2 DEF OpFits
  <2>7. RunOperation(raw) /\ raw.type # "GetProperties"
    BY <2>2 DEF edit
  <2>. HIDE DEF raw
  <2>. QED
    BY <2>6, <2>7, FitRun
<1>2. CASE SetValue("set_attribute", view.attrs)
  <2>1. PICK name \in DOMAIN view.attrs : \E e \in Edits(view.attrs[name]) :
          RunOperation([type |-> "set_attribute", node |-> view.node, name |-> name, json |-> e.json,
                        edit |-> [was |-> e.was, k |-> e.k, n |-> e.n]])
    BY <1>2 DEF SetValue
  <2>2. PICK e \in Edits(view.attrs[name]) :
          RunOperation([type |-> "set_attribute", node |-> view.node, name |-> name, json |-> e.json,
                        edit |-> [was |-> e.was, k |-> e.k, n |-> e.n]])
    BY <2>1
  <2>. DEFINE edit == [was |-> e.was, k |-> e.k, n |-> e.n]
              raw  == [type |-> "set_attribute", node |-> view.node, name |-> name, json |-> e.json,
                       edit |-> edit]
  <2>3. Storable(view.attrs[name]) /\ view.attrs[name].kind # "Enum"
    BY <1>0 DEF AttrsFit, Storable, AttributeKinds
  <2>4. lower_operation(raw)
          = {[type |-> "SetAttribute", node |-> view.node, name |-> name, value |-> v, edit |-> edit] :
               v \in FromJson(e.json)}
    BY DEF lower_operation
  <2>5. ASSUME NEW v \in FromJson(e.json)
        PROVE  edit # <<>> /\ EditOf(edit, v)
    <3>1. IsDomValue(view.attrs[name])
      BY <2>3 DEF Storable
    <3>. QED
      BY <2>3, <3>1, EditFits
  <2>. HIDE DEF edit
  <2>6. ASSUME NEW op \in lower_operation(raw) PROVE OpFits(op)
    <3>1. PICK v \in FromJson(e.json) :
            op = [type |-> "SetAttribute", node |-> view.node, name |-> name, value |-> v, edit |-> edit]
      BY <2>4
    <3>2. op.type = "SetAttribute" /\ op.value = v /\ op.edit = edit
      BY <3>1
    <3>. QED
      BY <2>5, <3>2 DEF OpFits, EditOf
  <2>7. RunOperation(raw) /\ raw.type # "GetProperties"
    BY <2>2 DEF edit
  <2>. HIDE DEF raw
  <2>. QED
    BY <2>6, <2>7, FitRun
<1>. QED
  BY <1>1, <1>2

LEMMA FitAddAttribute ==
    ASSUME IInv, VInv, NEW i, NEW name, NEW kind \in {"number", "Vector3"},
           RunOperation([type |-> "add_attribute", node |-> i, name |-> name, kind |-> kind])
    PROVE  VInv'
<1>. DEFINE raw == [type |-> "add_attribute", node |-> i, name |-> name, kind |-> kind]
<1>1. lower_operation(raw)
        = {[type |-> "SetAttribute", node |-> i, name |-> name, value |-> v, edit |-> <<>>] :
             v \in Default(kind)}
  BY DEF lower_operation
<1>2. \A v \in Default(kind) : Storable(v)
  BY OneStored DEF Default, Real
<1>3. ASSUME NEW op \in lower_operation(raw) PROVE OpFits(op)
  <2>1. PICK v \in Default(kind) :
          op = [type |-> "SetAttribute", node |-> i, name |-> name, value |-> v, edit |-> <<>>]
    BY <1>1
  <2>2. op.type = "SetAttribute" /\ op.value = v /\ op.edit = <<>>
    BY <2>1
  <2>. QED
    BY <1>2, <2>2 DEF OpFits
<1>4. RunOperation(raw) /\ raw.type # "GetProperties"
  OBVIOUS
<1>. HIDE DEF raw
<1>. QED
  BY <1>3, <1>4, FitRun

LEMMA FitVerde ==
    ASSUME IInv, VInv, Verde
    PROVE  VInv'
<1>1. ASSUME NEW i \in told,
             RunOperation([type |-> "GetProperties", node |-> i, properties |-> {}])
      PROVE  VInv'
  <2>. DEFINE raw == [type |-> "GetProperties", node |-> i, properties |-> {}]
  <2>1. lower_operation(raw) = {raw} /\ OpFits(raw)
    BY DEF lower_operation, OpFits
  <2>2. RunOperation(raw) /\ raw = [type |-> "GetProperties", node |-> i, properties |-> {}]
    BY <1>1
  <2>. HIDE DEF raw
  <2>. QED
    BY <2>1, <2>2, FitRun
<1>2. ASSUME NEW i \in told, EditAttributes(i)
      PROVE  VInv'
  <2>1. PICK name \in {"A", "B"} :
          \/ RunOperation([type |-> "RemoveAttribute", node |-> i, name |-> name])
          \/ \E new \in {"A", "B"} :
               RunOperation([type |-> "RenameAttribute", node |-> i, old |-> name, new |-> new])
          \/ \E kind \in {"number", "Vector3"} :
               RunOperation([type |-> "add_attribute", node |-> i, name |-> name, kind |-> kind])
    BY <1>2 DEF EditAttributes
  <2>2. CASE RunOperation([type |-> "RemoveAttribute", node |-> i, name |-> name])
    BY <2>2, FitOther
  <2>3. ASSUME NEW new \in {"A", "B"},
               RunOperation([type |-> "RenameAttribute", node |-> i, old |-> name, new |-> new])
        PROVE  VInv'
    BY <2>3, FitOther
  <2>4. ASSUME NEW kind \in {"number", "Vector3"},
               RunOperation([type |-> "add_attribute", node |-> i, name |-> name, kind |-> kind])
        PROVE  VInv'
    BY <2>4, FitAddAttribute
  <2>. QED
    BY <2>1, <2>2, <2>3, <2>4
<1>3. ASSUME NEW i \in told, EditTree(i)
      PROVE  VInv'
  <2>1. ASSUME NEW q \in told \cup {Nowhere},
               RunOperation([type |-> "Move", node |-> i, parent |-> q])
        PROVE  VInv'
    BY <2>1, FitOther
  <2>2. ASSUME NEW type \in {"Rename", "Delete", "Tag", "RunCode"},
               RunOperation([type |-> type, node |-> i])
        PROVE  VInv'
    BY <2>2, FitOther
  <2>3. ASSUME NEW c, RunOperation([type |-> "Create", node |-> i, class |-> c])
        PROVE  VInv'
    BY <2>3, FitOther
  <2>. QED
    BY <1>3, <2>1, <2>2, <2>3 DEF EditTree
<1>4. ASSUME EditValue
      PROVE  VInv'
  BY <1>4, FitSetValue DEF EditValue
<1>5. ASSUME NEW query, RequestSearch(query)
      PROVE  VInv'
  <2>1. UNCHANGED <<gameVars, parents, inbox, wire, tasks, view, made>>
    BY <1>5 DEF RequestSearch, verdeVars
  <2>2. GameFits' /\ ValuesFit' /\ ResultsFit' /\ ViewFits' /\ EditsKeepTheRest'
    BY <2>1, SameValues, NothingMade DEF VInv, GameFits, gameVars, ResultsFit, ViewFits
  <2>. QED
    BY <2>1, <2>2, FitQuiet
<1>. QED
  BY <1>1, <1>2, <1>3, <1>4, <1>5 DEF Verde

LEMMA FitGame ==
    ASSUME IInv, VInv, Game
    PROVE  VInv'
<1>0. /\ DOMAIN live \subseteq Nodes /\ Acyclic(live) /\ DOMAIN parents \subseteq DOMAIN live
      /\ Root \notin DOMAIN live /\ Nowhere \notin DOMAIN live /\ Nowhere # Root
  BY VerdeOpsAssumption, TreesAssumption DEF VInv, GameFits
<1>1. ASSUME NEW i \in Nodes, Leave(i)
      PROVE  VInv'
  <2>. DEFINE out == Pruned(parents, Under(live, i))
  <2>1. /\ i \in DOMAIN live /\ live' = [live EXCEPT ![i] = Nowhere]
        /\ wire' = wire \o out.frames /\ parents' = out.known
        /\ UNCHANGED <<props, attrs, inbox, tasks, view, made>>
    BY <1>1 DEF Leave, verdeVars
  <2>2. ArePatches(out.frames) /\ DOMAIN out.known \subseteq DOMAIN parents
    BY PrunedFrames, PrunedOf
  <2>. HIDE DEF out
  <2>3. GameFits' /\ ValuesFit'
    BY <1>0, <2>1, <2>2, Hung
  <2>4. \A m \in ToSet(wire)' : IsAnswer(m) => m \in ToSet(wire)
    BY <2>1, <2>2, ConcatIs DEF IInv, Typed, ArePatches
  <2>5. ResultsFit' /\ ViewFits' /\ EditsKeepTheRest'
    BY <2>1, NothingMade DEF VInv, ResultsFit, ViewFits
  <2>. QED
    BY <2>1, <2>3, <2>4, <2>5, FitQuiet
<1>2. ASSUME NEW i \in Nodes, NEW p \in Places, Enter(i, p)
      PROVE  VInv'
  <2>1. /\ i \in DOMAIN live /\ live[i] = Nowhere /\ live' = [live EXCEPT ![i] = p]
        /\ p = Root \/ (p \in DOMAIN live /\ Inside(live, p))
        /\ UNCHANGED <<props, attrs, parents, inbox, wire, tasks, view, made>>
    BY <1>2 DEF Enter, verdeVars
  <2>2. p \in DOMAIN live => i \notin Above(live, p)
    BY <1>0, <2>1, NotAbove
  <2>3. GameFits' /\ ValuesFit'
    BY <1>0, <2>1, <2>2, Hung
  <2>4. ResultsFit' /\ ViewFits' /\ EditsKeepTheRest'
    BY <2>1, NothingMade DEF VInv, ResultsFit, ViewFits
  <2>. QED
    BY <2>1, <2>3, <2>4, FitQuiet
<1>. QED
  BY <1>1, <1>2 DEF Game

\* The broker does nothing to the game, and its patches are no answers.
LEMMA FitBrokers ==
    ASSUME IInv, VInv, UNCHANGED <<gameVars, parents, inbox, made>>,
           ToSet(wire)' \subseteq ToSet(wire), DOMAIN tasks' \subseteq DOMAIN tasks,
           \A t \in DOMAIN tasks' : tasks'[t].node = tasks[t].node, ResultsFit', ViewFits'
    PROVE  VInv'
<1>1. GameFits' /\ ValuesFit' /\ EditsKeepTheRest'
  BY SameValues, NothingMade DEF VInv, GameFits, gameVars
<1>. QED
  BY <1>1, FitQuiet

LEMMA FitBroker ==
    ASSUME IInv, VInv, Broker
    PROVE  VInv'
<1>1. CASE ReceivePatch
  <2>1. /\ wire # <<>> /\ wire' = Tail(wire) /\ UNCHANGED <<gameVars, parents, inbox, made, view>>
        /\ \E gone : tasks' = [t \in DOMAIN tasks |-> [tasks[t] EXCEPT !.lost = @ \cup gone]]
    BY <1>1 DEF ReceivePatch, verdeVars
  <2>2. PICK gone : tasks' = [t \in DOMAIN tasks |-> [tasks[t] EXCEPT !.lost = @ \cup gone]]
    BY <2>1
  <2>3. DOMAIN tasks' = DOMAIN tasks /\ \A t \in DOMAIN tasks :
             tasks'[t].node = tasks[t].node /\ tasks'[t].result = tasks[t].result
    BY <2>2 DEF IInv, Typed
  <2>4. ToSet(wire)' \subseteq ToSet(wire)
    BY <2>1, TailIs DEF IInv, Typed
  <2>5. ResultsFit' /\ ViewFits'
    BY <2>1, <2>3 DEF VInv, ResultsFit, ViewFits
  <2>. QED
    BY <2>1, <2>3, <2>4, <2>5, FitBrokers
<1>2. CASE ReceiveResult
  <2>. DEFINE r == Head(wire)
  <2>1. /\ wire # <<>> /\ IsAnswer(r) /\ wire' = Tail(wire)
        /\ UNCHANGED <<gameVars, parents, inbox, made, view>>
        /\ tasks' = [t \in DOMAIN tasks |->
                       IF t = r.id THEN [tasks[t] EXCEPT !.result = <<r.result>>] ELSE tasks[t]]
    BY <1>2 DEF ReceiveResult, verdeVars, IsAnswer
  <2>2. ToSet(wire)' \subseteq ToSet(wire) /\ r \in ToSet(wire)
    BY <2>1, TailIs DEF IInv, Typed
  <2>. HIDE DEF r
  <2>3. DOMAIN tasks' = DOMAIN tasks /\ \A t \in DOMAIN tasks :
             /\ tasks'[t].node = tasks[t].node
             /\ tasks'[t].result = IF t = r.id THEN <<r.result>> ELSE tasks[t].result
    BY <2>1 DEF IInv, Typed
  <2>4. ResultsFit'
    <3>1. SUFFICES ASSUME NEW t \in DOMAIN tasks, tasks'[t].result # <<>>
                   PROVE  ReadFits(tasks[t].node, tasks'[t].result[1])
      BY <2>3 DEF ResultsFit
    <3>2. CASE t = r.id
      <4>1. tasks'[t].result[1] = r.result
        BY <2>3, <3>2
      <4>. QED
        BY <2>1, <2>2, <3>2, <4>1 DEF VInv, AnswersFit
    <3>3. CASE t # r.id
      BY <2>3, <3>1, <3>3 DEF VInv, ResultsFit
    <3>. QED
      BY <3>2, <3>3
  <2>5. ViewFits'
    BY <2>1 DEF VInv, ViewFits
  <2>. QED
    BY <2>1, <2>2, <2>3, <2>4, <2>5, FitBrokers
<1>3. ASSUME NEW t \in DOMAIN tasks, Settle(t), ViewFits'
      PROVE  VInv'
  <2>1. /\ UNCHANGED <<gameVars, parents, inbox, wire, made>>
        /\ tasks' = Restrict(tasks, DOMAIN tasks \ {t})
    BY <1>3 DEF Settle
  <2>2. DOMAIN tasks' \subseteq DOMAIN tasks /\ \A u \in DOMAIN tasks' : tasks'[u] = tasks[u]
    BY <2>1 DEF Restrict
  <2>3. ResultsFit'
    BY <2>2 DEF VInv, ResultsFit
  <2>. QED
    BY <1>3, <2>1, <2>2, <2>3, FitBrokers
<1>4. ASSUME NEW t \in DOMAIN tasks, ToOutcome(t)
      PROVE  VInv'
  <2>. DEFINE r == tasks[t].result[1]
  <2>1. CASE r.type # "Reads"
    <3>1. UNCHANGED view /\ Settle(t)
      BY <1>4, <2>1 DEF ToOutcome
    <3>. QED
      BY <1>3, <3>1 DEF VInv, ViewFits
  <2>2. CASE r.type = "Reads"
    <3>1. /\ view'.node = tasks[t].node /\ view'.attrs = r.attrs
          /\ view'.props = Restrict(r.props, DOMAIN r.props \ HIDDEN_PROPERTIES)
          /\ tasks[t].result # <<>> /\ Settle(t)
      BY <1>4, <2>2, Zenon DEF ToOutcome
    <3>2. PropsFit(tasks[t].node, r.props) /\ AttrsFit(r.attrs)
      BY <2>2, <3>1 DEF VInv, ResultsFit, ReadFits
    <3>3. PropsFit(view'.node, view'.props)
      BY <3>1, <3>2, RestrictFits
    <3>4. ViewFits'
      BY <3>1, <3>2, <3>3 DEF ViewFits
    <3>. QED
      BY <1>3, <3>1, <3>4
  <2>. QED
    BY <2>1, <2>2
<1>5. ASSUME NEW t \in DOMAIN tasks, Timeout(t)
      PROVE  VInv'
  BY <1>3, <1>5 DEF Timeout, VInv, ViewFits
<1>6. ASSUME \/ \E query \in searches : RunSearch(query)
             \/ \E l \in Levels : SetSecurity(l)
      PROVE  VInv'
  <2>1. UNCHANGED <<gameVars, parents, inbox, wire, tasks, view, made>>
    BY <1>6 DEF RunSearch, SetSecurity, verdeVars
  <2>2. ResultsFit' /\ ViewFits'
    BY <2>1 DEF VInv, ResultsFit, ViewFits
  <2>. QED
    BY <2>1, <2>2, FitBrokers
<1>. QED
  BY <1>1, <1>2, <1>4, <1>5, <1>6 DEF Broker

LEMMA InitFits == Init => VInv
<1>. SUFFICES ASSUME Init PROVE VInv
  OBVIOUS
<1>1. /\ inbox = <<>> /\ wire = <<>> /\ view = <<>> /\ tasks = Empty /\ made = <<>>
      /\ live \in Scattered /\ props = [i \in DOMAIN live |-> Initial[Class[i]]]
  BY DEF Init
<1>2. DOMAIN tasks = {}
  BY <1>1 DEF Empty
<1>3. DOMAIN parents \subseteq DOMAIN live
  <2>1. PICK S \in SUBSET DOMAIN live : parents = Restrict(live, S)
    BY DEF Init
  <2>. QED
    BY <2>1 DEF Restrict
<1>4. GameFits
  BY <1>1, <1>3, GameAssumption DEF GameFits
<1>5. ValuesFit
  <2>1. PICK given \in (IF "edit" \in world THEN Given ELSE {Empty}) :
          attrs = [i \in DOMAIN live |-> given]
    BY DEF Init
  <2>2. AttrsFit(given)
    BY <2>1, AttrsOf, GameAssumption DEF AttrsFit, Storable
  <2>3. \A i \in DOMAIN live : PropsFit(i, props[i])
    BY <1>1, <1>4, InitialFits DEF GameFits
  <2>. QED
    BY <1>1, <2>1, <2>2, <2>3 DEF ValuesFit
<1>6. AsksFit /\ AnswersFit /\ ResultsFit /\ ViewFits /\ EditsKeepTheRest
  BY <1>1, <1>2, EmptyIs DEF AsksFit, AnswersFit, ResultsFit, ViewFits, EditsKeepTheRest
<1>. QED
  BY <1>4, <1>5, <1>6 DEF VInv

LEMMA NextFits == IInv /\ VInv /\ [Next]_vars => VInv'
<1>. SUFFICES ASSUME IInv, VInv, [Next]_vars PROVE VInv'
  OBVIOUS
<1>1. CASE Next
  BY <1>1, FitVerde, FitClient, FitBroker, FitGame DEF Next
<1>2. CASE UNCHANGED vars
  <2>1. UNCHANGED <<gameVars, parents, inbox, wire, tasks, view, made>>
    BY <1>2 DEF vars, brokerVars, verdeVars
  <2>2. ResultsFit' /\ ViewFits'
    BY <2>1 DEF VInv, ResultsFit, ViewFits
  <2>. QED
    BY <2>1, <2>2, FitBrokers
<1>. QED
  BY <1>1, <1>2

\* Whatever is edited, in any order and with any number of edits and reads on their way, an
\* edit that is applied sets the number that was entered and leaves the rest as it was shown:
\* what RawValue (translate.rs) reads by shape is what `describe` showed by variant, or a value
\* of another type, which the client assigns to no property (but sets as an attribute).
THEOREM EditsKept == Spec => []EditsKeepTheRest
<1>1. Init => IInv /\ VInv
  BY InitIsWithin, InitFits
<1>2. (IInv /\ VInv) /\ [Next]_vars => (IInv /\ VInv)'
  BY NextStaysWithin, NextFits
<1>3. VInv => EditsKeepTheRest
  BY DEF VInv
<1>. QED
  BY <1>1, <1>2, <1>3, PTL DEF Spec

(***************************************************************************)
(* The steps, for links.                                                   *)
(***************************************************************************)
LEMMA MemberAt ==
    ASSUME NEW s, IsSequence(s)
    PROVE  Len(s) \in Nat /\ \A x : x \in ToSet(s) <=> \E k \in 1..Len(s) : s[k] = x
  BY DEF IsSequence, ToSet

LEMMA ConcatAt ==
    ASSUME NEW s, IsSequence(s), NEW r, IsSequence(r)
    PROVE  /\ Len(s \o r) = Len(s) + Len(r) /\ Len(s) \in Nat /\ Len(r) \in Nat
           /\ \A k \in 1..Len(s) : (s \o r)[k] = s[k]
           /\ \A k \in 1..Len(r) : (s \o r)[Len(s) + k] = r[k]
<1>. DEFINE S == ToSet(s) \cup ToSet(r)
<1>1. s \in Seq(S) /\ r \in Seq(S)
  BY DEF IsSequence
<1>. HIDE DEF S
<1>2. /\ Len(s \o r) = Len(s) + Len(r) /\ Len(s) \in Nat /\ Len(r) \in Nat
      /\ \A k \in 1..(Len(s) + Len(r)) : (s \o r)[k] = IF k <= Len(s) THEN s[k] ELSE r[k - Len(s)]
  BY <1>1
<1>3. ASSUME NEW k \in 1..Len(s) PROVE (s \o r)[k] = s[k]
  BY <1>2
<1>4. ASSUME NEW k \in 1..Len(r) PROVE (s \o r)[Len(s) + k] = r[k]
  <2>1. Len(s) + k \in 1..(Len(s) + Len(r)) /\ ~ (Len(s) + k <= Len(s)) /\ (Len(s) + k) - Len(s) = k
    BY <1>2
  <2>. QED
    BY <1>2, <2>1
<1>. QED
  BY <1>2, <1>3, <1>4

\* The wire grows by patches, and by reads whose links the patches ahead of them upsert.
LEMMA LinkGrown ==
    ASSUME LInv, IsSequence(wire), IsSequence(wire'), Len(wire') >= Len(wire),
           \A k \in 1..Len(wire) : wire'[k] = wire[k],
           \A k \in (Len(wire) + 1)..Len(wire') :
             /\ IsAnswer(wire'[k]) <=> "upserts" \notin DOMAIN wire'[k]
             /\ IsAnswer(wire'[k]) /\ wire'[k].result.type = "Reads"
                  => Refs(wire'[k].result.props) \subseteq Upserted(k)',
           UNCHANGED mirror,
           \A k \in 1..Len(wire) : IsAnswer(wire[k]) /\ wire[k].id \in DOMAIN tasks'
             => wire[k].id \in DOMAIN tasks /\ tasks'[wire[k].id].lost = tasks[wire[k].id].lost,
           ResultsResolve', LinksResolve'
    PROVE  LInv'
<1>0. Len(wire) \in Nat /\ Len(wire') \in Nat
  BY MemberAt DEF IsSequence
<1>1. \A k \in 1..Len(wire') : k \in 1..Len(wire) \/ k \in (Len(wire) + 1)..Len(wire')
  BY <1>0
<1>2. Ordered'
  <2>1. SUFFICES ASSUME NEW k \in 1..Len(wire')
                 PROVE  IsAnswer(wire'[k]) <=> "upserts" \notin DOMAIN wire'[k]
    <3>1. \A m \in ToSet(wire') : \E k \in 1..Len(wire') : wire'[k] = m
      BY MemberAt
    <3>. QED
      BY <2>1, <3>1 DEF Ordered, IsAnswer
  <2>2. \A j \in 1..Len(wire) : wire[j] \in ToSet(wire)
    BY MemberAt
  <2>. QED
    BY <1>1, <2>2 DEF LInv, Ordered
<1>3. \A k \in 1..Len(wire) : Upserted(k)' = Upserted(k)
  <2>1. \A k \in 1..Len(wire) : \A l \in 1..(k - 1) : l \in 1..Len(wire)
    BY <1>0
  <2>. QED
    BY <2>1 DEF Upserted, IsAnswer
<1>4. AnswersResolve'
  <2>1. SUFFICES ASSUME NEW k \in 1..Len(wire'), IsAnswer(wire'[k]), wire'[k].id \in DOMAIN tasks',
                        wire'[k].result.type = "Reads"
                 PROVE  Refs(wire'[k].result.props)
                          \subseteq DOMAIN mirror \cup tasks'[wire'[k].id].lost \cup Upserted(k)'
    BY DEF AnswersResolve, IsAnswer
  <2>2. CASE k \in 1..Len(wire)
    BY <1>3, <2>1, <2>2 DEF LInv, AnswersResolve
  <2>3. CASE k \in (Len(wire) + 1)..Len(wire')
    BY <2>1, <2>3
  <2>. QED
    BY <1>1, <2>2, <2>3
<1>. QED
  BY <1>2, <1>4 DEF LInv

LEMMA SameLinks ==
    ASSUME LInv, UNCHANGED <<mirror, tasks, view>>
    PROVE  ResultsResolve' /\ LinksResolve'
  BY DEF LInv, ResultsResolve, LinksResolve

\* Patches are sent, or nothing.
LEMMA LinkPatches ==
    ASSUME IInv, LInv, NEW frames, ArePatches(frames), wire' = wire \o frames,
           UNCHANGED <<mirror, tasks, view>>
    PROVE  LInv'
<1>1. IsSequence(wire) /\ IsSequence(frames) /\ IsSequence(wire')
  BY ConcatIs DEF IInv, Typed, ArePatches
<1>2. /\ Len(wire') = Len(wire) + Len(frames) /\ Len(wire) \in Nat /\ Len(frames) \in Nat
      /\ \A k \in 1..Len(wire) : wire'[k] = wire[k]
      /\ \A k \in 1..Len(frames) : wire'[Len(wire) + k] = frames[k]
  BY <1>1, ConcatAt
<1>3. ASSUME NEW k \in (Len(wire) + 1)..Len(wire')
      PROVE  ~ IsAnswer(wire'[k]) /\ "upserts" \in DOMAIN wire'[k]
  <2>1. PICK j \in 1..Len(frames) : k = Len(wire) + j
    <3>1. k - Len(wire) \in 1..Len(frames) /\ k = Len(wire) + (k - Len(wire))
      BY <1>2
    <3>. QED
      BY <3>1
  <2>2. frames[j] \in ToSet(frames)
    BY <1>1, MemberAt
  <2>. QED
    BY <1>2, <2>1, <2>2 DEF ArePatches
<1>4. Len(wire') >= Len(wire)
  BY <1>2
<1>. QED
  BY <1>1, <1>2, <1>3, <1>4, SameLinks, LinkGrown

\* An answer is sent after its patches; a read, if these upsert what it refers to.
LEMMA LinkAnswered ==
    ASSUME IInv, LInv, NEW known, NEW frames, ArePatches(frames), NEW result,
           Apply(known, frames, result),
           result.type = "Reads" =>
             \A i \in Refs(result.props) :
                i \in Nodes /\ \E l \in 1..Len(frames) : i \in DOMAIN frames[l].upserts
    PROVE  LInv'
<1>. DEFINE answer == [id |-> Head(inbox).id, result |-> result]
<1>0. PICK n \in Nat, f \in Nat : n = Len(wire) /\ f = Len(frames)
  BY MemberAt DEF IInv, Typed, ArePatches
<1>1. wire' = (wire \o frames) \o <<answer>> /\ UNCHANGED <<mirror, tasks, view>>
  BY DEF Apply, brokerVars, verdeVars
<1>2. /\ "result" \in DOMAIN answer /\ "upserts" \notin DOMAIN answer /\ answer.result = result
  OBVIOUS
<1>. HIDE DEF answer
<1>3. /\ IsSequence(wire) /\ IsSequence(frames) /\ IsSequence(<<answer>>)
      /\ IsSequence(wire \o frames) /\ IsSequence(wire')
  BY <1>1, ConcatIs, OneIs DEF IInv, Typed, ArePatches
<1>4. /\ Len(wire \o frames) = n + f /\ n \in Nat /\ f \in Nat
      /\ \A k \in 1..n : (wire \o frames)[k] = wire[k]
      /\ \A k \in 1..f : (wire \o frames)[n + k] = frames[k]
  BY <1>0, <1>3, ConcatAt
<1>5. /\ Len(wire') = n + f + 1
      /\ \A k \in 1..(n + f) : wire'[k] = (wire \o frames)[k]
      /\ wire'[n + f + 1] = answer
  <2>1. Len(<<answer>>) = 1 /\ <<answer>>[1] = answer
    OBVIOUS
  <2>. QED
    BY <1>1, <1>3, <1>4, <2>1, ConcatAt
<1>6. /\ \A k \in 1..n : wire'[k] = wire[k]
      /\ \A k \in 1..f : wire'[n + k] = frames[k]
  <2>1. \A k \in 1..n : k \in 1..(n + f)
    BY <1>4
  <2>2. \A k \in 1..f : n + k \in 1..(n + f)
    BY <1>4
  <2>. QED
    BY <1>4, <1>5, <2>1, <2>2
<1>7. \A l \in 1..f : ~ IsAnswer(frames[l]) /\ "upserts" \in DOMAIN frames[l]
  BY <1>0, <1>3, MemberAt DEF ArePatches
<1>8. result.type = "Reads" => Refs(result.props) \subseteq Upserted(n + f + 1)'
  <2>1. SUFFICES ASSUME NEW i \in Nodes, NEW l \in 1..f, i \in DOMAIN frames[l].upserts
                 PROVE  i \in Upserted(n + f + 1)'
    BY <1>0
  <2>2. n + l \in 1..((n + f + 1) - 1)
    BY <1>4
  <2>3. ~ IsAnswer(wire'[n + l]) /\ i \in DOMAIN wire'[n + l].upserts
    BY <1>6, <1>7, <2>1
  <2>. QED
    BY <2>2, <2>3 DEF Upserted, IsAnswer
<1>9. ASSUME NEW k \in (n + 1)..Len(wire')
      PROVE  /\ IsAnswer(wire'[k]) <=> "upserts" \notin DOMAIN wire'[k]
             /\ IsAnswer(wire'[k]) /\ wire'[k].result.type = "Reads"
                  => Refs(wire'[k].result.props) \subseteq Upserted(k)'
  <2>1. CASE k = n + f + 1
    BY <1>2, <1>5, <1>8, <2>1 DEF IsAnswer
  <2>2. CASE k # n + f + 1
    <3>1. PICK j \in 1..f : k = n + j
      <4>1. k - n \in 1..f /\ k = n + (k - n)
        BY <1>4, <1>5, <2>2
      <4>. QED
        BY <4>1
    <3>. QED
      BY <1>6, <1>7, <3>1
  <2>. QED
    BY <2>1, <2>2
<1>10. Len(wire') >= Len(wire)
  BY <1>0, <1>4, <1>5
<1>. QED
  BY <1>0, <1>1, <1>3, <1>6, <1>9, <1>10, SameLinks, LinkGrown

LEMMA LinkDone ==
    ASSUME IInv, LInv, NEW known, NEW frames, ArePatches(frames), NEW result,
           Apply(known, frames, result), result.type # "Reads"
    PROVE  LInv'
  BY LinkAnswered

LEMMA LinkRefuse ==
    ASSUME IInv, LInv, NEW code, Refuse(code)
    PROVE  LInv'
  BY LinkDone, NonePatched, NoReads DEF Refuse

\* What is to be refreshed is upserted, by one patch.
LEMMA MirrorAllSends ==
    ASSUME NEW tree, Acyclic(tree), NEW known, NEW S, S \subseteq DOMAIN tree, S # {}
    PROVE  \E ups : MirrorAll(tree, known, S).frames = <<Patch(ups, {})>> /\ S \subseteq DOMAIN ups
<1>. DEFINE ups == [j \in UNION {Mirrored(tree, DOMAIN known, i) : i \in S} |->
                      IF tree[j] = Nowhere THEN Root ELSE tree[j]]
<1>1. MirrorAll(tree, known, S).frames = <<Patch(ups, {})>>
  BY DEF MirrorAll
<1>2. S \subseteq DOMAIN ups
  BY MirroredFacts
<1>. QED
  BY <1>1, <1>2

LEMMA ConcatTwice ==
    ASSUME NEW s, IsSequence(s), NEW r, IsSequence(r), NEW q, IsSequence(q)
    PROVE  (s \o r) \o q = s \o (r \o q)
<1>. DEFINE S == ToSet(s) \cup ToSet(r) \cup ToSet(q)
<1>1. s \in Seq(S) /\ r \in Seq(S) /\ q \in Seq(S)
  BY DEF IsSequence
<1>. HIDE DEF S
<1>. QED
  BY <1>1, ConcatAssociative

LEMMA LinkGetProperties ==
    ASSUME IInv, VInv, LInv, GetProperties
    PROVE  LInv'
<1>. DEFINE i     == Todo.node
            has   == DOMAIN props[i]
            names == (IF Todo.properties = {} THEN has ELSE Todo.properties \cap has) \ SKIP_PROPERTIES
            reads == [type  |-> "Reads", props |-> Restrict(props[i], names), attrs |-> attrs[i]]
            refs  == Refs(reads.props)
            m     == MirrorAll(live, parents, refs)
<1>1. Resolved(i) /\ Apply(m.known, m.frames, reads)
  BY DEF GetProperties, On
<1>2. /\ i \in DOMAIN live /\ Acyclic(live) /\ DOMAIN live \subseteq Nodes
      /\ names \subseteq DOMAIN props[i]
  BY <1>1 DEF VInv, GameFits, Resolved
<1>. HIDE DEF names
<1>3. refs \subseteq DOMAIN live
  BY <1>2, ReadIs
<1>. HIDE DEF reads
<1>4. refs = Refs(reads.props)
  OBVIOUS
<1>. HIDE DEF refs
<1>6. ArePatches(m.frames)
  BY MirrorFrames
<1>7. ASSUME NEW j \in refs
      PROVE  j \in Nodes /\ \E l \in 1..Len(m.frames) : j \in DOMAIN m.frames[l].upserts
  <2>1. PICK ups : m.frames = <<Patch(ups, {})>> /\ refs \subseteq DOMAIN ups
    BY <1>2, <1>3, <1>7, MirrorAllSends
  <2>2. Len(m.frames) = 1 /\ m.frames[1].upserts = ups
    BY <2>1 DEF Patch
  <2>. HIDE DEF m
  <2>. QED
    BY <1>2, <1>3, <1>7, <2>1, <2>2
<1>. HIDE DEF m
<1>. QED
  BY <1>1, <1>4, <1>6, <1>7, LinkAnswered

LEMMA LinkClient ==
    ASSUME IInv, VInv, LInv, Client
    PROVE  LInv'
<1>1. CASE UnknownNode
  BY <1>1, LinkRefuse DEF UnknownNode
<1>2. CASE Rename
  BY <1>2, MirrorFrames, NoReads, LinkDone DEF Rename, Refreshed
<1>3. CASE Tag \/ RunCode \/ SetAttribute \/ RemoveAttribute \/ RenameAttribute
  <2>1. Apply(parents, <<>>, Ok) \/ Apply(parents, <<>>, Output)
    BY <1>3 DEF Tag, RunCode, SetAttribute, RemoveAttribute, RenameAttribute
  <2>. QED
    BY <2>1, NonePatched, NoReads, LinkDone
<1>4. CASE Delete
  BY <1>4, PrunedFrames, NoReads, LinkDone DEF Delete
<1>5. CASE Move
  <2>1. CASE Todo.parent \in Under(live, Todo.node)
    BY <1>5, <2>1, LinkRefuse DEF Move
  <2>2. CASE Todo.parent \notin Under(live, Todo.node)
    <3>. DEFINE out == Pruned(parents, Leaving(live, Todo.node, Todo.parent))
                m   == IF Todo.parent = Nowhere THEN [known |-> out.known, frames |-> <<>>]
                                                ELSE Refreshed(live', out.known)
    <3>1. Apply(m.known, out.frames \o m.frames, Ok)
      BY <1>5, <2>2 DEF Move
    <3>2. ArePatches(out.frames)
      BY PrunedFrames
    <3>3. ArePatches(m.frames)
      BY MirrorFrames, NonePatched DEF Refreshed
    <3>. HIDE DEF m, out
    <3>4. ArePatches(out.frames \o m.frames)
      BY <3>2, <3>3, BothPatched
    <3>. QED
      BY <3>1, <3>4, NoReads, LinkDone
  <2>. QED
    BY <2>1, <2>2
<1>6. CASE Create
  <2>1. CASE Refuse("invalid_class")
    BY <2>1, LinkRefuse
  <2>2. ASSUME NEW i, LET m == MirrorAll(live', parents, {i}) IN Apply(m.known, m.frames, Ok)
        PROVE  LInv'
    <3>. DEFINE m == MirrorAll(live', parents, {i})
    <3>1. Apply(m.known, m.frames, Ok)
      BY <2>2
    <3>2. ArePatches(m.frames)
      BY MirrorFrames
    <3>. HIDE DEF m
    <3>. QED
      BY <3>1, <3>2, NoReads, LinkDone
  <2>. QED
    BY <1>6, <2>1, <2>2 DEF Create
<1>7. CASE SetProperty
  <2>1. \/ Refuse("assign_failed")
        \/ LET m == Refreshed(live, parents) IN Apply(m.known, m.frames, Ok)
    BY <1>7, Zenon DEF SetProperty
  <2>2. ArePatches(Refreshed(live, parents).frames)
    BY MirrorFrames DEF Refreshed
  <2>. QED
    BY <2>1, <2>2, NoReads, LinkDone, LinkRefuse
<1>8. CASE SyncSnapshot
  <2>. DEFINE here  == {i \in DOMAIN live : Inside(live, i)}
              sent  == MirrorAll(live, parents, here)
              after == Pruned(sent.known, DOMAIN sent.known \ here)
              both  == sent.frames \o after.frames
  <2>1. wire' = wire \o sent.frames \o after.frames /\ UNCHANGED <<mirror, tasks, view>>
    BY <1>8 DEF SyncSnapshot, brokerVars, verdeVars
  <2>2. ArePatches(sent.frames) /\ ArePatches(after.frames)
    BY MirrorFrames, PrunedFrames
  <2>. HIDE DEF sent, after
  <2>3. ArePatches(both)
    BY <2>2, BothPatched
  <2>4. wire' = wire \o both
    <3>1. IsSequence(wire) /\ IsSequence(sent.frames) /\ IsSequence(after.frames)
      BY <2>2 DEF IInv, Typed, ArePatches
    <3>2. PICK s, f, g : s = wire /\ f = sent.frames /\ g = after.frames
      OBVIOUS
    <3>3. IsSequence(s) /\ IsSequence(f) /\ IsSequence(g)
      BY <3>1, <3>2
    <3>4. (s \o f) \o g = s \o (f \o g)
      BY <3>3, ConcatTwice
    <3>. QED
      BY <2>1, <3>2, <3>4
  <2>. HIDE DEF both
  <2>. QED
    BY <2>1, <2>3, <2>4, LinkPatches
<1>. QED
  BY <1>1, <1>2, <1>3, <1>4, <1>5, <1>6, <1>7, <1>8, LinkGetProperties DEF Client

\* An operation is sent: its number is new.
LEMMA LinkRun ==
    ASSUME IInv, LInv, NEW raw, RunOperation(raw)
    PROVE  LInv'
<1>1. UNCHANGED <<wire, mirror, view>>
  BY DEF RunOperation, verdeVars
<1>2. CASE UNCHANGED tasks
  BY <1>1, <1>2 DEF LInv, Ordered, AnswersResolve, ResultsResolve, LinksResolve, Upserted, IsAnswer
<1>3. CASE lower_operation(raw) # {}
  <2>0. PICK t0 \in Nat : t0 = asked + 1
    BY DEF IInv, Typed
  <2>1. PICK op \in lower_operation(raw) :
          tasks' = Put(tasks, asked + 1,
                       [node |-> op.node, known |-> op.node \in DOMAIN mirror,
                        level |-> level, lost |-> {}, result |-> <<>>])
    BY <1>3 DEF RunOperation
  <2>2. /\ DOMAIN tasks' = DOMAIN tasks \cup {t0} /\ tasks'[t0].result = <<>>
        /\ \A t \in DOMAIN tasks : t # t0 => tasks'[t] = tasks[t]
    BY <2>0, <2>1 DEF Put
  <2>3. \A t \in 1..asked : t # t0
    BY <2>0 DEF IInv, Typed
  <2>4. \A k \in 1..Len(wire) : IsAnswer(wire[k]) /\ wire[k].id \in DOMAIN tasks'
             => wire[k].id \in DOMAIN tasks /\ tasks'[wire[k].id].lost = tasks[wire[k].id].lost
    <3>1. \A k \in 1..Len(wire) : IsAnswer(wire[k]) => wire[k].id # t0
      BY <2>3, MemberAt DEF IInv, Numbered, Typed
    <3>. QED
      BY <2>2, <3>1
  <2>5. ResultsResolve' /\ LinksResolve'
    BY <1>1, <2>2 DEF LInv, ResultsResolve, LinksResolve
  <2>6. Len(wire) \in Nat /\ IsSequence(wire)
    BY MemberAt DEF IInv, Typed
  <2>7. Len(wire') >= Len(wire) /\ IsSequence(wire')
    BY <1>1, <2>6 DEF IsSequence
  <2>8. \A k \in (Len(wire) + 1)..Len(wire') : FALSE
    BY <1>1, <2>6
  <2>. QED
    BY <1>1, <2>4, <2>5, <2>6, <2>7, <2>8, LinkGrown
<1>. QED
  BY <1>2, <1>3 DEF RunOperation

LEMMA LinkVerde ==
    ASSUME IInv, LInv, Verde
    PROVE  LInv'
<1>1. ASSUME NEW query, RequestSearch(query)
      PROVE  LInv'
  <2>1. UNCHANGED <<wire, mirror, view, tasks>>
    BY <1>1 DEF RequestSearch, verdeVars
  <2>. QED
    BY <2>1 DEF LInv, Ordered, AnswersResolve, ResultsResolve, LinksResolve, Upserted, IsAnswer
<1>2. CASE \E i \in told : EditAttributes(i) \/ EditTree(i)
  BY <1>2, LinkRun DEF EditAttributes, EditTree
<1>3. CASE EditValue
  BY <1>3, LinkRun DEF EditValue, SetValue
<1>. QED
  BY <1>1, <1>2, <1>3, LinkRun DEF Verde

LEMMA LinkGame ==
    ASSUME IInv, LInv, Game
    PROVE  LInv'
<1>1. ASSUME NEW i, Leave(i)
      PROVE  LInv'
  <2>. DEFINE out == Pruned(parents, Under(live, i))
  <2>1. wire' = wire \o out.frames /\ UNCHANGED <<mirror, tasks, view>>
    BY <1>1 DEF Leave, verdeVars
  <2>2. ArePatches(out.frames)
    BY PrunedFrames
  <2>. HIDE DEF out
  <2>. QED
    BY <2>1, <2>2, LinkPatches
<1>2. ASSUME NEW i, NEW p, Enter(i, p)
      PROVE  LInv'
  <2>1. UNCHANGED <<wire, mirror, view, tasks>>
    BY <1>2 DEF Enter, verdeVars
  <2>. QED
    BY <2>1 DEF LInv, Ordered, AnswersResolve, ResultsResolve, LinksResolve, Upserted, IsAnswer
<1>. QED
  BY <1>1, <1>2 DEF Game

\* The first message is taken off the wire.
LEMMA TailAt ==
    ASSUME NEW s, IsSequence(s), s # <<>>
    PROVE  /\ Len(s) \in Nat /\ Len(Tail(s)) = Len(s) - 1 /\ 1 \in 1..Len(s) /\ Head(s) = s[1]
           /\ \A k \in 1..Len(Tail(s)) : Tail(s)[k] = s[k + 1] /\ k + 1 \in 1..Len(s)
<1>. DEFINE S == ToSet(s)
<1>1. s \in Seq(S)
  BY DEF IsSequence
<1>. HIDE DEF S
<1>2. Len(s) \in Nat /\ Len(s) # 0 /\ Len(Tail(s)) = Len(s) - 1 /\ Head(s) = s[1]
  BY <1>1
<1>3. \A k \in 1..Len(Tail(s)) : Tail(s)[k] = s[k + 1]
  BY <1>1, <1>2
<1>4. \A k \in 1..Len(Tail(s)) : k + 1 \in 1..Len(s)
  BY <1>2
<1>5. 1 \in 1..Len(s)
  BY <1>2
<1>. QED
  BY <1>2, <1>3, <1>4, <1>5

\* What was upserted ahead of a message still is, but for what the first patch upserted.
LEMMA TailUpserts ==
    ASSUME IsSequence(wire), wire # <<>>, wire' = Tail(wire), NEW k \in 1..Len(wire')
    PROVE  Upserted(k + 1) \subseteq
             Upserted(k)' \cup (IF IsAnswer(wire[1]) THEN {} ELSE DOMAIN wire[1].upserts)
<1>1. /\ Len(wire) \in Nat /\ Len(wire') = Len(wire) - 1
      /\ \A j \in 1..Len(wire') : wire'[j] = wire[j + 1]
  BY TailAt
<1>2. SUFFICES ASSUME NEW i \in Nodes, NEW l \in 1..((k + 1) - 1), ~ IsAnswer(wire[l]),
                      i \in DOMAIN wire[l].upserts, l # 1
               PROVE  i \in Upserted(k)'
  BY DEF Upserted
<1>3. l - 1 \in 1..(k - 1) /\ l - 1 \in 1..Len(wire') /\ (l - 1) + 1 = l
  BY <1>1, <1>2
<1>4. wire'[l - 1] = wire[l]
  BY <1>1, <1>3
<1>. QED
  BY <1>2, <1>3, <1>4 DEF Upserted, IsAnswer

\* Something is taken off the wire, or nothing; what the mirror lost the tasks know.
LEMMA LinkReceived ==
    ASSUME IInv, LInv, wire # <<>>, wire' = Tail(wire), DOMAIN tasks' \subseteq DOMAIN tasks,
           NEW gone, NEW ups, IsAnswer(wire[1]) \/ DOMAIN wire[1].upserts \subseteq ups,
           DOMAIN mirror \cup ups \subseteq DOMAIN mirror' \cup gone,
           \A t \in DOMAIN tasks' : tasks[t].lost \cup gone \subseteq tasks'[t].lost
    PROVE  Ordered' /\ AnswersResolve'
<1>1. IsSequence(wire)
  BY DEF IInv, Typed
<1>2. /\ \A k \in 1..Len(wire') : wire'[k] = wire[k + 1] /\ k + 1 \in 1..Len(wire)
  BY <1>1, TailAt
<1>3. Ordered'
  <2>1. ToSet(wire') \subseteq ToSet(wire)
    BY <1>1, TailIs
  <2>. QED
    BY <2>1 DEF LInv, Ordered, IsAnswer
<1>4. AnswersResolve'
  <2>1. SUFFICES ASSUME NEW k \in 1..Len(wire'), IsAnswer(wire'[k]), wire'[k].id \in DOMAIN tasks',
                        wire'[k].result.type = "Reads"
                 PROVE  Refs(wire'[k].result.props)
                          \subseteq DOMAIN mirror' \cup tasks'[wire'[k].id].lost \cup Upserted(k)'
    BY DEF AnswersResolve, IsAnswer
  <2>2. wire'[k] = wire[k + 1] /\ k + 1 \in 1..Len(wire)
    BY <1>2
  <2>3. Refs(wire[k + 1].result.props)
          \subseteq DOMAIN mirror \cup tasks[wire[k + 1].id].lost \cup Upserted(k + 1)
    BY <2>1, <2>2 DEF LInv, AnswersResolve
  <2>4. Upserted(k + 1) \subseteq
             Upserted(k)' \cup (IF IsAnswer(wire[1]) THEN {} ELSE DOMAIN wire[1].upserts)
    BY <1>1, TailUpserts
  <2>. QED
    BY <2>1, <2>2, <2>3, <2>4
<1>. QED
  BY <1>3, <1>4

LEMMA LinkBroker ==
    ASSUME IInv, LInv, Broker
    PROVE  LInv'
<1>1. CASE ReceivePatch
  <2>. DEFINE tree == Over(Head(wire).upserts, mirror)
              gone == UNION {Under(tree, r) : r \in Head(wire).removals \cap DOMAIN tree}
  <2>1. /\ wire # <<>> /\ "upserts" \in DOMAIN Head(wire) /\ wire' = Tail(wire)
        /\ mirror' = Restrict(tree, DOMAIN tree \ gone) /\ UNCHANGED view
        /\ tasks' = [t \in DOMAIN tasks |-> [tasks[t] EXCEPT !.lost = @ \cup gone]]
    BY <1>1 DEF ReceivePatch, verdeVars
  <2>2. Head(wire) = wire[1] /\ 1 \in 1..Len(wire) /\ IsSequence(wire)
    BY <2>1, TailAt DEF IInv, Typed
  <2>3. ~ IsAnswer(wire[1])
    BY <2>1, <2>2, MemberAt DEF LInv, Ordered
  <2>4. DOMAIN mirror' = DOMAIN tree \ gone /\ DOMAIN tree = DOMAIN wire[1].upserts \cup DOMAIN mirror
    BY <2>1, <2>2 DEF Restrict, Over
  <2>. HIDE DEF tree, gone
  <2>5. DOMAIN tasks' = DOMAIN tasks /\ \A t \in DOMAIN tasks :
             tasks'[t].lost = tasks[t].lost \cup gone /\ tasks'[t].result = tasks[t].result
    BY <2>1 DEF IInv, Typed
  <2>6. Ordered' /\ AnswersResolve'
    <3>1. PICK ups, lost : ups = DOMAIN wire[1].upserts /\ lost = gone
      OBVIOUS
    <3>2. /\ DOMAIN mirror \cup ups \subseteq DOMAIN mirror' \cup lost
          /\ DOMAIN wire[1].upserts \subseteq ups /\ DOMAIN tasks' \subseteq DOMAIN tasks
          /\ \A t \in DOMAIN tasks' : tasks[t].lost \cup lost \subseteq tasks'[t].lost
      BY <2>4, <2>5, <3>1
    <3>. QED
      BY <2>1, <3>2, LinkReceived
  <2>7. ResultsResolve'
    BY <2>4, <2>5 DEF LInv, ResultsResolve
  <2>8. LinksResolve'
    BY <2>1 DEF LInv, LinksResolve
  <2>. QED
    BY <2>6, <2>7, <2>8 DEF LInv
<1>2. CASE ReceiveResult
  <2>. DEFINE r == Head(wire)
  <2>1. /\ wire # <<>> /\ IsAnswer(r) /\ wire' = Tail(wire) /\ UNCHANGED <<mirror, view>>
        /\ tasks' = [t \in DOMAIN tasks |->
                       IF t = r.id THEN [tasks[t] EXCEPT !.result = <<r.result>>] ELSE tasks[t]]
    BY <1>2 DEF ReceiveResult, verdeVars, IsAnswer
  <2>2. r = wire[1] /\ 1 \in 1..Len(wire) /\ IsSequence(wire)
    BY <2>1, TailAt DEF IInv, Typed
  <2>. HIDE DEF r
  <2>3. DOMAIN tasks' = DOMAIN tasks /\ \A t \in DOMAIN tasks :
             /\ tasks'[t].lost = tasks[t].lost
             /\ tasks'[t].result = IF t = r.id THEN <<r.result>> ELSE tasks[t].result
    BY <2>1 DEF IInv, Typed
  <2>4. Ordered' /\ AnswersResolve'
    <3>0. PICK none : none = {}
      OBVIOUS
    <3>1. DOMAIN mirror \cup none \subseteq DOMAIN mirror' \cup none
      BY <2>1, <3>0
    <3>2. \A t \in DOMAIN tasks' : tasks[t].lost \cup none \subseteq tasks'[t].lost
      BY <2>3, <3>0
    <3>3. IsAnswer(wire[1]) /\ DOMAIN tasks' \subseteq DOMAIN tasks
      BY <2>1, <2>2, <2>3
    <3>. QED
      BY <2>1, <3>1, <3>2, <3>3, LinkReceived
  <2>5. ResultsResolve'
    <3>1. SUFFICES ASSUME NEW t \in DOMAIN tasks, tasks'[t].result # <<>>,
                          tasks'[t].result[1].type = "Reads"
                   PROVE  Refs(tasks'[t].result[1].props) \subseteq DOMAIN mirror \cup tasks[t].lost
      BY <2>1, <2>3 DEF ResultsResolve
    <3>2. CASE t = r.id
      <4>1. tasks'[t].result[1] = r.result
        BY <2>3, <3>2
      <4>2. Upserted(1) = {}
        BY DEF Upserted
      <4>. QED
        BY <2>1, <2>2, <3>1, <3>2, <4>1, <4>2 DEF LInv, AnswersResolve
    <3>3. CASE t # r.id
      BY <2>3, <3>1, <3>3 DEF LInv, ResultsResolve
    <3>. QED
      BY <3>2, <3>3
  <2>6. LinksResolve'
    BY <2>1 DEF LInv, LinksResolve
  <2>. QED
    BY <2>4, <2>5, <2>6 DEF LInv
<1>3. ASSUME NEW t \in DOMAIN tasks, Settle(t), LinksResolve'
      PROVE  LInv'
  <2>1. UNCHANGED <<wire, mirror>> /\ tasks' = Restrict(tasks, DOMAIN tasks \ {t})
    BY <1>3 DEF Settle
  <2>2. DOMAIN tasks' \subseteq DOMAIN tasks /\ \A u \in DOMAIN tasks' : tasks'[u] = tasks[u]
    BY <2>1 DEF Restrict
  <2>3. Ordered' /\ AnswersResolve' /\ ResultsResolve'
    BY <2>1, <2>2 DEF LInv, Ordered, AnswersResolve, ResultsResolve, Upserted, IsAnswer
  <2>. QED
    BY <1>3, <2>3 DEF LInv
<1>4. ASSUME NEW t \in DOMAIN tasks, ToOutcome(t)
      PROVE  LInv'
  <2>. DEFINE r == tasks[t].result[1]
  <2>1. CASE r.type # "Reads"
    <3>1. UNCHANGED view /\ Settle(t)
      BY <1>4, <2>1 DEF ToOutcome
    <3>. QED
      BY <1>3, <3>1 DEF LInv, LinksResolve
  <2>2. CASE r.type = "Reads"
    <3>1. /\ view'.resolved = Refs(r.props) \cap DOMAIN mirror /\ view'.lost = tasks[t].lost
          /\ view'.props = Restrict(r.props, DOMAIN r.props \ HIDDEN_PROPERTIES)
          /\ tasks[t].result # <<>> /\ Settle(t)
      BY <1>4, <2>2, Zenon DEF ToOutcome
    <3>2. Refs(r.props) \subseteq DOMAIN mirror \cup tasks[t].lost
      BY <2>2, <3>1 DEF LInv, ResultsResolve
    <3>3. Refs(view'.props) \subseteq Refs(r.props)
      BY <3>1 DEF Refs, Restrict
    <3>4. LinksResolve'
      BY <3>1, <3>2, <3>3 DEF LinksResolve
    <3>. QED
      BY <1>3, <3>1, <3>4
  <2>. QED
    BY <2>1, <2>2
<1>5. ASSUME NEW t \in DOMAIN tasks, Timeout(t)
      PROVE  LInv'
  BY <1>3, <1>5 DEF Timeout, LInv, LinksResolve
<1>6. ASSUME \/ \E query \in searches : RunSearch(query)
             \/ \E l \in Levels : SetSecurity(l)
      PROVE  LInv'
  <2>1. UNCHANGED <<wire, mirror, tasks, view>>
    BY <1>6 DEF RunSearch, SetSecurity, verdeVars
  <2>. QED
    BY <2>1 DEF LInv, Ordered, AnswersResolve, ResultsResolve, LinksResolve, Upserted, IsAnswer
<1>. QED
  BY <1>1, <1>2, <1>4, <1>5, <1>6 DEF Broker

LEMMA InitLinks == Init => LInv
<1>. SUFFICES ASSUME Init PROVE LInv
  OBVIOUS
<1>1. wire = <<>> /\ view = <<>> /\ tasks = Empty
  BY DEF Init
<1>2. DOMAIN tasks = {} /\ Len(wire) = 0
  BY <1>1 DEF Empty
<1>. QED
  BY <1>1, <1>2, EmptyIs DEF LInv, Ordered, AnswersResolve, ResultsResolve, LinksResolve

LEMMA NextLinks == IInv /\ VInv /\ LInv /\ [Next]_vars => LInv'
<1>. SUFFICES ASSUME IInv, VInv, LInv, [Next]_vars PROVE LInv'
  OBVIOUS
<1>1. CASE Next
  BY <1>1, LinkVerde, LinkClient, LinkBroker, LinkGame DEF Next
<1>2. CASE UNCHANGED vars
  <2>1. UNCHANGED <<wire, mirror, tasks, view>>
    BY <1>2 DEF vars, brokerVars, verdeVars
  <2>. QED
    BY <2>1 DEF LInv, Ordered, AnswersResolve, ResultsResolve, LinksResolve, Upserted, IsAnswer
<1>. QED
  BY <1>1, <1>2

\* Whatever the game does meanwhile, what a shown property refers to is in the mirror when it
\* is shown, unless a patch removed it while the read was on its way: the client sends the
\* instances ahead of the read (GetProperties), and the connection keeps the order.
THEOREM LinksCorrect == Spec => []LinksResolve
<1>1. Init => IInv /\ VInv /\ LInv
  BY InitIsWithin, InitFits, InitLinks
<1>2. (IInv /\ VInv /\ LInv) /\ [Next]_vars => (IInv /\ VInv /\ LInv)'
  BY NextStaysWithin, NextFits, NextLinks
<1>3. LInv => LinksResolve
  BY DEF LInv
<1>. QED
  BY <1>1, <1>2, <1>3, PTL DEF Spec

(***************************************************************************)
(* And searches.  Where Verde does not change the tree, what is under way  *)
(* takes the broker's mirror to the client's, a tree at every step.        *)
(***************************************************************************)
\* A mirror: every node hangs off the root.
Shape(known) ==
    known = [i \in DOMAIN known |-> known[i]] /\ DOMAIN known \subseteq Nodes /\ IsForest(known)

\* ReceivePatch, of any message.
Merged(m, known) ==
    IF IsAnswer(m) THEN known
    ELSE LET tree == Over(m.upserts, known)
         IN  Restrict(tree, DOMAIN tree \ UNION {Under(tree, r) : r \in m.removals \cap DOMAIN tree})

\* The messages take one mirror to another, each leaving a tree.
Leads(w, from, to) ==
    \E h : /\ h[1] = from /\ h[Len(w) + 1] = to
           /\ \A k \in 1..Len(w) : h[k + 1] = Merged(w[k], h[k]) /\ Shape(h[k + 1])

\* The client's mirror may be behind the game: what was detached then hangs off the root.
Behind(tree, known) == \A i \in DOMAIN known : known[i] \in {tree[i], Root}

\* No request on its way changes the tree.
AsksStill ==
    \A m \in ToSet(inbox) :
      m.op.type \in {"GetProperties", "SetProperty", "SetAttribute", "RemoveAttribute", "RenameAttribute"}

Followed ==
    /\ AsksStill
    /\ Shape(mirror) /\ Shape(parents) /\ Behind(live, parents)
    /\ Leads(wire, mirror, parents)

FInv ==
    /\ world \in Worlds /\ FoundIsReachable
    /\ IF "search" \in world THEN Followed ELSE searches = {}

(***************************************************************************)
(* Mirrors that stay trees.                                                *)
(***************************************************************************)
\* What is removed is closed downwards.
Gone(tree, L) == UNION {Under(tree, i) : i \in L \cap DOMAIN tree}

LEMMA GoneFacts ==
    ASSUME NEW tree, Acyclic(tree), NEW L
    PROVE  /\ Gone(tree, L) \subseteq DOMAIN tree
           /\ \A j \in DOMAIN tree : tree[j] \in Gone(tree, L) => j \in Gone(tree, L)
           /\ Gone(tree, Gone(tree, L)) = Gone(tree, L)
<1>. DEFINE gone == Gone(tree, L)
<1>1. \A j : j \in gone <=> j \in DOMAIN tree /\ \E i \in L \cap DOMAIN tree : i \in Above(tree, j)
  BY DEF Under, Gone
<1>. HIDE DEF gone
<1>2. ASSUME NEW j \in DOMAIN tree, tree[j] \in gone
      PROVE  j \in gone
  <2>1. PICK i \in L \cap DOMAIN tree : i \in Above(tree, tree[j]) /\ tree[j] \in DOMAIN tree
    BY <1>1, <1>2
  <2>2. Above(tree, j) = {j} \cup Above(tree, tree[j])
    BY <2>1, AboveIs
  <2>. QED
    BY <1>1, <2>1, <2>2
<1>3. ASSUME NEW j \in gone
      PROVE  j \in Gone(tree, gone)
  <2>1. j \in DOMAIN tree /\ j \in Above(tree, j)
    BY <1>1, <1>3, AboveFacts
  <2>2. j \in Under(tree, j)
    BY <2>1 DEF Under
  <2>. QED
    BY <1>3, <2>1, <2>2 DEF Gone
<1>4. ASSUME NEW r \in gone, NEW j \in Under(tree, r)
      PROVE  j \in gone
  <2>1. j \in DOMAIN tree /\ r \in Above(tree, j)
    BY <1>4 DEF Under
  <2>2. Above(tree, r) \subseteq Above(tree, j)
    BY <2>1, AboveFacts
  <2>. QED
    BY <1>1, <1>4, <2>1, <2>2
<1>5. Gone(tree, gone) \subseteq gone
  BY <1>4 DEF Gone
<1>6. gone \subseteq DOMAIN tree
  BY <1>1
<1>. QED
  BY <1>2, <1>3, <1>5, <1>6 DEF gone

LEMMA RestShape ==
    ASSUME NEW known, Shape(known), NEW gone, \A j \in DOMAIN known : known[j] \in gone => j \in gone
    PROVE  Shape(Restrict(known, DOMAIN known \ gone))
<1>. DEFINE rest == Restrict(known, DOMAIN known \ gone)
<1>1. rest = [i \in DOMAIN rest |-> rest[i]] /\ DOMAIN rest = DOMAIN known \ gone
      /\ \A i \in DOMAIN rest : rest[i] = known[i]
  BY DEF Restrict
<1>. HIDE DEF rest
<1>2. \A i \in DOMAIN rest : rest[i] \in DOMAIN rest \cup {Root}
  BY <1>1 DEF Shape, IsForest
<1>3. \A S \in SUBSET DOMAIN rest : S # {} => \E i \in S : rest[i] \notin S
  <2>. SUFFICES ASSUME NEW S \in SUBSET DOMAIN rest, S # {} PROVE \E i \in S : rest[i] \notin S
    OBVIOUS
  <2>1. S \in SUBSET DOMAIN known
    BY <1>1
  <2>2. \E i \in S : known[i] \notin S
    BY <2>1 DEF Shape, IsForest
  <2>. QED
    BY <1>1, <2>2
<1>4. Shape(rest)
  BY <1>1, <1>2, <1>3 DEF Shape, IsForest
<1>. QED
  BY <1>4 DEF rest

\* The frames are nothing or one patch, and take one mirror to the other.
Sends(frames, from, to) ==
    \/ frames = <<>> /\ to = from
    \/ \E p : frames = <<p>> /\ to = Merged(p, from)

LEMMA PruneSends ==
    ASSUME NEW known, Shape(known), NEW leaving, NEW out, out = Pruned(known, leaving)
    PROVE  /\ Shape(out.known) /\ Sends(out.frames, known, out.known)
           /\ DOMAIN out.known \subseteq DOMAIN known
           /\ leaving \cap DOMAIN out.known = {}
           /\ \A i \in DOMAIN out.known : out.known[i] = known[i]
<1>. DEFINE gone == Gone(known, leaving)
<1>1. out.known = Restrict(known, DOMAIN known \ gone)
      /\ out.frames = IF gone = {} THEN <<>> ELSE <<Patch(Empty, gone)>>
  BY DEF Pruned, Gone
<1>2. Acyclic(known)
  BY DEF Shape, IsForest, Acyclic
<1>3. /\ gone \subseteq DOMAIN known
      /\ \A j \in DOMAIN known : known[j] \in gone => j \in gone
      /\ Gone(known, gone) = gone
  BY <1>2, GoneFacts
<1>. HIDE DEF gone
<1>4. Shape(out.known)
  BY <1>1, <1>3, RestShape
<1>5. /\ DOMAIN out.known = DOMAIN known \ gone
      /\ \A i \in DOMAIN out.known : out.known[i] = known[i]
  BY <1>1 DEF Restrict
<1>6. \A i \in leaving \cap DOMAIN known : i \in gone
  <2>. SUFFICES ASSUME NEW i \in leaving \cap DOMAIN known PROVE i \in gone
    OBVIOUS
  <2>1. i \in Under(known, i)
    BY <1>2, AboveFacts DEF Under
  <2>. QED
    BY <2>1 DEF gone, Gone
<1>7. CASE gone = {}
  <2>1. out.known = known
    BY <1>1, <1>7 DEF Restrict, Shape
  <2>. QED
    BY <1>1, <1>4, <1>5, <1>6, <1>7, <2>1 DEF Sends
<1>8. CASE gone # {}
  <2>. DEFINE p == Patch(Empty, gone)
  <2>1. ~ IsAnswer(p) /\ p.upserts = Empty /\ p.removals = gone
    BY DEF Patch, IsAnswer
  <2>. HIDE DEF p
  <2>2. Over(Empty, known) = known
    BY DEF Over, Empty, Shape
  <2>3. Merged(p, known) = Restrict(known, DOMAIN known \ gone)
    BY <1>3, <2>1, <2>2 DEF Merged, Gone
  <2>4. out.frames = <<p>>
    BY <1>1, <1>8 DEF p
  <2>5. Sends(out.frames, known, out.known)
    BY <1>1, <2>3, <2>4 DEF Sends
  <2>. QED
    BY <1>4, <1>5, <1>6, <2>5
<1>. QED
  BY <1>7, <1>8

LEMMA BehindAcyclic ==
    ASSUME NEW tree, Acyclic(tree), NEW known, DOMAIN known \subseteq DOMAIN tree,
           Root \notin DOMAIN tree, Behind(tree, known)
    PROVE  \A S \in SUBSET DOMAIN known : S # {} => \E i \in S : known[i] \notin S
<1>. SUFFICES ASSUME NEW S \in SUBSET DOMAIN known, S # {} PROVE \E i \in S : known[i] \notin S
  OBVIOUS
<1>1. S \in SUBSET DOMAIN tree
  OBVIOUS
<1>2. PICK i \in S : tree[i] \notin S
  BY <1>1 DEF Acyclic
<1>. QED
  BY <1>1, <1>2 DEF Behind

\* What is refreshed hangs off something refreshed, something known, or the root.
LEMMA MirrorAllShape ==
    ASSUME NEW tree, Acyclic(tree), DOMAIN tree \subseteq Nodes, Nowhere \notin DOMAIN tree,
           \A i \in DOMAIN tree : tree[i] \in DOMAIN tree \cup {Root, Nowhere},
           NEW known, Shape(known), DOMAIN known \subseteq DOMAIN tree, Behind(tree, known),
           NEW S, S \subseteq DOMAIN tree, NEW m, m = MirrorAll(tree, known, S)
    PROVE  /\ Shape(m.known) /\ Behind(tree, m.known) /\ Sends(m.frames, known, m.known)
           /\ DOMAIN m.known \subseteq DOMAIN tree
<1>. DEFINE u == [j \in UNION {Mirrored(tree, DOMAIN known, i) : i \in S} |->
                    IF tree[j] = Nowhere THEN Root ELSE tree[j]]
<1>0. PICK ups : ups = u
  OBVIOUS
<1>1. /\ m.known = Over(ups, known) /\ m.frames = IF S = {} THEN <<>> ELSE <<Patch(ups, {})>>
  BY <1>0 DEF MirrorAll
<1>2. DOMAIN ups = UNION {Mirrored(tree, DOMAIN known, i) : i \in S}
      /\ \A j \in DOMAIN ups : ups[j] = IF tree[j] = Nowhere THEN Root ELSE tree[j]
  BY <1>0
<1>3. ASSUME NEW j \in DOMAIN ups
      PROVE  j \in DOMAIN tree /\ (tree[j] \in DOMAIN tree => tree[j] \in DOMAIN known \cup DOMAIN ups)
  <2>1. PICK i \in S : j \in Mirrored(tree, DOMAIN known, i)
    BY <1>2, <1>3
  <2>2. j \in DOMAIN tree /\ (tree[j] \in DOMAIN tree =>
                                tree[j] \in DOMAIN known \cup Mirrored(tree, DOMAIN known, i))
    BY <2>1, MirroredFacts
  <2>. QED
    BY <1>2, <2>1, <2>2
<1>4. /\ m.known = [i \in DOMAIN m.known |-> m.known[i]]
      /\ DOMAIN m.known = DOMAIN ups \cup DOMAIN known
      /\ \A i \in DOMAIN m.known : m.known[i] = IF i \in DOMAIN ups THEN ups[i] ELSE known[i]
  BY <1>1 DEF Over
<1>5. Root \notin DOMAIN tree
  BY TreesAssumption
<1>6. DOMAIN m.known \subseteq DOMAIN tree /\ Behind(tree, m.known)
  BY <1>2, <1>3, <1>4 DEF Behind
<1>7. \A i \in DOMAIN m.known : m.known[i] \in DOMAIN m.known \cup {Root}
  <2>. SUFFICES ASSUME NEW i \in DOMAIN m.known PROVE m.known[i] \in DOMAIN m.known \cup {Root}
    OBVIOUS
  <2>1. CASE i \in DOMAIN ups
    BY <1>2, <1>3, <1>4, <2>1
  <2>2. CASE i \notin DOMAIN ups
    BY <1>4, <2>2 DEF Shape, IsForest
  <2>. QED
    BY <2>1, <2>2
<1>8. Shape(m.known)
  <2>1. \A T \in SUBSET DOMAIN m.known : T # {} => \E i \in T : m.known[i] \notin T
    BY <1>5, <1>6, BehindAcyclic
  <2>. QED
    BY <1>4, <1>6, <1>7, <2>1 DEF Shape, IsForest
<1>9. Sends(m.frames, known, m.known)
  <2>1. CASE S = {}
    <3>1. DOMAIN ups = {}
      BY <1>2, <2>1
    <3>2. m.known = known
      BY <1>1, <3>1 DEF Over, Shape
    <3>. QED
      BY <1>1, <2>1, <3>2 DEF Sends
  <2>2. CASE S # {}
    <3>. DEFINE p == Patch(ups, {})
    <3>1. ~ IsAnswer(p) /\ p.upserts = ups /\ p.removals = {}
      BY DEF Patch, IsAnswer
    <3>2. m.frames = <<p>>
      BY <1>1, <2>2
    <3>. HIDE DEF p
    <3>3. Merged(p, known) = Restrict(m.known, DOMAIN m.known \ {})
      BY <1>1, <3>1 DEF Merged
    <3>4. Restrict(m.known, DOMAIN m.known \ {}) = m.known
      BY <1>4 DEF Restrict
    <3>. QED
      BY <3>2, <3>3, <3>4 DEF Sends
  <2>. QED
    BY <2>1, <2>2
<1>. QED
  BY <1>6, <1>8, <1>9

(***************************************************************************)
(* Messages on their way.                                                  *)
(***************************************************************************)
LEMMA LeadsAppend ==
    ASSUME NEW w, IsSequence(w), NEW from, NEW to, Leads(w, from, to), NEW e, Shape(Merged(e, to))
    PROVE  Leads(w \o <<e>>, from, Merged(e, to))
<1>1. PICK h : /\ h[1] = from /\ h[Len(w) + 1] = to
               /\ \A k \in 1..Len(w) : h[k + 1] = Merged(w[k], h[k]) /\ Shape(h[k + 1])
  BY DEF Leads
<1>0. PICK n \in Nat : n = Len(w)
  BY MemberAt
<1>2. PICK x : n = Len(w) /\ x = w \o <<e>>
  BY <1>0
<1>3. Len(x) = n + 1 /\ x[n + 1] = e /\ \A k \in 1..n : x[k] = w[k]
  <2>1. IsSequence(<<e>>) /\ Len(<<e>>) = 1 /\ <<e>>[1] = e
    BY OneIs
  <2>. QED
    BY <1>2, <2>1, ConcatAt
<1>4. PICK next : next = Merged(e, to)
  OBVIOUS
<1>. DEFINE g == [k \in 1..(n + 2) |-> IF k = n + 2 THEN next ELSE h[k]]
<1>5. g[1] = from /\ g[n + 1] = to /\ g[n + 2] = next /\ \A k \in 1..n : g[k] = h[k] /\ g[k + 1] = h[k + 1]
  BY <1>1, <1>2
<1>. HIDE DEF g
<1>6. ASSUME NEW k \in 1..(n + 1)
      PROVE  g[k + 1] = Merged(x[k], g[k]) /\ Shape(g[k + 1])
  <2>1. CASE k \in 1..n
    BY <1>1, <1>2, <1>3, <1>5, <2>1
  <2>2. CASE k = n + 1
    <3>1. k + 1 = n + 2 /\ g[k] = to /\ x[k] = e
      BY <1>3, <1>5, <2>2
    <3>. QED
      BY <1>4, <1>5, <3>1
  <2>. QED
    BY <2>1, <2>2
<1>7. g[1] = from /\ g[Len(x) + 1] = next
  BY <1>3, <1>5
<1>8. Leads(x, from, next)
  BY <1>3, <1>6, <1>7 DEF Leads
<1>. QED
  BY <1>2, <1>4, <1>8

LEMMA LeadsSends ==
    ASSUME NEW w, IsSequence(w), NEW from, NEW to, Leads(w, from, to),
           NEW frames, NEW next, Sends(frames, to, next), Shape(next)
    PROVE  IsSequence(w \o frames) /\ Leads(w \o frames, from, next)
<1>1. CASE frames = <<>> /\ next = to
  <2>1. w \o <<>> = w
    <3>1. PICK S : w \in Seq(S)
      BY DEF IsSequence
    <3>. QED
      BY <3>1
  <2>. QED
    BY <1>1, <2>1
<1>2. ASSUME NEW p, frames = <<p>>, next = Merged(p, to)
      PROVE  IsSequence(w \o frames) /\ Leads(w \o frames, from, next)
  BY <1>2, LeadsAppend, OneIs, ConcatIs
<1>. QED
  BY <1>1, <1>2 DEF Sends

LEMMA LeadsTail ==
    ASSUME NEW w, IsSequence(w), w # <<>>, NEW from, NEW to, Leads(w, from, to)
    PROVE  Leads(Tail(w), Merged(Head(w), from), to) /\ Shape(Merged(Head(w), from))
<1>1. PICK h : /\ h[1] = from /\ h[Len(w) + 1] = to
               /\ \A k \in 1..Len(w) : h[k + 1] = Merged(w[k], h[k]) /\ Shape(h[k + 1])
  BY DEF Leads
<1>0. PICK n \in Nat : n = Len(w)
  BY TailAt
<1>2. PICK x : n = Len(w) /\ x = Tail(w)
  BY <1>0
<1>3. Len(x) = n - 1 /\ n >= 1 /\ Head(w) = w[1] /\ \A k \in 1..(n - 1) : x[k] = w[k + 1]
  <2>1. /\ Len(Tail(w)) = n - 1 /\ 1 \in 1..n /\ Head(w) = w[1]
        /\ \A k \in 1..Len(Tail(w)) : Tail(w)[k] = w[k + 1]
    BY <1>2, TailAt
  <2>. QED
    BY <1>2, <2>1
<1>. DEFINE g == [k \in 1..n |-> h[k + 1]]
<1>4. g[1] = h[1 + 1] /\ g[n] = to /\ \A k \in 1..(n - 1) : g[k] = h[k + 1] /\ g[k + 1] = h[(k + 1) + 1]
  BY <1>1, <1>2, <1>3
<1>. HIDE DEF g
<1>5. h[1 + 1] = Merged(Head(w), from) /\ Shape(h[1 + 1])
  BY <1>1, <1>2, <1>3
<1>6. ASSUME NEW k \in 1..(n - 1)
      PROVE  g[k + 1] = Merged(x[k], g[k]) /\ Shape(g[k + 1])
  <2>1. k + 1 \in 1..n
    BY <1>2
  <2>. QED
    BY <1>1, <1>2, <1>3, <1>4, <2>1
<1>7. g[1] = Merged(Head(w), from) /\ g[Len(x) + 1] = to
  BY <1>2, <1>3, <1>4, <1>5
<1>8. Leads(x, Merged(Head(w), from), to)
  BY <1>3, <1>6, <1>7 DEF Leads
<1>. QED
  BY <1>2, <1>5, <1>8

(***************************************************************************)
(* The steps, for searches.                                                *)
(***************************************************************************)
\* Verde does not search where it changes the tree.
Separate == \A w \in Worlds : "search" \in w => "tree" \notin w

LEMMA FollowPatches ==
    ASSUME IInv, Followed, NEW frames, NEW known, Sends(frames, parents, known), Shape(known),
           parents' = known, wire' = wire \o frames, Behind(live', known), UNCHANGED <<inbox, mirror>>
    PROVE  Followed'
<1>1. Leads(wire', mirror, known)
  BY LeadsSends DEF IInv, Typed, Followed
<1>. QED
  BY <1>1 DEF Followed, AsksStill

LEMMA FollowAnswered ==
    ASSUME IInv, Followed, inbox # <<>>, NEW frames, NEW known, NEW result,
           Sends(frames, parents, known), Shape(known), Behind(live, known),
           Apply(known, frames, result), UNCHANGED live
    PROVE  Followed'
<1>. DEFINE answer == [id |-> Head(inbox).id, result |-> result]
<1>1. /\ wire' = (wire \o frames) \o <<answer>> /\ parents' = known /\ inbox' = Tail(inbox)
      /\ UNCHANGED mirror
  BY DEF Apply, brokerVars
<1>2. Merged(answer, known) = known
  BY DEF Merged, IsAnswer
<1>. HIDE DEF answer
<1>3. IsSequence(wire \o frames) /\ Leads(wire \o frames, mirror, known)
  BY LeadsSends DEF IInv, Typed, Followed
<1>4. PICK w : w = wire \o frames
  OBVIOUS
<1>5. Leads(w \o <<answer>>, mirror, known)
  <2>1. IsSequence(w) /\ Leads(w, mirror, known)
    BY <1>3, <1>4
  <2>. QED
    BY <1>2, <2>1, LeadsAppend
<1>6. ToSet(inbox') \subseteq ToSet(inbox)
  BY <1>1, TailIs DEF IInv, Typed
<1>. QED
  BY <1>1, <1>4, <1>5, <1>6 DEF Followed, AsksStill

\* Nothing is sent ahead of the answer.
LEMMA FollowDone ==
    ASSUME IInv, Followed, inbox # <<>>, NEW result, Apply(parents, <<>>, result), UNCHANGED live
    PROVE  Followed'
  BY FollowAnswered DEF Sends, Followed

LEMMA FollowRefuse ==
    ASSUME IInv, Followed, inbox # <<>>, NEW code, Refuse(code)
    PROVE  Followed'
  BY FollowDone DEF Refuse, gameVars

\* What is mirrored on the way.
LEMMA FollowMirrored ==
    ASSUME VInv, Followed, NEW S, S \subseteq DOMAIN live, NEW m, m = MirrorAll(live, parents, S)
    PROVE  /\ Shape(m.known) /\ Behind(live, m.known) /\ Sends(m.frames, parents, m.known)
<1>1. /\ Acyclic(live) /\ DOMAIN live \subseteq Nodes /\ DOMAIN parents \subseteq DOMAIN live
      /\ \A i \in DOMAIN live : live[i] \in DOMAIN live \cup {Root, Nowhere}
      /\ Nowhere \notin DOMAIN live
  BY VerdeOpsAssumption DEF VInv, GameFits
<1>2. Shape(parents) /\ Behind(live, parents)
  BY DEF Followed
<1>. QED
  BY <1>1, <1>2, MirrorAllShape

LEMMA FollowGetProperties ==
    ASSUME IInv, VInv, Followed, GetProperties
    PROVE  Followed'
<1>. DEFINE i     == Todo.node
            has   == DOMAIN props[i]
            names == (IF Todo.properties = {} THEN has ELSE Todo.properties \cap has) \ SKIP_PROPERTIES
            reads == [type  |-> "Reads", props |-> Restrict(props[i], names), attrs |-> attrs[i]]
            refs  == Refs(reads.props)
            m     == MirrorAll(live, parents, refs)
<1>1. inbox # <<>> /\ Resolved(i) /\ Apply(m.known, m.frames, reads) /\ UNCHANGED live
  BY DEF GetProperties, On, gameVars
<1>2. i \in DOMAIN live /\ names \subseteq DOMAIN props[i]
  BY <1>1 DEF VInv, GameFits, Resolved
<1>. HIDE DEF names
<1>3. refs \subseteq DOMAIN live
  BY <1>2, ReadIs
<1>. HIDE DEF reads, refs
<1>4. PICK sent : sent = m
  OBVIOUS
<1>5. Shape(sent.known) /\ Behind(live, sent.known) /\ Sends(sent.frames, parents, sent.known)
  BY <1>3, <1>4, FollowMirrored
<1>. HIDE DEF m
<1>. QED
  BY <1>1, <1>4, <1>5, FollowAnswered

LEMMA FollowSyncSnapshot ==
    ASSUME IInv, VInv, Followed, SyncSnapshot
    PROVE  Followed'
<1>. DEFINE here  == {i \in DOMAIN live : Inside(live, i)}
            sent  == MirrorAll(live, parents, here)
            after == Pruned(sent.known, DOMAIN sent.known \ here)
<1>1. /\ wire' = (wire \o sent.frames) \o after.frames /\ parents' = after.known
      /\ UNCHANGED <<live, inbox, mirror>>
  BY DEF SyncSnapshot, brokerVars, gameVars
<1>2. here \subseteq DOMAIN live
  OBVIOUS
<1>. HIDE DEF here
<1>3. PICK s : s = sent
  OBVIOUS
<1>4. Shape(s.known) /\ Behind(live, s.known) /\ Sends(s.frames, parents, s.known)
  BY <1>2, <1>3, FollowMirrored
<1>5. PICK a : a = Pruned(s.known, DOMAIN s.known \ here)
  OBVIOUS
<1>6. /\ Shape(a.known) /\ Sends(a.frames, s.known, a.known) /\ DOMAIN a.known \subseteq DOMAIN s.known
      /\ \A i \in DOMAIN a.known : a.known[i] = s.known[i]
  BY <1>4, <1>5, PruneSends
<1>7. Behind(live, a.known)
  BY <1>4, <1>6 DEF Behind
<1>8. wire' = (wire \o s.frames) \o a.frames /\ parents' = a.known
  BY <1>1, <1>3, <1>5
<1>. HIDE DEF sent, after
<1>9. IsSequence(wire \o s.frames) /\ Leads(wire \o s.frames, mirror, s.known)
  BY <1>4, LeadsSends DEF IInv, Typed, Followed
<1>10. Leads((wire \o s.frames) \o a.frames, mirror, a.known)
  BY <1>6, <1>9, LeadsSends
<1>. QED
  BY <1>1, <1>6, <1>7, <1>8, <1>10 DEF Followed, AsksStill

LEMMA FollowClient ==
    ASSUME IInv, VInv, Followed, Client
    PROVE  Followed'
<1>1. inbox # <<>> => Todo.type \in {"GetProperties", "SetProperty", "SetAttribute", "RemoveAttribute",
                                     "RenameAttribute"}
  BY TailIs DEF IInv, Typed, Followed, AsksStill, Todo
<1>2. CASE UnknownNode
  BY <1>2, FollowRefuse DEF UnknownNode
<1>3. CASE SetProperty
  <2>1. /\ inbox # <<>> /\ Todo.node \in DOMAIN live
        /\ \/ Refuse("assign_failed")
           \/ (LET m == Refreshed(live, parents) IN Apply(m.known, m.frames, Ok)) /\ UNCHANGED live
    BY <1>3, Zenon DEF SetProperty, On, Resolved, VInv, GameFits
  <2>2. PICK m : m = MirrorAll(live, parents, {Todo.node})
    OBVIOUS
  <2>3. Shape(m.known) /\ Behind(live, m.known) /\ Sends(m.frames, parents, m.known)
    BY <2>1, <2>2, FollowMirrored
  <2>4. Refreshed(live, parents) = m
    BY <2>2 DEF Refreshed
  <2>. QED
    BY <2>1, <2>3, <2>4, FollowRefuse, FollowAnswered
<1>4. CASE SetAttribute \/ RemoveAttribute \/ RenameAttribute
  <2>1. inbox # <<>> /\ Apply(parents, <<>>, Ok) /\ UNCHANGED live
    BY <1>4 DEF SetAttribute, RemoveAttribute, RenameAttribute, On
  <2>. QED
    BY <2>1, FollowDone
<1>5. ~ (Rename \/ Tag \/ RunCode \/ Delete \/ Move \/ Create)
  BY <1>1 DEF Rename, Tag, RunCode, Delete, Move, Create, On
<1>. QED
  BY <1>2, <1>3, <1>4, <1>5, FollowGetProperties, FollowSyncSnapshot DEF Client

\* The client searches nothing.
LEMMA ClientLeaves == Client => UNCHANGED <<world, searches, found>>
<1>. SUFFICES ASSUME Client PROVE UNCHANGED <<world, searches, found>>
  OBVIOUS
<1>1. ASSUME NEW known, NEW frames, NEW result, Apply(known, frames, result)
      PROVE  UNCHANGED <<world, searches, found>>
  BY <1>1 DEF Apply, brokerVars, verdeVars
<1>2. CASE SyncSnapshot
  BY <1>2 DEF SyncSnapshot, brokerVars, verdeVars
<1>3. CASE UnknownNode \/ Rename \/ Tag \/ RunCode \/ Delete
  BY <1>1, <1>3 DEF UnknownNode, Refuse, Rename, Tag, RunCode, Delete
<1>4. CASE Move
  BY <1>1, <1>4 DEF Move, Refuse
<1>5. CASE Create
  BY <1>1, <1>5 DEF Create, Refuse
<1>6. CASE SetProperty
  BY <1>1, <1>6 DEF SetProperty, Refuse
<1>7. CASE SetAttribute \/ RemoveAttribute \/ RenameAttribute \/ GetProperties
  BY <1>1, <1>7 DEF SetAttribute, RemoveAttribute, RenameAttribute, GetProperties
<1>. QED
  BY <1>2, <1>3, <1>4, <1>5, <1>6, <1>7 DEF Client

\* Nothing is searched.
LEMMA FindOther ==
    ASSUME FInv, UNCHANGED <<world, searches, found>>, Followed => Followed'
    PROVE  FInv'
  BY DEF FInv, FoundIsReachable

\* Nothing that Verde asks for changes the tree.
LEMMA FollowRun ==
    ASSUME IInv, Followed, NEW raw, RunOperation(raw),
           raw.type \in {"set_property", "set_attribute", "add_attribute", "GetProperties",
                         "RemoveAttribute", "RenameAttribute"},
           raw.type = "GetProperties" =>
             \E i : raw = [type |-> "GetProperties", node |-> i, properties |-> {}]
    PROVE  Followed'
<1>1. UNCHANGED <<live, parents, wire, mirror>>
  BY DEF RunOperation, gameVars
<1>2. ASSUME NEW op \in lower_operation(raw)
      PROVE  Resolve(op).type \in {"GetProperties", "SetProperty", "SetAttribute", "RemoveAttribute",
                                   "RenameAttribute"}
  <2>1. CASE raw.type = "GetProperties"
    <3>1. PICK i : raw = [type |-> "GetProperties", node |-> i, properties |-> {}]
      BY <2>1
    <3>2. op = raw
      BY <2>1, <1>2 DEF lower_operation
    <3>. QED
      BY <3>1, <3>2 DEF Resolve
  <2>2. CASE raw.type = "set_property"
    <3>1. op.type = "SetProperty"
      BY <2>2, <1>2 DEF lower_operation
    <3>. QED
      BY <3>1 DEF Resolve
  <2>3. CASE raw.type \in {"set_attribute", "add_attribute"}
    <3>1. op.type = "SetAttribute"
      BY <2>3, <1>2 DEF lower_operation
    <3>. QED
      BY <3>1 DEF Resolve
  <2>4. CASE raw.type \in {"RemoveAttribute", "RenameAttribute"}
    <3>1. op = raw
      BY <2>4, <1>2 DEF lower_operation
    <3>. QED
      BY <2>4, <3>1 DEF Resolve
  <2>. QED
    BY <2>1, <2>2, <2>3, <2>4
<1>3. AsksStill'
  <2>1. CASE UNCHANGED inbox
    BY <2>1 DEF Followed, AsksStill
  <2>2. ASSUME NEW op \in lower_operation(raw), inbox' = Append(inbox, [id |-> asked + 1, op |-> Resolve(op)])
        PROVE  AsksStill'
    <3>. DEFINE ask == [id |-> asked + 1, op |-> Resolve(op)]
    <3>1. ask.op = Resolve(op)
      OBVIOUS
    <3>2. inbox' = Append(inbox, ask)
      BY <2>2
    <3>. HIDE DEF ask
    <3>3. ToSet(inbox') = ToSet(inbox) \cup {ask}
      BY <3>2, AppendIs DEF IInv, Typed
    <3>. QED
      BY <1>2, <3>1, <3>3 DEF Followed, AsksStill
  <2>. QED
    BY <2>1, <2>2 DEF RunOperation
<1>. QED
  BY <1>1, <1>3 DEF Followed

LEMMA RunLeaves ==
    ASSUME NEW raw, RunOperation(raw)
    PROVE  UNCHANGED <<world, searches, found>>
  BY DEF RunOperation, verdeVars

LEMMA FindVerde ==
    ASSUME Separate, IInv, FInv, Verde
    PROVE  FInv'
<1>1. ASSUME NEW query, RequestSearch(query)
      PROVE  FInv'
  <2>1. /\ "search" \in world /\ UNCHANGED <<world, live, inbox, parents, wire, mirror, found>>
    BY <1>1 DEF RequestSearch, gameVars, verdeVars
  <2>2. Followed'
    BY <2>1 DEF FInv, Followed, AsksStill
  <2>. QED
    BY <2>1, <2>2 DEF FInv, FoundIsReachable
<1>2. ASSUME NEW i, EditTree(i), "tree" \in world
      PROVE  FInv'
  <2>1. UNCHANGED <<world, searches, found>>
    BY <1>2, RunLeaves DEF EditTree
  <2>2. "search" \notin world
    BY <1>2 DEF Separate, FInv
  <2>. QED
    BY <2>1, <2>2 DEF FInv, FoundIsReachable
<1>3. ASSUME NEW raw, RunOperation(raw),
             raw.type \in {"set_property", "set_attribute", "add_attribute", "GetProperties",
                           "RemoveAttribute", "RenameAttribute"},
             raw.type = "GetProperties" =>
               \E i : raw = [type |-> "GetProperties", node |-> i, properties |-> {}]
      PROVE  FInv'
  BY <1>3, FollowRun, RunLeaves, FindOther
<1>7. ASSUME NEW type \in {"set_property", "set_attribute"}, NEW values, SetValue(type, values)
      PROVE  FInv'
  <2>1. PICK name, e :
          RunOperation([type |-> type, node |-> view.node, name |-> name, json |-> e.json,
                        edit |-> [was |-> e.was, k |-> e.k, n |-> e.n]])
    BY <1>7 DEF SetValue
  <2>2. PICK raw : raw = [type |-> type, node |-> view.node, name |-> name, json |-> e.json,
                          edit |-> [was |-> e.was, k |-> e.k, n |-> e.n]]
    OBVIOUS
  <2>3. RunOperation(raw) /\ raw.type = type
    BY <2>1, <2>2
  <2>. QED
    BY <1>3, <2>3
<1>4. CASE EditValue
  BY <1>4, <1>7 DEF EditValue
<1>5. ASSUME NEW i, EditAttributes(i)
      PROVE  FInv'
  <2>1. PICK raw : RunOperation(raw) /\ raw.type \in {"RemoveAttribute", "RenameAttribute", "add_attribute"}
    BY <1>5 DEF EditAttributes
  <2>. QED
    BY <1>3, <2>1
<1>6. ASSUME NEW i, RunOperation([type |-> "GetProperties", node |-> i, properties |-> {}])
      PROVE  FInv'
  <2>1. PICK raw : raw = [type |-> "GetProperties", node |-> i, properties |-> {}]
    OBVIOUS
  <2>2. RunOperation(raw) /\ raw.type = "GetProperties"
    BY <1>6, <2>1
  <2>. QED
    BY <1>3, <2>1, <2>2
<1>. QED
  BY <1>1, <1>2, <1>4, <1>5, <1>6 DEF Verde

LEMMA FindGame ==
    ASSUME IInv, VInv, FInv, Game
    PROVE  FInv'
<1>0. Acyclic(live) /\ DOMAIN parents \subseteq DOMAIN live
  BY DEF VInv, GameFits
<1>1. ASSUME NEW i \in Nodes, Leave(i)
      PROVE  FInv'
  <2>. DEFINE out == Pruned(parents, Under(live, i))
  <2>1. /\ i \in DOMAIN live /\ live' = [live EXCEPT ![i] = Nowhere]
        /\ wire' = wire \o out.frames /\ parents' = out.known
        /\ UNCHANGED <<world, inbox, mirror, searches, found>>
    BY <1>1 DEF Leave, verdeVars
  <2>2. ASSUME Followed PROVE Followed'
    <3>1. PICK o : o = out
      OBVIOUS
    <3>2. Shape(parents)
      BY <2>2 DEF Followed
    <3>3. /\ Shape(o.known) /\ Sends(o.frames, parents, o.known) /\ DOMAIN o.known \subseteq DOMAIN parents
          /\ Under(live, i) \cap DOMAIN o.known = {}
          /\ \A j \in DOMAIN o.known : o.known[j] = parents[j]
      BY <3>1, <3>2, PruneSends
    <3>4. wire' = wire \o o.frames /\ parents' = o.known
      BY <2>1, <3>1
    <3>. HIDE DEF out
    <3>5. i \in Under(live, i)
      BY <1>0, <2>1, AboveFacts DEF Under
    <3>6. Behind(live', o.known)
      BY <1>0, <2>1, <2>2, <3>3, <3>5 DEF Behind, Followed
    <3>. QED
      BY <2>1, <2>2, <3>3, <3>4, <3>6, FollowPatches
  <2>. QED
    BY <2>1, <2>2, FindOther
<1>2. ASSUME NEW i \in Nodes, NEW p \in Places, Enter(i, p)
      PROVE  FInv'
  <2>1. /\ i \in DOMAIN live /\ live[i] = Nowhere /\ live' = [live EXCEPT ![i] = p]
        /\ UNCHANGED <<world, inbox, parents, wire, mirror, searches, found>>
    BY <1>2 DEF Enter, verdeVars
  <2>2. ASSUME Followed PROVE Followed'
    <3>1. i \in DOMAIN parents => parents[i] \in Nodes \cup {Root}
      BY <2>2 DEF Followed, Shape, IsForest
    <3>2. Nowhere \notin Nodes \cup {Root}
      BY VerdeOpsAssumption
    <3>3. Behind(live', parents)
      BY <1>0, <2>1, <2>2, <3>1, <3>2 DEF Behind, Followed
    <3>. QED
      BY <2>1, <2>2, <3>3 DEF Followed, AsksStill
  <2>. QED
    BY <2>1, <2>2, FindOther
<1>. QED
  BY <1>1, <1>2 DEF Game

(***************************************************************************)
(* What a search finds.                                                    *)
(***************************************************************************)
Downer == INSTANCE RecursionFacts WITH Op <- Append

\* A way down to i: each step hangs off the root or an earlier one.
IsWay(tree, w, i) ==
    /\ w \in Seq(DOMAIN tree)
    /\ \A k \in 1..Len(w) : tree[w[k]] = Root \/ \E l \in 1..(k - 1) : tree[w[k]] = w[l]
    /\ \E k \in 1..Len(w) : w[k] = i

LEMMA WayAppend ==
    ASSUME NEW tree, NEW w, NEW i \in DOMAIN tree, IsWay(tree, w, tree[i])
    PROVE  IsWay(tree, Append(w, i), i)
<1>0. PICK n \in Nat : n = Len(w)
  BY DEF IsWay
<1>1. PICK x : n = Len(w) /\ x = Append(w, i)
  BY <1>0
<1>2. /\ Len(x) = n + 1 /\ x[n + 1] = i /\ x \in Seq(DOMAIN tree)
      /\ \A k \in 1..n : x[k] = w[k]
  BY <1>1 DEF IsWay
<1>3. ASSUME NEW k \in 1..(n + 1)
      PROVE  tree[x[k]] = Root \/ \E l \in 1..(k - 1) : tree[x[k]] = x[l]
  <2>1. CASE k \in 1..n
    <3>1. \A l \in 1..(k - 1) : l \in 1..n
      BY <2>1
    <3>. QED
      BY <1>1, <1>2, <2>1, <3>1 DEF IsWay
  <2>2. CASE k = n + 1
    <3>1. PICK l \in 1..n : w[l] = tree[i]
      BY <1>1 DEF IsWay
    <3>2. l \in 1..(k - 1)
      BY <2>2, <3>1
    <3>. QED
      BY <1>2, <2>2, <3>1, <3>2
  <2>. QED
    BY <2>1, <2>2
<1>4. n + 1 \in 1..(n + 1)
  OBVIOUS
<1>5. IsWay(tree, x, i)
  BY <1>2, <1>3, <1>4 DEF IsWay
<1>. QED
  BY <1>1, <1>5

LEMMA PathIsWay ==
    ASSUME Shape(mirror), NEW i \in DOMAIN mirror
    PROVE  IsWay(mirror, Path(i), i)
<1>. DEFINE D == DOMAIN mirror
            ends == {j \in D : mirror[j] = Root}
            base == [j \in D |-> <<j>>]
            way == CHOOSE g : g = [j \in DOMAIN mirror |->
                     IF mirror[j] = Root THEN <<j>> ELSE Append(g[mirror[j]], j)]
<1>1. Path(i) = way[i]
  BY DEF Path
<1>2. Downer!Grounded(D, ends, mirror)
  <2>1. \A j \in D \ ends : mirror[j] \in D
    BY DEF Shape, IsForest
  <2>2. \A S \in SUBSET (D \ ends) : S # {} => \E j \in S : mirror[j] \notin S
    BY DEF Shape, IsForest
  <2>. HIDE DEF ends, D
  <2>. QED
    BY <2>1, <2>2 DEF Downer!Grounded
<1>3. \E g : Downer!Climbs(g, D, ends, mirror, base)
  <2>. HIDE DEF D, ends, base
  <2>. QED
    BY <1>2, Downer!ClimbExists
<1>4. PICK f : Downer!Climbs(f, D, ends, mirror, base)
  BY <1>3
<1>5. f = [j \in D |-> IF j \in ends THEN base[j] ELSE Append(f[mirror[j]], j)]
  BY <1>4 DEF Downer!Climbs
<1>6. f = [j \in DOMAIN mirror |-> IF mirror[j] = Root THEN <<j>> ELSE Append(f[mirror[j]], j)]
  BY <1>5
<1>7. way = [j \in DOMAIN mirror |-> IF mirror[j] = Root THEN <<j>> ELSE Append(way[mirror[j]], j)]
  <2>. HIDE DEF D, ends, base
  <2>. QED
    BY <1>6
<1>. HIDE DEF way, ends, base
<1>8. \A j \in D : way[j] = IF mirror[j] = Root THEN <<j>> ELSE Append(way[mirror[j]], j)
  BY <1>7
<1>. DEFINE Bad == {j \in D : ~ IsWay(mirror, way[j], j)}
<1>9. SUFFICES ASSUME Bad # {} PROVE FALSE
  BY <1>1
<1>10. \E j \in Bad : mirror[j] \notin Bad
  <2>1. Bad \in SUBSET DOMAIN mirror
    OBVIOUS
  <2>. HIDE DEF Bad
  <2>. QED
    BY <1>9, <2>1 DEF Shape, IsForest
<1>11. PICK j \in D : ~ IsWay(mirror, way[j], j) /\ mirror[j] \notin Bad
  BY <1>10
<1>12. CASE mirror[j] = Root
  <2>1. way[j] = <<j>>
    BY <1>8, <1>12
  <2>2. IsWay(mirror, <<j>>, j)
    BY <1>12 DEF IsWay
  <2>. QED
    BY <1>11, <2>1, <2>2
<1>13. CASE mirror[j] # Root
  <2>1. mirror[j] \in D
    BY <1>13 DEF Shape, IsForest
  <2>2. IsWay(mirror, way[mirror[j]], mirror[j])
    BY <1>11, <2>1
  <2>3. IsWay(mirror, Append(way[mirror[j]], j), j)
    BY <2>2, WayAppend
  <2>. QED
    BY <1>8, <1>11, <1>13, <2>3
<1>. QED
  BY <1>12, <1>13

\* A result so far: within the limit, each node once and after its parent.
Listed(tree, r) ==
    /\ r \in [nodes : Seq(DOMAIN tree), truncated : BOOLEAN]
    /\ Len(r.nodes) <= MAX_SEARCH_RESULTS
    /\ r.truncated => Len(r.nodes) = MAX_SEARCH_RESULTS
    /\ \A k, l \in 1..Len(r.nodes) : r.nodes[k] = r.nodes[l] => k = l
    /\ \A k \in 1..Len(r.nodes) :
          tree[r.nodes[k]] = Root \/ \E l \in 1..(k - 1) : tree[r.nodes[k]] = r.nodes[l]

Lists(r, i) == \E k \in 1..Len(r.nodes) : r.nodes[k] = i

\* Nothing goes, and what was full stays so.
Extends(r, s) == (r.truncated => s.truncated) /\ (\A i : Lists(r, i) => Lists(s, i))

LEMMA NodeListed ==
    ASSUME NEW tree, NEW r, Listed(tree, r), NEW j \in DOMAIN tree,
           ~ r.truncated => tree[j] = Root \/ Lists(r, tree[j]), NEW s, s = IncludeNode(r, j)
    PROVE  Listed(tree, s) /\ Extends(r, s) /\ (s.truncated \/ Lists(s, j))
<1>1. PICK n \in Nat, w \in Seq(DOMAIN tree), b \in BOOLEAN :
        r = [nodes |-> w, truncated |-> b] /\ n = Len(w)
  BY DEF Listed
<1>2. r.nodes = w /\ r.truncated = b
  BY <1>1
<1>3. j \in ToSet(w) <=> Lists(r, j)
  BY <1>1, <1>2 DEF ToSet, Lists
<1>4. CASE b \/ Lists(r, j)
  <2>1. s = r
    BY <1>2, <1>3, <1>4 DEF IncludeNode
  <2>. QED
    BY <1>2, <1>4, <2>1 DEF Extends
<1>5. CASE ~ (b \/ Lists(r, j)) /\ n >= MAX_SEARCH_RESULTS
  <2>1. s = [nodes |-> w, truncated |-> TRUE]
    BY <1>1, <1>2, <1>3, <1>5 DEF IncludeNode
  <2>2. s.nodes = w /\ s.truncated
    BY <2>1
  <2>3. n = MAX_SEARCH_RESULTS
    BY <1>1, <1>2, <1>5, GameAssumption DEF Listed
  <2>4. Listed(tree, s)
    BY <1>1, <1>2, <2>1, <2>2, <2>3 DEF Listed
  <2>. QED
    BY <1>2, <2>2, <2>4 DEF Extends, Lists
<1>6. CASE ~ (b \/ Lists(r, j)) /\ ~ (n >= MAX_SEARCH_RESULTS)
  <2>1. s = [nodes |-> Append(w, j), truncated |-> FALSE]
    BY <1>1, <1>2, <1>3, <1>6 DEF IncludeNode
  <2>2. PICK x : x = Append(w, j)
    OBVIOUS
  <2>3. /\ x \in Seq(DOMAIN tree) /\ Len(x) = n + 1 /\ x[n + 1] = j
        /\ \A k \in 1..n : x[k] = w[k]
    BY <1>1, <2>2
  <2>4. s = [nodes |-> x, truncated |-> FALSE] /\ s.nodes = x /\ ~ s.truncated
    BY <2>1, <2>2
  <2>5. \A k, l \in 1..(n + 1) : x[k] = x[l] => k = l
    <3>1. \A k \in 1..n : w[k] # j
      BY <1>1, <1>2, <1>6 DEF Lists
    <3>2. \A k, l \in 1..n : w[k] = w[l] => k = l
      BY <1>1, <1>2 DEF Listed
    <3>3. \A k \in 1..(n + 1) : k \in 1..n \/ k = n + 1
      OBVIOUS
    <3>. QED
      BY <2>3, <3>1, <3>2, <3>3
  <2>6. ASSUME NEW k \in 1..(n + 1)
        PROVE  tree[x[k]] = Root \/ \E l \in 1..(k - 1) : tree[x[k]] = x[l]
    <3>1. CASE k \in 1..n
      <4>1. \A l \in 1..(k - 1) : l \in 1..n
        BY <3>1
      <4>2. tree[w[k]] = Root \/ \E l \in 1..(k - 1) : tree[w[k]] = w[l]
        BY <1>1, <1>2, <3>1 DEF Listed
      <4>. QED
        BY <2>3, <3>1, <4>1, <4>2
    <3>2. CASE k = n + 1
      <4>1. tree[j] = Root \/ \E l \in 1..n : tree[j] = w[l]
        BY <1>1, <1>2, <1>6 DEF Lists
      <4>2. \A l \in 1..n : l \in 1..(k - 1)
        BY <3>2
      <4>. QED
        BY <2>3, <3>2, <4>1, <4>2
    <3>. QED
      BY <3>1, <3>2
  <2>7. n + 1 <= MAX_SEARCH_RESULTS
    BY <1>6, GameAssumption
  <2>8. Listed(tree, s)
    <3>1. s \in [nodes : Seq(DOMAIN tree), truncated : BOOLEAN]
      BY <2>3, <2>4
    <3>2. Len(s.nodes) = n + 1 /\ ~ s.truncated
      BY <2>3, <2>4
    <3>3. \A k \in 1..(n + 1) : tree[x[k]] = Root \/ \E l \in 1..(k - 1) : tree[x[k]] = x[l]
      BY <2>6
    <3>. QED
      BY <2>4, <2>5, <2>7, <3>1, <3>2, <3>3 DEF Listed
  <2>9. n + 1 \in 1..(n + 1) /\ \A k \in 1..n : k \in 1..(n + 1)
    OBVIOUS
  <2>10. Lists(s, j) /\ \A i : Lists(r, i) => Lists(s, i)
    BY <1>1, <1>2, <2>3, <2>4, <2>9 DEF Lists
  <2>. QED
    BY <1>2, <1>6, <2>8, <2>10 DEF Extends
<1>. QED
  BY <1>4, <1>5, <1>6

Includer == INSTANCE RecursionFacts WITH Op <- IncludeNode

LEMMA IncludeFolds ==
    ASSUME NEW r, NEW w
    PROVE  FoldLeft(IncludeNode, r, w) = Includer!Fold(r, w)
BY DEF Includer!Fold, FoldLeft, Includer!FoldLeft, MapThenFoldSet, Includer!MapThenFoldSet,
       Max, Includer!Max

LEMMA IncludeListed ==
    ASSUME NEW r, Shape(mirror), Listed(mirror, r), NEW i \in DOMAIN mirror, NEW s, s = Include(r, i)
    PROVE  Listed(mirror, s) /\ Extends(r, s) /\ (s.truncated \/ Lists(s, i))
<1>1. PICK w : w = Path(i) /\ IsWay(mirror, w, i)
  BY PathIsWay
<1>2. w \in Seq(DOMAIN mirror) /\ Len(w) \in Nat
  BY <1>1 DEF IsWay
<1>3. \E v : /\ v[0] = r
             /\ \A k \in 1..Len(w) : v[k] = IncludeNode(v[k-1], w[k])
             /\ Includer!Fold(r, w) = v[Len(w)]
  BY <1>2, Includer!FoldSteps
<1>0. PICK n \in Nat : n = Len(w)
  BY <1>2
<1>4. PICK v : /\ n = Len(w) /\ v[0] = r /\ s = v[n]
               /\ \A k \in 1..n : v[k] = IncludeNode(v[k-1], w[k])
  BY <1>0, <1>1, <1>3, IncludeFolds DEF Include
<1>. DEFINE I == {k \in 0..n : /\ Listed(mirror, v[k]) /\ Extends(r, v[k])
                               /\ v[k].truncated \/ \A l \in 1..k : Lists(v[k], w[l])}
<1>5. 0 \in I
  <2>1. Extends(r, r) /\ 1..0 = {}
    BY DEF Extends
  <2>. QED
    BY <1>4, <2>1
<1>6. ASSUME NEW k \in 1..n, k - 1 \in I
      PROVE  k \in I
  <2>1. PICK a, b : a = v[k - 1] /\ b = v[k]
    OBVIOUS
  <2>2. /\ Listed(mirror, a) /\ Extends(r, a)
        /\ a.truncated \/ \A l \in 1..(k - 1) : Lists(a, w[l])
    BY <1>6, <2>1
  <2>3. b = IncludeNode(a, w[k]) /\ w[k] \in DOMAIN mirror
    BY <1>2, <1>4, <2>1
  <2>4. mirror[w[k]] = Root \/ \E l \in 1..(k - 1) : mirror[w[k]] = w[l]
    BY <1>1, <1>4 DEF IsWay
  <2>5. ~ a.truncated => mirror[w[k]] = Root \/ Lists(a, mirror[w[k]])
    BY <2>2, <2>4
  <2>6. Listed(mirror, b) /\ Extends(a, b) /\ (b.truncated \/ Lists(b, w[k]))
    BY <2>2, <2>3, <2>5, NodeListed
  <2>7. b.truncated \/ \A l \in 1..k : Lists(b, w[l])
    <3>1. \A l \in 1..k : l \in 1..(k - 1) \/ l = k
      OBVIOUS
    <3>. QED
      BY <2>2, <2>6, <3>1 DEF Extends
  <2>8. Extends(r, b)
    BY <2>2, <2>6 DEF Extends
  <2>9. k \in 0..n
    OBVIOUS
  <2>. QED
    BY <2>1, <2>6, <2>7, <2>8, <2>9
<1>7. 0..n \subseteq I
  <2>. HIDE DEF I
  <2>. QED
    BY <1>5, <1>6, Includer!UpTo
<1>8. n \in I
  <2>1. n \in 0..n
    OBVIOUS
  <2>. HIDE DEF I
  <2>. QED
    BY <1>7, <2>1
<1>9. \E k \in 1..n : w[k] = i
  BY <1>1, <1>4 DEF IsWay
<1>. QED
  BY <1>4, <1>8, <1>9

\* Every order of a set names all of it.
LEMMA SearchOrder ==
    ASSUME NEW S \in SUBSET Nodes, NEW list \in SetToSeqs(S)
    PROVE  list \in Seq(S) /\ \A x \in S : \E k \in 1..Len(list) : list[k] = x
<1>. DEFINE n == Cardinality(S)
            D == 1..n
<1>1. IsFiniteSet(S)
  BY GameAssumption, FS_Subset
<1>2. n \in Nat
  BY <1>1, FS_CardinalityType
<1>3. list \in [D -> S] /\ \A i, j \in D : i # j => list[i] # list[j]
  BY DEF SetToSeqs
<1>. HIDE DEF n
<1>4. list \in Seq(S) /\ DOMAIN list = D /\ Len(list) = n
  BY <1>2, <1>3
<1>5. ASSUME NEW x \in S, \A k \in 1..n : list[k] # x PROVE FALSE
  <2>. DEFINE U == S \ {x}
  <2>1. IsFiniteSet(U) /\ Cardinality(U) = n - 1
    BY <1>1, FS_RemoveElement DEF n
  <2>2. IsFiniteSet(D) /\ Cardinality(D) = n
    <3>1. 1 \in Int /\ n \in Int
      BY <1>2
    <3>2. IsFiniteSet(1..n) /\ Cardinality(1..n) = IF 1 > n THEN 0 ELSE n - 1 + 1
      BY <3>1, FS_Interval
    <3>. QED
      BY <1>2, <3>2
  <2>3. list \in [D -> U]
    BY <1>3, <1>5
  <2>. HIDE DEF U, D
  <2>4. Cardinality(U) < Cardinality(D)
    BY <1>2, <2>1, <2>2
  <2>5. \E i, j \in D : i # j /\ list[i] = list[j]
    BY <2>1, <2>2, <2>3, <2>4, FS_PigeonHole
  <2>. QED
    BY <1>3, <2>5
<1>. QED
  BY <1>4, <1>5

Searcher == INSTANCE RecursionFacts WITH Op <- Include

LEMMA SearchFolds ==
    ASSUME NEW r, NEW order
    PROVE  FoldLeft(Include, r, order) = Searcher!Fold(r, order)
BY DEF Searcher!Fold, FoldLeft, Searcher!FoldLeft, MapThenFoldSet, Searcher!MapThenFoldSet,
       Max, Searcher!Max

LEMMA SearchListed ==
    ASSUME Shape(mirror), NEW hits \in SUBSET DOMAIN mirror, NEW order \in SetToSeqs(hits),
           NEW s, s = FoldLeft(Include, [nodes |-> <<>>, truncated |-> FALSE], order)
    PROVE  Listed(mirror, s) /\ (s.truncated \/ \A i \in hits : Lists(s, i))
<1>0. PICK r : r = [nodes |-> <<>>, truncated |-> FALSE]
  OBVIOUS
<1>1. order \in Seq(hits) /\ \A x \in hits : \E k \in 1..Len(order) : order[k] = x
  BY SearchOrder DEF Shape
<1>2. Len(order) \in Nat /\ \A k \in 1..Len(order) : order[k] \in DOMAIN mirror
  BY <1>1
<1>3. \E v : /\ v[0] = r
             /\ \A k \in 1..Len(order) : v[k] = Include(v[k-1], order[k])
             /\ Searcher!Fold(r, order) = v[Len(order)]
  BY <1>1, Searcher!FoldSteps
<1>10. PICK n \in Nat : n = Len(order)
  BY <1>2
<1>4. PICK v : /\ n = Len(order) /\ v[0] = r /\ s = v[n]
               /\ \A k \in 1..n : v[k] = Include(v[k-1], order[k])
  BY <1>0, <1>10, <1>3, SearchFolds
<1>. DEFINE I == {k \in 0..n : /\ Listed(mirror, v[k])
                               /\ v[k].truncated \/ \A l \in 1..k : Lists(v[k], order[l])}
<1>5. 0 \in I
  <2>1. Listed(mirror, r)
    <3>1. r.nodes = <<>> /\ r.truncated = FALSE /\ Len(<<>>) = 0 /\ <<>> \in Seq(DOMAIN mirror)
      BY <1>0
    <3>2. r \in [nodes : Seq(DOMAIN mirror), truncated : BOOLEAN]
      BY <1>0, <3>1
    <3>. QED
      BY <3>1, <3>2, GameAssumption DEF Listed
  <2>2. 1..0 = {}
    OBVIOUS
  <2>. QED
    BY <1>4, <2>1, <2>2
<1>6. ASSUME NEW k \in 1..n, k - 1 \in I
      PROVE  k \in I
  <2>1. PICK a, b : a = v[k - 1] /\ b = v[k]
    OBVIOUS
  <2>2. Listed(mirror, a) /\ (a.truncated \/ \A l \in 1..(k - 1) : Lists(a, order[l]))
    BY <1>6, <2>1
  <2>3. b = Include(a, order[k]) /\ order[k] \in DOMAIN mirror
    BY <1>2, <1>4, <2>1
  <2>4. Listed(mirror, b) /\ Extends(a, b) /\ (b.truncated \/ Lists(b, order[k]))
    BY <2>2, <2>3, IncludeListed
  <2>5. b.truncated \/ \A l \in 1..k : Lists(b, order[l])
    <3>1. \A l \in 1..k : l \in 1..(k - 1) \/ l = k
      OBVIOUS
    <3>. QED
      BY <2>2, <2>4, <3>1 DEF Extends
  <2>6. k \in 0..n
    OBVIOUS
  <2>. QED
    BY <2>1, <2>4, <2>5, <2>6
<1>7. 0..n \subseteq I
  <2>. HIDE DEF I
  <2>. QED
    BY <1>5, <1>6, Searcher!UpTo
<1>8. n \in I
  <2>1. n \in 0..n
    OBVIOUS
  <2>. HIDE DEF I
  <2>. QED
    BY <1>7, <2>1
<1>. QED
  BY <1>1, <1>4, <1>8

\* A result is shown as it was listed.
LEMMA FoundListed ==
    ASSUME NEW tree, NEW hits, NEW s, Listed(tree, s), s.truncated \/ \A i \in hits : Lists(s, i),
           found' = [nodes |-> s.nodes, truncated |-> s.truncated, hits |-> hits, tree |-> tree]
    PROVE  FoundIsReachable'
<1>1. PICK n \in Nat, w \in Seq(DOMAIN tree), b \in BOOLEAN :
        s.nodes = w /\ s.truncated = b /\ n = Len(w)
  BY DEF Listed
<1>2. /\ found'.nodes = w /\ found'.truncated = b /\ found'.hits = hits /\ found'.tree = tree
  BY <1>1
<1>3. DOMAIN w = 1..n
  BY <1>1
<1>4. Len(w) <= MAX_SEARCH_RESULTS /\ IsInjective(w)
  BY <1>1, <1>3 DEF Listed, IsInjective
<1>5. \A k \in DOMAIN w : tree[w[k]] \in {Root} \cup {w[l] : l \in 1..(k-1)}
  BY <1>1, <1>3 DEF Listed
<1>6. IF b THEN Len(w) = MAX_SEARCH_RESULTS ELSE hits \subseteq ToSet(w)
  BY <1>1, <1>3 DEF Listed, Lists, ToSet
<1>. QED
  BY <1>2, <1>4, <1>5, <1>6 DEF FoundIsReachable

LEMMA FindBroker ==
    ASSUME IInv, LInv, FInv, Broker
    PROVE  FInv'
<1>1. CASE ReceivePatch
  <2>. DEFINE tree == Over(Head(wire).upserts, mirror)
              gone == UNION {Under(tree, r) : r \in Head(wire).removals \cap DOMAIN tree}
  <2>1. /\ wire # <<>> /\ "upserts" \in DOMAIN Head(wire) /\ wire' = Tail(wire)
        /\ mirror' = Restrict(tree, DOMAIN tree \ gone)
        /\ UNCHANGED <<world, live, parents, inbox, searches, found>>
    BY <1>1 DEF ReceivePatch, verdeVars, gameVars
  <2>2. Head(wire) \in ToSet(wire) /\ IsSequence(wire)
    BY <2>1, TailIs DEF IInv, Typed
  <2>3. mirror' = Merged(Head(wire), mirror)
    BY <2>1, <2>2 DEF LInv, Ordered, Merged
  <2>. HIDE DEF tree, gone
  <2>4. ASSUME Followed PROVE Followed'
    <3>1. Leads(Tail(wire), mirror', parents) /\ Shape(mirror')
      BY <2>1, <2>2, <2>3, <2>4, LeadsTail DEF Followed
    <3>. QED
      BY <2>1, <2>4, <3>1 DEF Followed, AsksStill
  <2>. QED
    BY <2>1, <2>4, FindOther
<1>2. CASE ReceiveResult
  <2>1. /\ wire # <<>> /\ IsAnswer(Head(wire)) /\ wire' = Tail(wire)
        /\ UNCHANGED <<world, live, parents, inbox, mirror, searches, found>>
    BY <1>2 DEF ReceiveResult, verdeVars, gameVars, IsAnswer
  <2>2. Merged(Head(wire), mirror) = mirror /\ IsSequence(wire)
    BY <2>1 DEF Merged, IInv, Typed
  <2>3. ASSUME Followed PROVE Followed'
    <3>1. Leads(Tail(wire), mirror, parents)
      BY <2>1, <2>2, <2>3, LeadsTail DEF Followed
    <3>. QED
      BY <2>1, <2>3, <3>1 DEF Followed, AsksStill
  <2>. QED
    BY <2>1, <2>3, FindOther
<1>3. ASSUME \/ \E t \in DOMAIN tasks : ToOutcome(t) \/ Timeout(t)
             \/ \E l \in Levels : SetSecurity(l)
      PROVE  FInv'
  <2>1. UNCHANGED <<world, live, parents, inbox, wire, mirror, searches, found>>
    BY <1>3 DEF ToOutcome, Timeout, Settle, SetSecurity, gameVars, verdeVars
  <2>2. Followed => Followed'
    BY <2>1 DEF Followed, AsksStill
  <2>. QED
    BY <2>1, <2>2, FindOther
<1>4. ASSUME NEW query \in searches, RunSearch(query)
      PROVE  FInv'
  <2>. DEFINE hits == IF query = {} THEN {} ELSE Matches(query)
  <2>1. PICK order \in SetToSeqs(hits) :
          LET result == FoldLeft(Include, [nodes |-> <<>>, truncated |-> FALSE], order)
          IN  found' = [nodes |-> result.nodes, truncated |-> result.truncated,
                        hits |-> hits, tree |-> mirror]
    BY <1>4 DEF RunSearch
  <2>2. UNCHANGED <<world, live, parents, inbox, wire, mirror>>
    BY <1>4 DEF RunSearch, gameVars
  <2>3. "search" \in world /\ Followed /\ Shape(mirror)
    BY <1>4 DEF FInv, Followed
  <2>4. PICK s : s = FoldLeft(Include, [nodes |-> <<>>, truncated |-> FALSE], order)
    OBVIOUS
  <2>5. found' = [nodes |-> s.nodes, truncated |-> s.truncated, hits |-> hits, tree |-> mirror]
    BY <2>1, <2>4
  <2>6. hits \in SUBSET DOMAIN mirror
    BY DEF Matches
  <2>. HIDE DEF hits
  <2>7. Listed(mirror, s) /\ (s.truncated \/ \A i \in hits : Lists(s, i))
    BY <2>3, <2>4, <2>6, SearchListed
  <2>8. FoundIsReachable'
    BY <2>5, <2>7, FoundListed
  <2>9. Followed'
    BY <2>2, <2>3 DEF Followed, AsksStill
  <2>. QED
    BY <2>2, <2>3, <2>8, <2>9 DEF FInv
<1>. QED
  BY <1>1, <1>2, <1>3, <1>4 DEF Broker

LEMMA InitFinds == Init => FInv
<1>. SUFFICES ASSUME Init PROVE FInv
  OBVIOUS
<1>1. /\ world \in Worlds /\ live \in Scattered /\ mirror = parents /\ wire = <<>> /\ inbox = <<>>
      /\ searches = {} /\ found = <<>>
  BY DEF Init
<1>2. /\ DOMAIN live \subseteq Nodes /\ Acyclic(live)
      /\ \A i \in DOMAIN live : live[i] \in DOMAIN live \cup {Root, Nowhere}
  BY <1>1, GameAssumption
<1>3. Nowhere \notin Nodes \cup {Root} /\ Root \notin Nodes
  BY VerdeOpsAssumption, TreesAssumption
<1>4. PICK S \in SUBSET DOMAIN live :
        (\A i \in S : Inside(live, i) /\ Above(live, i) \subseteq S) /\ parents = Restrict(live, S)
  BY DEF Init
<1>5. /\ parents = [i \in DOMAIN parents |-> parents[i]] /\ DOMAIN parents = S
      /\ \A i \in S : parents[i] = live[i]
  BY <1>4 DEF Restrict
<1>6. ASSUME NEW i \in S
      PROVE  parents[i] \in DOMAIN parents \cup {Root}
  <2>1. Above(live, i) = {i} \cup (IF live[i] \in DOMAIN live THEN Above(live, live[i]) ELSE {})
    BY <1>2, AboveIs
  <2>2. CASE live[i] \in DOMAIN live
    <3>1. live[i] \in Above(live, i)
      BY <1>2, <2>1, <2>2, AboveFacts
    <3>. QED
      BY <1>4, <1>5, <3>1
  <2>3. CASE live[i] \notin DOMAIN live
    <3>1. PICK a \in Above(live, i) : live[a] = Root
      BY <1>4 DEF Inside
    <3>2. a = i
      BY <2>1, <2>3, <3>1
    <3>. QED
      BY <1>5, <3>1, <3>2
  <2>. QED
    BY <2>2, <2>3
<1>7. Behind(live, parents)
  BY <1>5 DEF Behind
<1>8. Shape(parents)
  <2>1. \A T \in SUBSET DOMAIN parents : T # {} => \E i \in T : parents[i] \notin T
    BY <1>2, <1>3, <1>5, <1>7, BehindAcyclic
  <2>. QED
    BY <1>2, <1>5, <1>6, <2>1 DEF Shape, IsForest
<1>9. Leads(<<>>, parents, parents)
  <2>. DEFINE h == [k \in {1} |-> parents]
  <2>1. Len(<<>>) = 0 /\ h[1] = parents
    OBVIOUS
  <2>. HIDE DEF h
  <2>. QED
    BY <2>1 DEF Leads
<1>10. Followed
  BY <1>1, <1>7, <1>8, <1>9, EmptyIs DEF Followed, AsksStill
<1>. QED
  BY <1>1, <1>10 DEF FInv, FoundIsReachable

LEMMA NextFinds == Separate /\ IInv /\ VInv /\ LInv /\ FInv /\ [Next]_vars => FInv'
<1>. SUFFICES ASSUME Separate, IInv, VInv, LInv, FInv, [Next]_vars PROVE FInv'
  OBVIOUS
<1>1. CASE Client
  BY <1>1, FollowClient, ClientLeaves, FindOther
<1>2. CASE UNCHANGED vars
  <2>1. UNCHANGED <<world, live, parents, inbox, wire, mirror, searches, found>>
    BY <1>2 DEF vars, gameVars, brokerVars, verdeVars
  <2>2. Followed => Followed'
    BY <2>1 DEF Followed, AsksStill
  <2>. QED
    BY <2>1, <2>2, FindOther
<1>. QED
  BY <1>1, <1>2, FindVerde, FindGame, FindBroker DEF Next

\* In whatever order the mirror is searched and however far it is behind the game: what is
\* found is a tree from the root, without repetitions, within the limit, and complete unless
\* the limit was reached (search, serialize.rs).  Verde does not move instances in the same
\* world: a move that SessionDom would defer is made here at once.
THEOREM FoundCorrect == Separate => (Spec => []FoundIsReachable)
<1>1. Init => IInv /\ VInv /\ LInv /\ FInv
  BY InitIsWithin, InitFits, InitLinks, InitFinds
<1>2. Separate /\ (IInv /\ VInv /\ LInv /\ FInv) /\ [Next]_vars => (IInv /\ VInv /\ LInv /\ FInv)'
  BY NextStaysWithin, NextFits, NextLinks, NextFinds
<1>3. FInv => FoundIsReachable
  BY DEF FInv
<1>. SUFFICES ASSUME Separate PROVE Spec => []FoundIsReachable
  OBVIOUS
<1>4. (IInv /\ VInv /\ LInv /\ FInv) /\ [Next]_vars => (IInv /\ VInv /\ LInv /\ FInv)'
  BY <1>2
<1>. QED
  BY <1>1, <1>3, <1>4, PTL DEF Spec

=============================================================================
