----------------------------- MODULE VerdeValues -----------------------------
(***************************************************************************)
(* Values on their way between the game and Verde's inspector: what a      *)
(* DomValue is shown as, and what the JSON that Verde sends back for it is *)
(* taken to be.  The two are separate code: a value is rendered by its     *)
(* variant, and read back by its shape alone, the first one that fits.     *)
(*                                                                         *)
(* Numbers are exact here: integers, in units of 1/255000, so that a       *)
(* thousandth and one of the 255 levels of a colour are whole numbers of   *)
(* units.  What is left out is what f32 and f64 cannot hold, but for Huge: *)
(* an infinity or a NaN, which JSON cannot hold.                           *)
(***************************************************************************)
EXTENDS Integers, Sequences

CONSTANTS
    Huge,      \* a number that is not finite
    NoName,    \* the empty string
    Catalog    \* the session's enum families: a sequence of functions from value to name

ASSUME VerdeValuesAssumption == Huge \notin Int

One   == 255000    \* the number 1
Milli == 255       \* a thousandth
Level == 1000      \* 1/255, the step of a colour channel

Real == Int \cup {Huge}

\* The closest multiple of `step`.
Round(n, step) == step * ((n + step \div 2) \div step)

round3(n) == IF n = Huge THEN Huge ELSE Round(n, Milli)

\* A channel of a colour, 0..255, from a number in 0..1.
to_u8(n) == LET c == Round(n, Level) \div Level
            IN  IF c < 0 THEN 0 ELSE IF c > 255 THEN 255 ELSE c

(***************************************************************************)
(* DomValue.                                                               *)
(***************************************************************************)
\* How many numbers the numeric kinds have.
Arity == [Float |-> 1, Float32 |-> 1, Int |-> 1, Int32 |-> 1, BrickColor |-> 1,
          Vector2 |-> 2, Vector3 |-> 3, Vector2int16 |-> 2, Vector3int16 |-> 3,
          Color3 |-> 3, Color3uint8 |-> 3, UDim |-> 2, UDim2 |-> 4, NumberRange |-> 2,
          Rect |-> 4, CFrame |-> 12, Ray |-> 6, Enum |-> 2]

Scalars  == {"Float", "Float32", "Int", "Int32", "BrickColor"}
Whole    == {"Int", "Int32", "BrickColor", "Vector2int16", "Vector3int16"}
Colors   == {"Color3", "Color3uint8"}
Texts    == {"String", "ContentId", "BinaryString", "Ref"}
Compound == {"Font", "NumberSequence", "ColorSequence"}
Others   == {"Region3", "Region3int16", "Axes", "Faces", "PhysicalProperties",
             "OptionalCFrame", "Content"}

Numbers(kind, nums) == [kind |-> kind, nums |-> nums]
Worded(kind, text)  == [kind |-> kind, text |-> text]

\* The numbers a kind may hold: an enum's family and value, a colour's levels, or units.
Component(kind) == IF kind = "Enum" THEN Nat
               ELSE IF kind \in Colors THEN 0..255
               ELSE IF kind \in Whole THEN {n \in Int : n % One = 0}
               ELSE Real

\* Compound values and the others are not looked into.
IsDomValue(v) ==
    \/ \E kind \in DOMAIN Arity : v \in [kind : {kind}, nums : [1..Arity[kind] -> Component(kind)]]
    \/ \E b \in BOOLEAN : v = [kind |-> "Bool", bool |-> b]
    \/ \E kind \in Texts \cup Compound \cup Others : v.kind = kind /\ v = Worded(kind, v.text)

\* is_attribute_safe: what can be an attribute.
AttributeKinds ==
    {"Bool", "Float", "String", "Vector2", "Vector3", "Color3", "UDim", "UDim2",
     "NumberRange", "Rect", "BrickColor", "CFrame", "Font", "NumberSequence",
     "ColorSequence"}

(***************************************************************************)
(* JSON.                                                                   *)
(***************************************************************************)
Null        == [null |-> TRUE]
Num(n)      == IF n = Huge THEN Null ELSE [num |-> n]
Text(s)     == [text |-> s]
Truth(b)    == [bool |-> b]
Obj(fields) == [obj |-> fields]

IsNum(j)  == DOMAIN j = {"num"}
IsText(j) == DOMAIN j = {"text"}
\* An object with these fields, and maybe more; with numbers in them.
Has(j, fields)  == DOMAIN j = {"obj"} /\ fields \subseteq DOMAIN j.obj
Nums(j, fields) == Has(j, fields) /\ \A f \in fields : IsNum(j.obj[f])

(***************************************************************************)
(* describe: a DomValue as Verde is shown it.                              *)
(***************************************************************************)
vec2(x, y)    == Obj([X |-> Num(round3(x)), Y |-> Num(round3(y))])
vec3(x, y, z) == Obj([X |-> Num(round3(x)), Y |-> Num(round3(y)), Z |-> Num(round3(z))])
color(r, g, b) == Obj([R |-> Num(Level * r), G |-> Num(Level * g), B |-> Num(Level * b)])
udim(s, o)    == Obj([Scale |-> Num(s), Offset |-> Num(o)])
range(a, b)   == Obj([Min |-> Num(a), Max |-> Num(b)])

Minus(n) == IF n = Huge THEN Huge ELSE -n

\* Position and look vector; the rows of the matrix follow the position.
cframe(c) ==
    Obj([Position |-> vec3(c[1], c[2], c[3]),
         Rotation |-> vec3(Minus(c[6]), Minus(c[9]), Minus(c[12]))])

\* The bare value if the catalog lacks the family, else the value with its name.
describe_enum(family, value) ==
    IF family + 1 \notin DOMAIN Catalog THEN Num(One * value)
    ELSE LET names == Catalog[family + 1]
         IN  Obj([Value |-> Num(One * value),
                  Name  |-> Text(IF value \in DOMAIN names THEN names[value] ELSE NoName)])

\* What is shown for compound values: an object whose fields no shape looks for.
Opaque(v) == Obj([Keypoints |-> Text(v)])

describe(v) ==
    LET n == v.nums IN
    CASE v.kind = "Bool"                      -> Truth(v.bool)
      [] v.kind \in Scalars                   -> Num(n[1])
      [] v.kind \in Texts                     -> Text(v.text)
      [] v.kind \in Others                    -> Text(v)
      [] v.kind \in Compound                  -> Opaque(v)
      [] v.kind = "Enum"                      -> describe_enum(n[1], n[2])
      [] v.kind = "Vector2"                   -> vec2(n[1], n[2])
      [] v.kind = "Vector3"                   -> vec3(n[1], n[2], n[3])
      [] v.kind = "Vector2int16"              -> Obj([X |-> Num(n[1]), Y |-> Num(n[2])])
      [] v.kind = "Vector3int16"              ->
            Obj([X |-> Num(n[1]), Y |-> Num(n[2]), Z |-> Num(n[3])])
      [] v.kind \in Colors                    -> color(n[1], n[2], n[3])
      [] v.kind = "UDim"                      -> udim(n[1], n[2])
      [] v.kind = "UDim2"                     ->
            Obj([X |-> udim(n[1], n[2]), Y |-> udim(n[3], n[4])])
      [] v.kind = "NumberRange"               -> range(n[1], n[2])
      [] v.kind = "Rect"                      ->
            Obj([Min |-> vec2(n[1], n[2]), Max |-> vec2(n[3], n[4])])
      [] v.kind = "CFrame"                    -> cframe(n)
      [] v.kind = "Ray"                       ->
            Obj([Origin |-> vec3(n[1], n[2], n[3]), Direction |-> vec3(n[4], n[5], n[6])])

(***************************************************************************)
(* RawValue: the JSON of a value by its shape.                             *)
(***************************************************************************)
Pairs(j, outer, inner) == Has(j, outer) /\ \A f \in outer : Nums(j.obj[f], inner)

\* What each shape asks for, and what it is turned into.
Fits(shape, j) ==
    CASE shape = "UDim2"       -> Pairs(j, {"X", "Y"}, {"Scale", "Offset"})
      [] shape = "Vector3"     -> Nums(j, {"X", "Y", "Z"})
      [] shape = "Vector2"     -> Nums(j, {"X", "Y"})
      [] shape = "Color3"      -> Nums(j, {"R", "G", "B"})
      [] shape = "UDim"        -> Nums(j, {"Scale", "Offset"})
      [] shape = "NumberRange" -> Nums(j, {"Min", "Max"})
      [] shape = "Rect"        -> Pairs(j, {"Min", "Max"}, {"X", "Y"})
      [] shape = "EnumByName"  -> Has(j, {"Name"}) /\ IsText(j.obj.Name)
      [] shape = "EnumByValue" -> Nums(j, {"Value"})

into_dom(shape, o) ==
    CASE shape = "UDim2"       -> Numbers("UDim2", <<o.X.obj.Scale.num, o.X.obj.Offset.num,
                                                     o.Y.obj.Scale.num, o.Y.obj.Offset.num>>)
      [] shape = "Vector3"     -> Numbers("Vector3", <<o.X.num, o.Y.num, o.Z.num>>)
      [] shape = "Vector2"     -> Numbers("Vector2", <<o.X.num, o.Y.num>>)
      [] shape = "Color3"      -> Numbers("Color3", <<to_u8(o.R.num), to_u8(o.G.num), to_u8(o.B.num)>>)
      [] shape = "UDim"        -> Numbers("UDim", <<o.Scale.num, o.Offset.num>>)
      [] shape = "NumberRange" -> Numbers("NumberRange", <<o.Min.num, o.Max.num>>)
      [] shape = "Rect"        -> Numbers("Rect", <<o.Min.obj.X.num, o.Min.obj.Y.num,
                                                    o.Max.obj.X.num, o.Max.obj.Y.num>>)
      [] shape = "EnumByName"  -> Worded("String", o.Name.text)
      [] shape = "EnumByValue" -> Numbers("Float", <<o.Value.num>>)

\* Mutant: the two numbers of a Vector2 are looked for first.
Precedence_Shortest ==
    <<"UDim2", "Vector2", "Vector3", "Color3", "UDim", "NumberRange", "Rect",
      "EnumByName", "EnumByValue">>

\* The order of RawShape's variants.
Precedence ==
    <<"UDim2", "Vector3", "Vector2", "Color3", "UDim", "NumberRange", "Rect",
      "EnumByName", "EnumByValue">>

\* The first shape that fits, if any; the set holds the one value or nothing.
FromShape(j) ==
    {into_dom(Precedence[k], j.obj) :
       k \in {k \in DOMAIN Precedence :
                Fits(Precedence[k], j) /\ \A l \in 1..(k-1) : ~ Fits(Precedence[l], j)}}

FromJson(j) ==
    CASE DOMAIN j = {"bool"} -> {[kind |-> "Bool", bool |-> j.bool]}
      [] IsNum(j)            -> {Numbers("Float", <<j.num>>)}
      [] IsText(j)           -> {Worded("String", j.text)}
      [] DOMAIN j = {"obj"}  -> FromShape(j)
      [] OTHER               -> {}

\* attribute_default, if the type has one.
Default(type) ==
    CASE type = "string"  -> {Worded("String", NoName)}
      [] type = "number"  -> {Numbers("Float", <<0>>)}
      [] type = "boolean" -> {[kind |-> "Bool", bool |-> FALSE]}
      [] OTHER            -> {}

(***************************************************************************)
(* An edit in the inspector.                                               *)
(***************************************************************************)
\* Where each of a value's numbers is shown.
Paths ==
    LET X == <<"X">>  Y == <<"Y">>  Z == <<"Z">> IN
    [Float |-> << <<>> >>, Float32 |-> << <<>> >>, Int |-> << <<>> >>, Int32 |-> << <<>> >>,
     BrickColor |-> << <<>> >>,
     Vector2 |-> <<X, Y>>, Vector3 |-> <<X, Y, Z>>,
     Vector2int16 |-> <<X, Y>>, Vector3int16 |-> <<X, Y, Z>>,
     Color3 |-> << <<"R">>, <<"G">>, <<"B">> >>, Color3uint8 |-> << <<"R">>, <<"G">>, <<"B">> >>,
     UDim |-> << <<"Scale">>, <<"Offset">> >>,
     UDim2 |-> << <<"X", "Scale">>, <<"X", "Offset">>, <<"Y", "Scale">>, <<"Y", "Offset">> >>,
     NumberRange |-> << <<"Min">>, <<"Max">> >>,
     Rect |-> << <<"Min", "X">>, <<"Min", "Y">>, <<"Max", "X">>, <<"Max", "Y">> >>]

\* What is shown with another number at a path.
Edited(j, path, n) ==
    CASE Len(path) = 0 -> Num(n)
      [] Len(path) = 1 -> Obj([j.obj EXCEPT ![path[1]] = Num(n)])
      [] OTHER         ->
            Obj([j.obj EXCEPT ![path[1]] = Obj([j.obj[path[1]].obj EXCEPT ![path[2]] = Num(n)])])

\* The variant that an edited value is read back as.
ReadAs(kind) == IF kind \in Scalars THEN "Float"
                ELSE IF kind = "Vector2int16" THEN "Vector2"
                ELSE IF kind = "Vector3int16" THEN "Vector3"
                ELSE IF kind = "Color3uint8" THEN "Color3"
                ELSE kind

\* The same number, up to half of what the inspector shows.
Near(a, b) == a = b \/ (a \in Int /\ b \in Int /\ 2 * (a - b) \in -Milli..Milli)

\* `now` is what is left of `was` once its k-th number is set to n.
KeepsTheRest(was, k, n, now) ==
    /\ now.kind = ReadAs(was.kind)
    /\ \A i \in 1..Arity[was.kind] :
          IF i # k THEN Near(now.nums[i], was.nums[i])
          ELSE now.nums[i] = IF was.kind \in Colors THEN to_u8(n) ELSE n

\* A vector that is endless along Z is shown without a number there, and reads as flat.
Flattens(was, k) ==
    was.kind = "Vector3" /\ was.nums[3] = Huge /\ \A i \in {1, 2} \ {k} : was.nums[i] # Huge /\ k # 3

=============================================================================
