----------------------------- MODULE MCVerdeOps -----------------------------
(* VerdeOps on small instances: four instances, one of each class but one, *)
(* and attributes of every kind that Verde can edit or show.               *)
EXTENDS VerdeOps, TLC

CONSTANTS na, nb, nc, nd

MCClass == na :> "Model" @@ nb :> "Part" @@ nc :> "Part" @@ nd :> "Odd"

MCDump ==
    [Instance |-> [super |-> "none", levels |-> [Archivable |-> 0, Parent |-> 0, Id |-> 4]],
     Model    |-> [super |-> "Instance", levels |-> [Primary |-> 0, Source |-> 2]],
     Part     |-> [super |-> "Instance", levels |-> [Size |-> 0, Material |-> 2]]]

Shared == [Archivable |-> [kind |-> "Bool", bool |-> TRUE], Parent |-> Worded("String", "p"),
           Id |-> Worded("BinaryString", "id")]

MCInitial ==
    [Model |-> Shared @@ [Primary |-> Worded("Ref", nc), Source |-> Worded("String", "s")],
     Part  |-> Shared @@ [Size |-> Numbers("Vector3", <<0, 300, Huge>>),
                          Material |-> Numbers("Enum", <<0, 2>>)],
     Odd   |-> Shared @@ [Shape |-> Numbers("Enum", <<1, 0>>)]]

MCItems == <<(2 :> "wood" @@ 5 :> "ice"), (0 :> "ball" @@ 3 :> "block")>>
MCCatalog == <<MCItems[1]>>

Values ==
    {Numbers("Float", <<n>>) : n \in {0, 7, Huge}}
    \cup {Numbers("BrickColor", <<194 * One>>)}
    \cup {Numbers("Vector2", <<x, y>>) : x, y \in {-128, 300, Huge}}
    \cup {Numbers("Vector3", <<x, y, z>>) : x, y, z \in {-128, 300, Huge}}
    \cup {Numbers(k, <<2, 77, 255>>) : k \in {"Color3"}}
    \cup {Numbers(k, <<x, 7>>) : k \in {"UDim", "NumberRange"}, x \in {13, Huge}}
    \cup {Numbers(k, <<13, 7, x, -127>>) : k \in {"UDim2", "Rect"}, x \in {300, Huge}}
    \cup {Numbers("CFrame", [i \in 1..12 |-> i]), Worded("Font", "f"), Worded("String", "t")}

MCGiven == {"A" :> v : v \in Values}

MCScattered == {na :> Root @@ nb :> na @@ nc :> nb, na :> Root @@ nb :> na @@ nc :> Nowhere,
                na :> Root @@ nc :> Nowhere @@ nd :> na}

MCMaxOps == [w \in Worlds |-> IF "game" \in w THEN 4 ELSE 3]

MCNamed   == [x |-> {na, nc}, y |-> {nb}]
MCClassed == [x |-> {}, y |-> {nc}]

=============================================================================
