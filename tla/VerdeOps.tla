------------------------------ MODULE VerdeOps ------------------------------
(***************************************************************************)
(* What Verde does to the game: operations and searches, from the JSON it  *)
(* sends to the instances, and what it is shown of the outcome.            *)
(*                                                                         *)
(* An operation is lowered, and its class and properties are resolved from *)
(* the mirror, when Verde sends it; the client applies it to the game when *)
(* it gets it, refreshing the mirror on the way; the outcome is rendered   *)
(* from the mirror as it is when the result has come.  Patches and results *)
(* share one ordered connection.                                           *)
(*                                                                         *)
(* The session stays (OpRelay has queues, disconnects and sessions that    *)
(* end), and the explorer is VerdeTree.  Every instance has a UniqueId, so *)
(* it keeps its id whenever it is mirrored; its class and name are given.  *)
(* The patches of one handler arrive together, and a patch makes all its   *)
(* moves (SessionDom).  The game and the executor are external.            *)
(***************************************************************************)
EXTENDS VerdeValues, Trees, FiniteSets, SequencesExt

CONSTANTS
    Nowhere,       \* nil, the parent of an instance outside the game
    Worlds,        \* what happens: a set of sets of "read", "edit", "attribute", "tree",
                   \*   "game", "search", "secure", "slow"
    Class,         \* the class of each node
    Dump,          \* the bundled API dump: per class [super, levels: its own properties']
    Levels,        \* write-security thresholds a control connection may set
    Initial,       \* per class: its properties and their values in a new instance
    ReadOnly,      \* properties that cannot be assigned
    Given,         \* the attributes that may be there: a set of functions to values
    Items,         \* the game's enums, as in Catalog
    Samples,       \* the numbers that Verde's user enters
    Named, Classed, \* per search token: the nodes whose own name, or class, contains it
    Scattered,     \* the trees the game may start with, node to parent
    SKIP_PROPERTIES, HIDDEN_PROPERTIES, \* left out by the client, and by the broker
    MAX_SEARCH_RESULTS,
    MaxOps         \* bound, per world: operations, searches and moves of the game

VARIABLES
    world,
    live, props, attrs, \* the game: per instance its parent, properties and attributes
    parents,            \* the client's DomSync
    inbox, due,         \* operations on their way to the client, and a Snapshot request
    wire,               \* patches and results on their way to the broker
    mirror, told,       \* the broker's mirror, and the ids Verde may have heard of
    level,              \* the security threshold
    tasks, asked,       \* the broker's operations, by number, and the bound's counter
    searches,           \* the queries the broker is at
    view,               \* the read that Verde shows, <<>> if none
    made, found         \* the last edit applied, the last search result, <<>> if none

gameVars == <<live, props, attrs>>
brokerVars == <<mirror, told, level, tasks, asked, searches>>
verdeVars == <<view, found>>
vars == <<world, gameVars, parents, inbox, due, wire, brokerVars, verdeVars, made>>

(***************************************************************************)
(* The game, and the client's mirror of it.                                *)
(***************************************************************************)
\* An instance and its ancestors, up to the game or to nil; and what is under it.
Above(tree, i) ==
    LET line[j \in DOMAIN tree] ==
            {j} \cup (IF tree[j] \in DOMAIN tree THEN line[tree[j]] ELSE {})
    IN  line[i]
Under(tree, i) == {j \in DOMAIN tree : i \in Above(tree, j)}

Inside(tree, i) == \E a \in Above(tree, i) : tree[a] = Root

Patch(ups, gone) == [upserts |-> ups, removals |-> gone]

\* SyncNode: the instance, and its ancestors as far as they were never mirrored.
Mirrored(tree, known, i) ==
    LET sent[j \in DOMAIN tree] ==
            {j} \cup (IF tree[j] \in DOMAIN tree \ known THEN sent[tree[j]] ELSE {})
    IN  sent[i]

\* SyncNode for one instance after the other: what is sent for one need not be for the next.
MirrorAll(tree, known, S) ==
    LET ups == [j \in UNION {Mirrored(tree, DOMAIN known, i) : i \in S} |->
                  IF tree[j] = Nowhere THEN Root ELSE tree[j]]
    IN  [known |-> Over(ups, known), frames |-> IF S = {} THEN <<>> ELSE <<Patch(ups, {})>>]

\* No instance is above itself.
Acyclic(tree) ==
    \A S \in SUBSET DOMAIN tree : S # {} => \E j \in S : tree[j] \notin S

\* DescendantRemoving, for instances that leave the game: what is mirrored goes.
Pruned(known, leaving) ==
    LET gone == UNION {Under(known, i) : i \in leaving \cap DOMAIN known}
    IN  [known |-> Restrict(known, DOMAIN known \ gone),
         frames |-> IF gone = {} THEN <<>> ELSE <<Patch(Empty, gone)>>]

\* The instances that leave the game when i gets another parent.
Leaving(tree, i, parent) ==
    IF Inside(tree, i) /\ ~ (parent = Root \/ (parent # Nowhere /\ Inside(tree, parent)))
    THEN Under(tree, i) ELSE {}

(***************************************************************************)
(* The API dump.                                                           *)
(***************************************************************************)
\* A class of the dump and its superclasses there.
Superclasses(class) == Above([c \in DOMAIN Dump |-> Dump[c].super], class)

\* Mutant: only the class's own properties are filtered.
class_properties_Inherits(class, threshold) ==
    IF class \notin DOMAIN Dump THEN {}
    ELSE UNION {{p \in DOMAIN Dump[c].levels : c # class \/ Dump[c].levels[p] <= threshold} :
                  c \in Superclasses(class)}

\* The properties of a class within the threshold; none, if the class is not in the dump.
class_properties(class, threshold) ==
    IF class \notin DOMAIN Dump THEN {}
    ELSE UNION {{p \in DOMAIN Dump[c].levels : Dump[c].levels[p] <= threshold} :
                  c \in Superclasses(class)}

\* The catalog is what the client sent of the game's enums, whose items have names of
\* their own; every class of the dump has some property within any threshold.
ASSUME VerdeOpsAssumption ==
    /\ Nowhere \notin Nodes \cup {Root} /\ Levels # {}
    /\ \A f \in DOMAIN Catalog : f \in DOMAIN Items /\ Catalog[f] = Items[f]
    /\ \A f \in DOMAIN Items : \A m, n \in DOMAIN Items[f] :
          Items[f][m] # NoName /\ (Items[f][m] = Items[f][n] => m = n)
    /\ \A c \in DOMAIN Dump, l \in Levels : class_properties(c, l) # {}

\* The instances among some values.
Refs(values) == {values[p].text : p \in {p \in DOMAIN values : values[p].kind = "Ref"}}

\* What the game starts with: a tree and detached ones, values of the kinds their names
\* say, enums of items, and no property that refers to an instance that is not there.
ASSUME GameAssumption ==
    /\ Samples \subseteq Int /\ IsFiniteSet(Nodes) /\ MAX_SEARCH_RESULTS \in Nat
    /\ \A f \in DOMAIN Items : DOMAIN Items[f] \subseteq Nat
    /\ \A tree \in Scattered :
          /\ DOMAIN tree \subseteq Nodes /\ Acyclic(tree)
          /\ \A i \in DOMAIN tree : tree[i] \in DOMAIN tree \cup {Root, Nowhere}
          /\ \A i \in Nodes : Refs(Initial[Class[i]]) \subseteq DOMAIN tree
    /\ \A i \in Nodes : \A p \in DOMAIN Initial[Class[i]] :
          LET v == Initial[Class[i]][p]
          IN  IsDomValue(v) /\ (v.kind = "Enum" => v.nums[1] + 1 \in DOMAIN Items)
    /\ \A given \in Given : \A name \in DOMAIN given :
          IsDomValue(given[name]) /\ given[name].kind \in AttributeKinds

(***************************************************************************)
(* Operations.                                                             *)
(***************************************************************************)
Ok        == [type |-> "Ok"]
Err(code) == [type |-> "Err", code |-> code]
Output    == [type |-> "Output"]

\* lower_operation: one Operation, or none.  An attribute is added by setting it to its
\* type's default, and a value is what its JSON is read as.
lower_operation(raw) ==
    CASE raw.type = "set_property" ->
            {[type |-> "SetProperty", node |-> raw.node, name |-> raw.name, value |-> v,
              edit |-> raw.edit] : v \in FromJson(raw.json)}
      [] raw.type = "set_attribute" ->
            {[type |-> "SetAttribute", node |-> raw.node, name |-> raw.name, value |-> v,
              edit |-> raw.edit] : v \in FromJson(raw.json)}
      [] raw.type = "add_attribute" ->
            {[type |-> "SetAttribute", node |-> raw.node, name |-> raw.name, value |-> v,
              edit |-> <<>>] : v \in Default(raw.kind)}
      [] OTHER -> {raw}

\* The property list is filled in if the node is mirrored; the client gets it with the
\* operation.
Resolve(op) ==
    IF op.type = "GetProperties" /\ op.node \in DOMAIN mirror
    THEN [op EXCEPT !.properties = class_properties(Class[op.node], level)]
    ELSE op

\* Verde sends an operation; one that cannot be lowered fails without the client.
RunOperation(raw) ==
    /\ asked < MaxOps[world]
    /\ asked' = asked + 1
    /\ IF lower_operation(raw) = {}
       THEN UNCHANGED <<tasks, inbox>>
       ELSE \E op \in lower_operation(raw) :
              /\ inbox' = Append(inbox, [id |-> asked + 1, op |-> Resolve(op)])
              /\ tasks' = Put(tasks, asked + 1,
                              [node |-> op.node, known |-> op.node \in DOMAIN mirror,
                               level |-> level, lost |-> {}, result |-> <<>>])
    /\ UNCHANGED <<world, gameVars, parents, due, wire, mirror, told, level, searches, verdeVars,
                   made>>

(***************************************************************************)
(* The client applies an operation.                                        *)
(***************************************************************************)
Todo == Head(inbox).op
Resolved(i) == i \in DOMAIN parents

\* The next operation is of this kind, and its instance is mirrored.
On(type) == inbox # <<>> /\ Todo.type = type /\ Resolved(Todo.node)

\* The operation is answered, after the patches it caused.
Apply(known, frames, result) ==
    /\ inbox' = Tail(inbox)
    /\ parents' = known
    /\ wire' = wire \o frames \o <<[id |-> Head(inbox).id, result |-> result]>>
    /\ UNCHANGED <<world, due, brokerVars, verdeVars>>

\* It fails, and nothing else happens.
Refuse(code) == Apply(parents, <<>>, Err(code)) /\ UNCHANGED <<gameVars, made>>

Refreshed(tree, known) == MirrorAll(tree, known, {Todo.node})

\* resolveNode: some instance the operation names is not mirrored.
UnknownNode ==
    /\ inbox # <<>>
    /\ \/ Todo.type # "RunCode" /\ ~ Resolved(Todo.node)
       \/ Todo.type = "Move" /\ Todo.parent # Nowhere /\ ~ Resolved(Todo.parent)
    /\ Refuse("unknown_node")

\* The name changes, and it is sent.
Rename ==
    /\ On("Rename")
    /\ LET m == Refreshed(live, parents) IN Apply(m.known, m.frames, Ok)
    /\ UNCHANGED <<gameVars, made>>

\* What they change is not modelled.
Tag == On("Tag") /\ Apply(parents, <<>>, Ok) /\ UNCHANGED <<gameVars, made>>
RunCode ==
    /\ inbox # <<>> /\ Todo.type = "RunCode"
    /\ Apply(parents, <<>>, Output)
    /\ UNCHANGED <<gameVars, made>>

\* Destroy: the instance and all under it lose their parent.
Delete ==
    /\ On("Delete")
    /\ LET m == Pruned(parents, Leaving(live, Todo.node, Nowhere))
       IN  Apply(m.known, m.frames, Ok)
    /\ live' = [j \in DOMAIN live |-> IF j \in Under(live, Todo.node) THEN Nowhere ELSE live[j]]
    /\ UNCHANGED <<props, attrs, made>>

\* A new parent; nil detaches, and only then nothing is refreshed.  An instance cannot
\* go under itself: the handler fails.
Move ==
    /\ On("Move")
    /\ IF Todo.parent \in Under(live, Todo.node)
       THEN Refuse("error")
       ELSE /\ Todo.parent = Nowhere \/ Resolved(Todo.parent)
            /\ live' = [live EXCEPT ![Todo.node] = Todo.parent]
            /\ LET out == Pruned(parents, Leaving(live, Todo.node, Todo.parent))
                   m   == IF Todo.parent = Nowhere THEN [known |-> out.known, frames |-> <<>>]
                                                 ELSE Refreshed(live', out.known)
               IN  Apply(m.known, out.frames \o m.frames, Ok)
            /\ UNCHANGED <<props, attrs, made>>

\* An instance that was not there is created under `node`, if it can be.
Create ==
    /\ On("Create")
    /\ \/ \E i \in Nodes \ DOMAIN live :
            /\ Class[i] = Todo.class
            /\ live' = Put(live, i, Todo.node)
            /\ props' = Put(props, i, Initial[Todo.class])
            /\ attrs' = Put(attrs, i, Empty)
            /\ LET m == MirrorAll(live', parents, {i}) IN Apply(m.known, m.frames, Ok)
            /\ UNCHANGED made
       \/ Refuse("invalid_class")

\* The live enum's item of a scalar: by its name or by its value.
enumFromScalar(family, v) ==
    {n \in DOMAIN Items[family + 1] :
       \/ v.kind = "String" /\ Items[family + 1][n] = v.text
       \/ v.kind = "Float" /\ v.nums[1] = One * n}

\* What is assigned: an enum's item, or the value itself if it has the property's type.
Assigned(current, v) ==
    IF current.kind = "Enum" THEN {Numbers("Enum", <<current.nums[1], n>>) :
                                     n \in enumFromScalar(current.nums[1], v)}
    ELSE IF current.kind = v.kind THEN {v} ELSE {}

\* The ghost: an edit was applied, and this is the value now.
Note(edit, attribute, now) ==
    made' = IF edit = <<>> THEN made
            ELSE [was |-> edit.was, k |-> edit.k, n |-> edit.n, attribute |-> attribute,
                  now |-> now]

SetProperty ==
    /\ On("SetProperty")
    /\ IF Todo.name \notin DOMAIN props[Todo.node] \ ReadOnly
       THEN Refuse("assign_failed")
       ELSE IF Assigned(props[Todo.node][Todo.name], Todo.value) = {}
       THEN Refuse("assign_failed")
       ELSE \E v \in Assigned(props[Todo.node][Todo.name], Todo.value) :
              /\ props' = [props EXCEPT ![Todo.node][Todo.name] = v]
              /\ LET m == Refreshed(live, parents) IN Apply(m.known, m.frames, Ok)
              /\ Note(Todo.edit, FALSE, v)
              /\ UNCHANGED <<live, attrs>>

\* Attributes take any value, and no patch follows.
SetAttribute ==
    /\ On("SetAttribute")
    /\ Apply(parents, <<>>, Ok)
    /\ attrs' = [attrs EXCEPT ![Todo.node] = Put(@, Todo.name, Todo.value)]
    /\ Note(Todo.edit, TRUE, Todo.value)
    /\ UNCHANGED <<live, props>>

RemoveAttribute ==
    /\ On("RemoveAttribute")
    /\ Apply(parents, <<>>, Ok)
    /\ attrs' = [attrs EXCEPT ![Todo.node] = Restrict(@, DOMAIN @ \ {Todo.name})]
    /\ UNCHANGED <<live, props, made>>

\* The new name gets the old one's value; if that is gone, the new name loses its own.
RenameAttribute ==
    /\ On("RenameAttribute")
    /\ Apply(parents, <<>>, Ok)
    /\ LET before == attrs[Todo.node]
           others == Restrict(before, DOMAIN before \ {Todo.old, Todo.new})
       IN  attrs' = [attrs EXCEPT ![Todo.node] =
                       IF Todo.old = Todo.new THEN before
                       ELSE IF Todo.old \notin DOMAIN before THEN others
                       ELSE Put(others, Todo.new, before[Todo.old])]
    /\ UNCHANGED <<live, props, made>>

\* Mutant: what the values refer to is refreshed once the result is sent.
GetProperties_AnswersFirst ==
    /\ On("GetProperties")
    /\ LET has   == DOMAIN props[Todo.node]
           names == (IF Todo.properties = {} THEN has ELSE Todo.properties \cap has) \ SKIP_PROPERTIES
           reads == [type  |-> "Reads", props |-> Restrict(props[Todo.node], names),
                     attrs |-> attrs[Todo.node]]
           m     == MirrorAll(live, parents, Refs(reads.props))
       IN  /\ parents' = m.known
           /\ inbox' = Tail(inbox)
           /\ UNCHANGED <<world, due, brokerVars, verdeVars>>
           /\ wire' = wire \o <<[id |-> Head(inbox).id, result |-> reads]>> \o m.frames
    /\ UNCHANGED <<gameVars, made>>

\* The properties asked for that the instance has, or all it has if none is asked for,
\* but for SKIP_PROPERTIES; every instance among the values is refreshed first.
GetProperties ==
    /\ On("GetProperties")
    /\ LET has   == DOMAIN props[Todo.node]
           names == (IF Todo.properties = {} THEN has ELSE Todo.properties \cap has) \ SKIP_PROPERTIES
           reads == [type  |-> "Reads", props |-> Restrict(props[Todo.node], names),
                     attrs |-> attrs[Todo.node]]
           m     == MirrorAll(live, parents, Refs(reads.props))
       IN  Apply(m.known, m.frames, reads)
    /\ UNCHANGED <<gameVars, made>>

\* SyncSnapshot: the whole game, and the removal of what is remembered but not in it.
SyncSnapshot ==
    /\ due
    /\ due' = FALSE
    /\ LET here  == {i \in DOMAIN live : Inside(live, i)}
           sent  == MirrorAll(live, parents, here)
           after == Pruned(sent.known, DOMAIN sent.known \ here)
       IN  /\ parents' = after.known
           /\ wire' = wire \o sent.frames \o after.frames
    /\ UNCHANGED <<world, gameVars, inbox, brokerVars, verdeVars, made>>

(***************************************************************************)
(* The broker.                                                             *)
(***************************************************************************)
\* A patch is merged.  The ghost `lost` is what was removed while an operation was on.
ReceivePatch ==
    /\ wire # <<>> /\ "upserts" \in DOMAIN Head(wire)
    /\ wire' = Tail(wire)
    /\ LET tree == Over(Head(wire).upserts, mirror)
           gone == UNION {Under(tree, r) : r \in Head(wire).removals \cap DOMAIN tree}
       IN  /\ mirror' = Restrict(tree, DOMAIN tree \ gone)
           /\ tasks' = [t \in DOMAIN tasks |-> [tasks[t] EXCEPT !.lost = @ \cup gone]]
    /\ told' = told \cup DOMAIN mirror'
    /\ UNCHANGED <<world, gameVars, parents, inbox, due, level, asked, searches, verdeVars, made>>

\* A result is handed to its operation, if that still waits.
ReceiveResult ==
    /\ wire # <<>> /\ "result" \in DOMAIN Head(wire)
    /\ wire' = Tail(wire)
    /\ LET r == Head(wire)
       IN  tasks' = [t \in DOMAIN tasks |->
                       IF t = r.id THEN [tasks[t] EXCEPT !.result = <<r.result>>] ELSE tasks[t]]
    /\ UNCHANGED <<world, gameVars, parents, inbox, due, mirror, told, level, asked, searches,
                   verdeVars, made>>

Settle(t) ==
    /\ t \in DOMAIN tasks
    /\ tasks' = Restrict(tasks, DOMAIN tasks \ {t})
    /\ UNCHANGED <<world, gameVars, parents, inbox, due, wire, mirror, told, level, asked, searches,
                   found, made>>

\* The outcome is rendered and Verde gets it; it shows the last read.
ToOutcome(t) ==
    /\ Settle(t) /\ tasks[t].result # <<>>
    /\ LET r == tasks[t].result[1] IN
       view' = IF r.type # "Reads" THEN view
               ELSE [node |-> tasks[t].node, known |-> tasks[t].known, level |-> tasks[t].level,
                     props |-> Restrict(r.props, DOMAIN r.props \ HIDDEN_PROPERTIES),
                     attrs |-> r.attrs,
                     resolved |-> Refs(r.props) \cap DOMAIN mirror, lost |-> tasks[t].lost]

\* OP_TIMEOUT: Verde is told so.
Timeout(t) == "slow" \in world /\ Settle(t) /\ tasks[t].result = <<>> /\ UNCHANGED view

SetSecurity(l) ==
    /\ "secure" \in world /\ l # level
    /\ level' = l
    /\ UNCHANGED <<world, gameVars, parents, inbox, due, wire, mirror, told, tasks, asked, searches,
                   verdeVars, made>>

(***************************************************************************)
(* Searching the mirror.                                                   *)
(***************************************************************************)
\* Every token is in the path, that is in a name on it, or in the class name.
Matches(query) ==
    {i \in DOMAIN mirror : \A w \in query : i \in Classed[w] \/ Above(mirror, i) \cap Named[w] # {}}

\* The way down to a node.
Path(i) == LET way[j \in DOMAIN mirror] ==
                 IF mirror[j] = Root THEN <<j>> ELSE Append(way[mirror[j]], j)
           IN  way[i]

\* Mutant: what is there already is added again.
IncludeNode_Again(result, j) ==
    IF result.truncated THEN result
    ELSE IF Len(result.nodes) >= MAX_SEARCH_RESULTS THEN [result EXCEPT !.truncated = TRUE]
    ELSE [result EXCEPT !.nodes = Append(@, j)]

\* A node is added once, and nothing follows the first for which there is no room.
IncludeNode(result, j) ==
    IF result.truncated \/ j \in ToSet(result.nodes) THEN result
    ELSE IF Len(result.nodes) >= MAX_SEARCH_RESULTS THEN [result EXCEPT !.truncated = TRUE]
    ELSE [result EXCEPT !.nodes = Append(@, j)]

\* include_with_ancestors: a match, after those above it.
Include(result, i) == FoldLeft(IncludeNode, result, Path(i))

\* Verde searches: the client is asked for a snapshot of everything.
RequestSearch(query) ==
    /\ "search" \in world /\ asked < MaxOps[world]
    /\ asked' = asked + 1
    /\ searches' = searches \cup {query}
    /\ due' = TRUE
    /\ UNCHANGED <<world, gameVars, parents, inbox, wire, mirror, told, level, tasks, verdeVars, made>>

\* The mirror is searched, in any order, as it is when it has changed in any way or the
\* wait for that has timed out.
RunSearch(query) ==
    /\ query \in searches
    /\ searches' = searches \ {query}
    /\ LET hits == IF query = {} THEN {} ELSE Matches(query)
       IN  \E order \in SetToSeqs(hits) :
             LET result == FoldLeft(Include, [nodes |-> <<>>, truncated |-> FALSE], order)
             IN  found' = [nodes |-> result.nodes, truncated |-> result.truncated,
                           hits |-> hits, tree |-> mirror]
    /\ UNCHANGED <<world, gameVars, parents, inbox, due, wire, mirror, told, level, tasks, asked,
                   view, made>>

(***************************************************************************)
(* The game moves on, and Verde asks.                                      *)
(***************************************************************************)
Leave(i) ==
    /\ "game" \in world /\ i \in DOMAIN live /\ Inside(live, i)
    /\ asked < MaxOps[world] /\ asked' = asked + 1
    /\ live' = [live EXCEPT ![i] = Nowhere]
    /\ LET out == Pruned(parents, Under(live, i))
       IN  parents' = out.known /\ wire' = wire \o out.frames
    /\ UNCHANGED <<world, props, attrs, inbox, due, mirror, told, level, tasks, searches, verdeVars,
                   made>>

\* The watch is lazy: nothing is sent.
Enter(i, p) ==
    /\ "game" \in world /\ i \in DOMAIN live /\ live[i] = Nowhere
    /\ asked < MaxOps[world] /\ asked' = asked + 1
    /\ p = Root \/ (p \in DOMAIN live /\ Inside(live, p))
    /\ live' = [live EXCEPT ![i] = p]
    /\ UNCHANGED <<world, props, attrs, parents, inbox, due, wire, mirror, told, level, tasks,
                   searches, verdeVars, made>>

\* An edit in the inspector: a number of a value, or an enum's item.
Edits(v) ==
    IF v.kind = "Enum"
    THEN {[was |-> v, k |-> 2, n |-> n, json |-> describe_enum(v.nums[1], n)] :
            n \in DOMAIN Items[v.nums[1] + 1]}
    ELSE IF v.kind \in DOMAIN Paths
    THEN {[was |-> v, k |-> k, n |-> n, json |-> Edited(describe(v), Paths[v.kind][k], n)] :
            k \in 1..Arity[v.kind], n \in Samples}
    ELSE {}

SetValue(type, values) ==
    \E name \in DOMAIN values : \E e \in Edits(values[name]) :
      RunOperation([type |-> type, node |-> view.node, name |-> name, json |-> e.json,
                    edit |-> [was |-> e.was, k |-> e.k, n |-> e.n]])

EditValue ==
    /\ "edit" \in world /\ view # <<>>
    /\ SetValue("set_property", view.props) \/ SetValue("set_attribute", view.attrs)

EditAttributes(i) ==
    \E name \in {"A", "B"} :
      \/ RunOperation([type |-> "RemoveAttribute", node |-> i, name |-> name])
      \/ \E new \in {"A", "B"} :
           RunOperation([type |-> "RenameAttribute", node |-> i, old |-> name, new |-> new])
      \/ \E kind \in {"number", "Vector3"} :
           RunOperation([type |-> "add_attribute", node |-> i, name |-> name, kind |-> kind])

EditTree(i) ==
    \/ \E p \in told \cup {Nowhere} : RunOperation([type |-> "Move", node |-> i, parent |-> p])
    \/ \E type \in {"Rename", "Delete", "Tag", "RunCode"} : RunOperation([type |-> type, node |-> i])
    \/ \E c \in {Class[j] : j \in Nodes} : RunOperation([type |-> "Create", node |-> i, class |-> c])

-----------------------------------------------------------------------------
Init ==
    /\ world \in Worlds
    /\ live \in Scattered
    /\ props = [i \in DOMAIN live |-> Initial[Class[i]]]
    /\ \E given \in IF "edit" \in world THEN Given ELSE {Empty} :
         attrs = [i \in DOMAIN live |-> given]
    /\ parents \in {Restrict(live, S) : S \in {S \in SUBSET DOMAIN live :
                      \A i \in S : Inside(live, i) /\ Above(live, i) \subseteq S}}
    /\ mirror = parents /\ told = DOMAIN mirror
    /\ inbox = <<>> /\ due = FALSE /\ wire = <<>>
    /\ level \in (IF "secure" \in world THEN Levels ELSE {CHOOSE l \in Levels : TRUE})
    /\ tasks = Empty /\ asked = 0 /\ searches = {}
    /\ view = <<>> /\ made = <<>> /\ found = <<>>

Verde ==
    \/ \E i \in told :
         \/ "read" \in world /\ RunOperation([type |-> "GetProperties", node |-> i, properties |-> {}])
         \/ "attribute" \in world /\ EditAttributes(i)
         \/ "tree" \in world /\ EditTree(i)
    \/ EditValue
    \/ \E query \in SUBSET DOMAIN Named : RequestSearch(query)

Client ==
    \/ UnknownNode \/ Rename \/ Tag \/ RunCode \/ Delete \/ Move \/ Create
    \/ SetProperty \/ SetAttribute \/ RemoveAttribute \/ RenameAttribute \/ GetProperties
    \/ SyncSnapshot

Broker ==
    \/ ReceivePatch \/ ReceiveResult
    \/ \E t \in DOMAIN tasks : ToOutcome(t) \/ Timeout(t)
    \/ \E query \in searches : RunSearch(query)
    \/ \E l \in Levels : SetSecurity(l)

Game == \E i \in Nodes : Leave(i) \/ \E p \in Places : Enter(i, p)

Next == Verde \/ Client \/ Broker \/ Game

Spec == Init /\ [][Next]_vars

-----------------------------------------------------------------------------
\* A link in the inspector leads to a mirrored instance: the client refreshes what a value
\* refers to, with the ancestors, ahead of the result.  Only what was removed from the
\* mirror while the operation was on is not resolved.
LinksResolve == view # <<>> => Refs(view.props) \subseteq view.resolved \cup view.lost

\* Verde is shown no property above the threshold that held when it asked, whatever the
\* tree and the threshold were later; but for an instance that was not mirrored then, or
\* whose class is not in the dump: the client lists those itself.
WithinThreshold ==
    view # <<>> /\ view.known /\ Class[view.node] \in DOMAIN Dump
      => \A p \in DOMAIN view.props : \E c \in Superclasses(Class[view.node]) :
            p \in DOMAIN Dump[c].levels /\ Dump[c].levels[p] <= view.level

\* An edit that was applied set the number that was entered and nothing else, for all the
\* rounding, the shapes without a tag and the types of the client; but for an attribute's
\* vector that is endless along Z, which turns flat.
EditsKeepTheRest ==
    made # <<>> => \/ KeepsTheRest(made.was, made.k, made.n, made.now)
                   \/ made.attribute /\ Flattens(made.was, made.k)

\* A search result is a tree that Verde can show: no node twice, each after its parent, no
\* more than the limit, and every match unless the limit was reached.
FoundIsReachable ==
    found # <<>> =>
      LET nodes == found.nodes
      IN  /\ Len(nodes) <= MAX_SEARCH_RESULTS /\ IsInjective(nodes)
          /\ \A k \in DOMAIN nodes :
                found.tree[nodes[k]] \in {Root} \cup {nodes[l] : l \in 1..(k-1)}
          /\ IF found.truncated THEN Len(nodes) = MAX_SEARCH_RESULTS
                                ELSE found.hits \subseteq ToSet(nodes)

=============================================================================
