--------------------------------- MODULE Filters ---------------------------------
(***************************************************************************)
(* The filters of one namespace (pkg/filter) and the filter half of the    *)
(* configuration container: the configuration is stored, enriched in place *)
(* with default rules each time a worker registers, and shared by the      *)
(* filters of all workers; a worker passes an object through its filters   *)
(* one after the other while other workers register.                       *)
(*                                                                         *)
(* An object's content is a tree, written as a function from positions to  *)
(* nodes.  A position is the sequence of field names and list indices that *)
(* leads there, so that removing a field removes every position under it.  *)
(* Strings are opaque: strings.Replace is modelled on strings that are the *)
(* substring to be replaced or do not contain it.                          *)
(*                                                                         *)
(* Not covered: null values, and rules about the fields that hold an       *)
(* object's kind and name.                                                 *)
(***************************************************************************)
EXTENDS Naturals, Sequences, SequencesExt, Functions

CONSTANTS
    Kinds, NoKind,          \* group, version and kind; nil
    Names,                  \* names of objects
    Fields, Indices,        \* names of fields, indices of list elements
    Values,                 \* strings in leaves and rules
    Parses,                 \* the strings that parse as a value of a type
    Objects,                \* [kind, name, claim (by its GVR), tree]
    Configs, NoConfig,      \* DRFilterConfig values that users write, and nil
    MaxRegistrations        \* bound: workers that register

Containers == {"map", "list"}
LeafTypes  == {"str", "int", "float", "bool"}

Node(type, x) == [t |-> type, v |-> x]

Uid    == <<"metadata", "uid">>
Volume == <<"spec", "volumeName">>

\* A root that is a map; under a map there are fields, under a list elements.
IsTree(tree) ==
    /\ DOMAIN tree \subseteq Seq(Fields \cup Indices)
    /\ \A q \in DOMAIN tree : tree[q] \in [t : Containers \cup LeafTypes, v : Values]
    /\ <<>> \in DOMAIN tree /\ tree[<<>>].t = "map"
    /\ \A q \in DOMAIN tree : \A k \in 1..Len(q) : \E p \in DOMAIN tree :
         /\ Len(p) = k - 1 /\ IsPrefix(p, q)
         /\ tree[p].t = IF q[k] \in Fields THEN "map" ELSE "list"

Paths == Seq(Fields) \ {<<>>}
Entries == [path : Paths,
            rule : [type : LeafTypes \cup {"other"}, from : Values, to : Values]]
AnyKind == Kinds \cup {NoKind}

DRFilterConfig ==
    [kindWhiteList    : Seq(Kinds),
     objectWhiteList  : Seq(Names),
     mappings         : Seq([kind : AnyKind, entries : SUBSET Entries]),
     kindDeleteList   : Seq([kind : AnyKind, paths : SUBSET Paths]),
     objectDeleteList : Seq([kind : AnyKind, name : Names, paths : SUBSET Paths])]

ASSUME BoundAssumption  == MaxRegistrations \in Nat
ASSUME NameAssumption   == /\ NoKind \notin Kinds /\ Fields \cap Indices = {}
                           /\ Range(Uid) \cup Range(Volume) \subseteq Fields
ASSUME ObjectAssumption == \A o \in Objects : o.kind \in Kinds /\ IsTree(o.tree)
ASSUME ParseAssumption  == DOMAIN Parses \subseteq LeafTypes
ASSUME ConfigAssumption == Configs \subseteq DRFilterConfig /\ NoConfig \notin DRFilterConfig

VARIABLES
    FilterConfigs,  \* the stored configuration
    written,        \* history: the configuration as the user wrote it
    registered,     \* registrations of workers so far
    stage,          \* the filter that is next for the object ("whitelist",
                    \*   "mapping", "delete", "pvc"), or "idle"
    obj,            \* the object in the filters, as it came
    tree,           \* its content, changed in place
    mapping, left,  \* the KindVariableMappings entry that the mapping filter is at,
                    \*   and those of its KeyValueMappings it has not visited
    outcome         \* what became of the last object: "passed", "blocked",
                    \*   "failed", "panicked", or "none" yet

configVars == <<FilterConfigs, written, registered>>
ruleVars   == <<mapping, left>>
vars       == <<configVars, stage, obj, tree, ruleVars, outcome>>

-----------------------------------------------------------------------------
(* The variable mapping filter.  A rule has a type and what it replaces     *)
(* (from) by what (to).                                                    *)

\* The values that iteratePath looks at: each step takes a component of the path,
\* also where it goes through a list, and a list that the path ends in front of
\* is gone through once more.
Visited(node, path) ==
    {q \in DOMAIN node \ {<<>>} :
       /\ Len(q) <= Len(path)
       /\ \A k \in 1..Len(q) : q[k] \in Indices \/ (k < Len(path) /\ q[k] = path[k])}

\* The last of them are the maps whose field is set.
Targets(node, path) ==
    {Append(q, Last(path)) :
       q \in {r \in Visited(node, path) : Len(r) + 1 >= Len(path) /\ node[r].t = "map"}}

\* A path of one component is used up before a map or the element of a list.
Panics(node, path) ==
    /\ Len(path) = 1 /\ path \in DOMAIN node
    /\ \/ node[path].t = "map"
       \/ \E i \in Indices : Append(path, i) \in DOMAIN node

WrongType(node, path) ==
    \/ Len(path) = 1 /\ path \in DOMAIN node /\ node[path].t \notin Containers
    \/ \E q \in Visited(node, path) :
         \/ node[q].t \notin Containers
         \/ node[q].t = "list" /\ Len(q) = Len(path)

\* A string is only replaced where there is one; other types are set anyway.
SettingFails(node, rule, q) ==
    IF rule.type = "str" THEN q \in DOMAIN node /\ node[q].t # "str"
    ELSE rule.type \notin DOMAIN Parses \/ rule.to \notin Parses[rule.type]

setMappingValue(node, rule, fields) ==
    LET set == IF rule.type # "str" THEN fields
               ELSE {q \in fields \cap DOMAIN node : node[q].v = rule.from}
        kept == {q \in DOMAIN node : \A s \in set : ~IsPrefix(s, q)}
    IN [q \in kept \cup set |-> IF q \in set THEN Node(rule.type, rule.to) ELSE node[q]]

-----------------------------------------------------------------------------
(* The other filters and their configuration.                              *)

\* Only the name of an ObjectWhiteList entry is compared.
Listed(c, o) == o.kind \in Range(c.kindWhiteList) \/ o.name \in Range(c.objectWhiteList)

DeletedPaths(c, o) ==
    LET ofKind   == {r \in Range(c.kindDeleteList) : r.kind = o.kind}
        ofObject == {r \in Range(c.objectDeleteList) : r.kind = o.kind /\ r.name = o.name}
    IN UNION {r.paths : r \in ofKind \cup ofObject}

\* RemoveNestedField for each path; their order does not matter.
doDeleteVariables(node, paths) ==
    Restrict(node, {q \in DOMAIN node : \A p \in paths : ~IsPrefix(p, q)})

\* Every rule is compared with the object, and a rule without a kind makes the
\* comparison dereference nil.
DeletionPanics(c) ==
    \E r \in Range(c.kindDeleteList) \cup Range(c.objectDeleteList) : r.kind = NoKind

Missing == Node("missing", "")

NestedField(node, path) == IF path \in DOMAIN node THEN node[path] ELSE Missing

NestedString(node, path) ==
    IF NestedField(node, path).t = "str" THEN node[path].v ELSE ""

PvcFilterPasses(o, node) == o.claim => NestedString(node, Volume) # ""

\* Mutants: the default rules replace the user's; they are only added when the
\* user wrote none.
M_ReplaceRules(c) ==
    [c EXCEPT !.kindDeleteList = [k \in DOMAIN c.kindWhiteList |->
                                    [kind |-> Last(c.kindWhiteList), paths |-> {Uid}]]]

M_OnlyWithoutRules(c) == IF c.kindDeleteList # <<>> THEN c ELSE M_ReplaceRules(c)

\* A rule for each listed kind and object is appended.  Each holds the address
\* of the loop variable, which is the last kind or object when the loop is over;
\* a rule for an object has no kind.
addDefaultConfig(c) ==
    [c EXCEPT
       !.kindDeleteList = @ \o [k \in DOMAIN c.kindWhiteList |->
                                  [kind |-> Last(c.kindWhiteList), paths |-> {Uid}]],
       !.objectDeleteList = @ \o [k \in DOMAIN c.objectWhiteList |->
                                    [kind |-> NoKind, name |-> Last(c.objectWhiteList),
                                     paths |-> {Uid}]]]

-----------------------------------------------------------------------------
(* The container and the worker.                                           *)

Init ==
    /\ FilterConfigs = NoConfig /\ written = NoConfig
    /\ registered = 0
    /\ stage = "idle" /\ obj = <<>> /\ tree = <<>> /\ outcome = "none"
    /\ mapping = 0 /\ left = {}

Alive == outcome # "panicked"

\* The reconciler stores the configuration until its first success, which is
\* before it starts a worker, and never again in the life of the process.
UpdateFilterConfigToContainer(c) ==
    /\ registered = 0
    /\ FilterConfigs' = c /\ written' = c
    /\ UNCHANGED <<registered, stage, obj, tree, ruleVars, outcome>>

\* A new worker: UpdateFilterHook enriches the stored configuration.
RegFilterConfigListener ==
    /\ Alive /\ FilterConfigs # NoConfig /\ registered < MaxRegistrations
    /\ registered' = registered + 1
    /\ FilterConfigs' = addDefaultConfig(FilterConfigs)
    /\ UNCHANGED <<written, stage, obj, tree, ruleVars, outcome>>

TakeObject(o) ==
    /\ Alive /\ registered > 0 /\ stage = "idle"
    /\ obj' = o /\ tree' = o.tree
    /\ stage' = "whitelist" /\ outcome' = "none"
    /\ UNCHANGED <<configVars, ruleVars>>

Finish(o) == stage' = "idle" /\ outcome' = o /\ UNCHANGED <<obj, tree, configVars>>

GoOn(next, node) == stage' = next /\ tree' = node /\ UNCHANGED <<obj, outcome, configVars>>

\* Mutant: names are not looked at.
M_KindsOnly ==
    /\ stage = "whitelist"
    /\ IF obj.kind \in Range(FilterConfigs.kindWhiteList) THEN GoOn("mapping", tree)
       ELSE Finish("blocked")
    /\ mapping' = 0 /\ left' = {}

WhiteListFilter ==
    /\ stage = "whitelist"
    /\ IF Listed(FilterConfigs, obj) THEN GoOn("mapping", tree) ELSE Finish("blocked")
    /\ mapping' = 0 /\ left' = {}

\* The entries of KindVariableMappings in order.  ObjectVariableMappings is not
\* looked at.
NextMapping ==
    /\ stage = "mapping" /\ left = {} /\ mapping < Len(FilterConfigs.mappings)
    /\ LET m == FilterConfigs.mappings[mapping + 1]
       IN /\ IF m.kind = NoKind THEN Finish("panicked") ELSE GoOn("mapping", tree)
          /\ left' = IF m.kind = obj.kind THEN m.entries ELSE {}
    /\ mapping' = mapping + 1

\* KeyValueMappings is a map: its entries are visited in any order, up to the
\* first failure.
iteratePath(e) ==
    /\ stage = "mapping" /\ e \in left
    /\ left' = left \ {e} /\ UNCHANGED mapping
    /\ LET fields == Targets(tree, e.path)
       IN IF Panics(tree, e.path) THEN Finish("panicked")
          ELSE IF WrongType(tree, e.path) \/ \E q \in fields : SettingFails(tree, e.rule, q)
          THEN Finish("failed")
          ELSE GoOn("mapping", setMappingValue(tree, e.rule, fields))

MappingEnds ==
    /\ stage = "mapping" /\ left = {} /\ mapping = Len(FilterConfigs.mappings)
    /\ GoOn("delete", tree)
    /\ UNCHANGED ruleVars

VariableDeleteFilter ==
    /\ stage = "delete"
    /\ IF DeletionPanics(FilterConfigs) THEN Finish("panicked")
       ELSE GoOn("pvc", doDeleteVariables(tree, DeletedPaths(FilterConfigs, obj)))
    /\ UNCHANGED ruleVars

\* Mutant: the claim is looked at as it was before the other filters.
M_LookAtSource ==
    /\ stage = "pvc"
    /\ Finish(IF PvcFilterPasses(obj, obj.tree) THEN "passed" ELSE "blocked")
    /\ UNCHANGED ruleVars

PVCFilter ==
    /\ stage = "pvc"
    /\ Finish(IF PvcFilterPasses(obj, tree) THEN "passed" ELSE "blocked")
    /\ UNCHANGED ruleVars

filter ==
    \/ WhiteListFilter
    \/ NextMapping \/ (\E e \in left : iteratePath(e)) \/ MappingEnds
    \/ VariableDeleteFilter \/ PVCFilter

Next ==
    \/ \E c \in Configs : UpdateFilterConfigToContainer(c)
    \/ RegFilterConfigListener
    \/ \E o \in Objects : TakeObject(o)
    \/ filter

Spec == Init /\ [][Next]_vars

-----------------------------------------------------------------------------
(* Properties.                                                             *)

\* An object ends where the configuration says: one that is not listed is
\* blocked, and a listed one is passed, unless it is a claim.
ListedArePassed ==
    stage = "idle" /\ outcome \in {"passed", "blocked"} =>
      /\ outcome = "passed" => Listed(written, obj)
      /\ outcome = "blocked" => ~Listed(written, obj) \/ obj.claim

\* The mapping rules for the kind of the object.
KindMappings == {k \in DOMAIN written.mappings : written.mappings[k].kind = obj.kind}
Rules == UNION {{<<k, e>> : e \in written.mappings[k].entries} : k \in KindMappings}

\* Rule r sets the field at q or one that q is in.
Reaches(r, q) == \E f \in Targets(obj.tree, r[2].path) : IsPrefix(f, q)

\* A claim that is passed on still names a volume, which the dependency checker
\* reads next, whatever the rules did to it; and it is the one that it is bound
\* to, unless a rule says otherwise.
PassedClaimIsBound ==
    outcome = "passed" /\ obj.claim =>
      /\ NestedString(tree, Volume) # ""
      /\ (\A r \in Rules : ~Reaches(r, Volume)) =>
           NestedField(tree, Volume) = NestedField(obj.tree, Volume)

\* What a path means where it ends: a field of the map that the rest of it names,
\* or of each map in the list there.
FieldsAt(node, path) ==
    LET front == Front(path)
        maps  == {q \in DOMAIN node :
                    /\ node[q].t = "map"
                    /\ q = front \/ \E i \in Indices : q = Append(front, i)}
    IN {Append(q, Last(path)) : q \in maps}

MappedNode(rule, node) ==
    IF rule.type # "str" THEN Node(rule.type, rule.to)
    ELSE IF node = Node("str", rule.from) THEN Node("str", rule.to) ELSE node

\* The user wants the field at q deleted, or one that it is in.
Ruled(q) == \E p \in DeletedPaths(written, obj) : IsPrefix(p, q)

\* What the user wrote holds of a passed object however many workers have
\* registered before and while it was filtered, and in whatever order its rules
\* were applied: no deleted field is left, and each field that a mapping rule
\* names is mapped, if neither a deletion nor another mapping reaches it.
UserRulesApply ==
    outcome = "passed" =>
      /\ \A q \in DOMAIN tree : ~Ruled(q)
      /\ \A r \in Rules : \A q \in FieldsAt(obj.tree, r[2].path) :
           /\ Len(r[2].path) > 1 /\ ~Ruled(q) /\ ~IsPrefix(Uid, q)
           /\ \A s \in Rules \ {r} : ~Reaches(s, q)
           => NestedField(tree, q) = MappedNode(r[2].rule, NestedField(obj.tree, q))

\* The uid, under which the transport manager keeps versions, is lost by the
\* kinds it is taken from by the user and by the last kind listed, by no other.
UidKept ==
    outcome = "passed" /\ Uid \in DOMAIN obj.tree =>
      (Uid \notin DOMAIN tree
         <=> Ruled(Uid) \/ (written.kindWhiteList # <<>>
                              /\ obj.kind = Last(written.kindWhiteList)))

\* "resource in whitelist": a listed object is not the end of the process.
ListedDoNotPanic ==
    ~(outcome = "panicked" /\ Listed(written, obj))
=============================================================================
