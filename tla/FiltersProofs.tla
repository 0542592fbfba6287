----------------------------- MODULE FiltersProofs -----------------------------
(***************************************************************************)
(* Theorems about Filters for all values of its constants.                 *)
(***************************************************************************)
EXTENDS Filters, SequenceTheorems, TLAPS

\* Where a node of an object's content can be.
Positions == Seq(Fields \cup Indices)

-----------------------------------------------------------------------------
(* Positions and their prefixes.                                           *)

\* A prefix is shorter and has the same elements.
LEMMA PrefixElements ==
    ASSUME NEW S, NEW p \in Seq(S), NEW q \in Seq(S)
    PROVE  IsPrefix(p, q) <=> Len(p) <= Len(q) /\ \A k \in 1..Len(p) : p[k] = q[k]
<1>1. Len(p) \in Nat /\ Len(q) \in Nat /\ SubSeq(p, 1, Len(p)) = p
  BY LenProperties, SubSeqFull
<1>2. ASSUME Len(p) <= Len(q) PROVE SubSeq(q, 1, Len(p)) \in Seq(S)
                                    /\ Len(SubSeq(q, 1, Len(p))) = Len(p)
                                    /\ \A k \in 1..Len(p) : SubSeq(q, 1, Len(p))[k] = q[k]
  <2>1. \A k \in 1..Len(p) : q[k] \in S
    BY <1>1, <1>2, ElementOfSeq
  <2> QED
    BY <1>1, <1>2, <2>1, SubSeqProperties
<1>3. ASSUME IsPrefix(p, q) PROVE Len(p) <= Len(q) /\ \A k \in 1..Len(p) : p[k] = q[k]
  BY <1>1, <1>2, <1>3 DEF IsPrefix
<1>4. ASSUME Len(p) <= Len(q), \A k \in 1..Len(p) : p[k] = q[k] PROVE IsPrefix(p, q)
  <2>1. SubSeq(q, 1, Len(p)) = p
    BY <1>1, <1>2, <1>4, SeqEqual
  <2> QED
    BY <1>1, <1>4, <2>1 DEF IsPrefix
<1> QED
  BY <1>3, <1>4

\* The prefixes are an order, and no two of the same length belong to one position.
LEMMA PrefixOrder ==
    ASSUME NEW S, NEW p \in Seq(S), NEW q \in Seq(S), NEW r \in Seq(S)
    PROVE  /\ IsPrefix(p, p)
           /\ IsPrefix(p, q) /\ IsPrefix(q, r) => IsPrefix(p, r)
           /\ IsPrefix(p, q) /\ Len(p) >= Len(q) => p = q
<1>1. Len(p) \in Nat /\ Len(q) \in Nat /\ Len(r) \in Nat
  BY LenProperties
<1>2. IsPrefix(p, p)
  BY <1>1, PrefixElements
<1>3. ASSUME IsPrefix(p, q), IsPrefix(q, r) PROVE IsPrefix(p, r)
  <2>1. Len(p) <= Len(q) /\ \A k \in 1..Len(p) : p[k] = q[k]
    BY <1>3, PrefixElements
  <2>2. Len(q) <= Len(r) /\ \A k \in 1..Len(q) : q[k] = r[k]
    BY <1>3, PrefixElements
  <2>3. Len(p) <= Len(r) /\ \A k \in 1..Len(p) : p[k] = r[k]
    BY <1>1, <2>1, <2>2
  <2> QED
    BY <2>3, PrefixElements
<1>4. ASSUME IsPrefix(p, q), Len(p) >= Len(q) PROVE p = q
  <2>1. Len(p) = Len(q) /\ \A k \in 1..Len(p) : p[k] = q[k]
    BY <1>1, <1>4, PrefixElements
  <2> QED
    BY <2>1, SeqEqual
<1> QED
  BY <1>2, <1>3, <1>4

\* A position without its last component.
LEMMA PrefixAppend ==
    ASSUME NEW S, NEW p \in Seq(S), NEW x \in S
    PROVE  IsPrefix(p, Append(p, x))
<1>1. Append(p, x) \in Seq(S) /\ Len(p) \in Nat /\ Len(Append(p, x)) = Len(p) + 1
      /\ \A k \in 1..Len(p) : Append(p, x)[k] = p[k]
  BY AppendProperties, LenProperties
<1>2. Len(p) <= Len(Append(p, x)) /\ \A k \in 1..Len(p) : p[k] = Append(p, x)[k]
  BY <1>1
<1>3. Append(p, x) \in Seq(S) /\ p \in Seq(S)
  BY <1>1
<1> QED
  BY <1>2, <1>3, PrefixElements

\* What is left of a path without its last component.
LEMMA FrontOfPath ==
    ASSUME NEW path \in Paths
    PROVE  /\ Len(path) \in Nat \ {0} /\ Last(path) \in Fields
           /\ Front(path) \in Seq(Fields) /\ Len(Front(path)) = Len(path) - 1
           /\ \A k \in 1..Len(path) - 1 : Front(path)[k] = path[k]
<1>1. path \in Seq(Fields) /\ Len(path) \in Nat \ {0}
  BY EmptySeq DEF Paths
<1>2. \A k \in 1..Len(path) : path[k] \in Fields
  BY <1>1, ElementOfSeq
<1>3. Last(path) \in Fields
  BY <1>1, <1>2 DEF Last
<1>4. \A k \in 1..Len(path) - 1 : path[k] \in Fields
  BY <1>1, <1>2
<1>5. Len(path) - 1 \in Int /\ 1 \in Int
  BY <1>1
<1>6. /\ SubSeq(path, 1, Len(path) - 1) \in Seq(Fields)
      /\ Len(SubSeq(path, 1, Len(path) - 1))
           = IF 1 <= Len(path) - 1 THEN Len(path) - 1 - 1 + 1 ELSE 0
      /\ \A k \in 1..(Len(path) - 1) - 1 + 1 :
           SubSeq(path, 1, Len(path) - 1)[k] = path[1 + k - 1]
  BY <1>4, <1>5, SubSeqProperties
<1>7. Front(path) = SubSeq(path, 1, Len(path) - 1)
  BY DEF Front
<1>8. Len(SubSeq(path, 1, Len(path) - 1)) = Len(path) - 1
  <2>1. CASE Len(path) = 1
    BY <1>6, <2>1
  <2>2. CASE Len(path) > 1
    BY <1>1, <1>6, <2>2
  <2> QED
    BY <1>1, <2>1, <2>2
<1>9. ASSUME NEW k \in 1..Len(path) - 1
      PROVE  SubSeq(path, 1, Len(path) - 1)[k] = path[k]
  <2>1. k \in 1..(Len(path) - 1) - 1 + 1 /\ 1 + k - 1 = k
    BY <1>1
  <2> QED
    BY <1>6, <2>1
<1>10. Front(path) \in Seq(Fields) /\ Len(Front(path)) = Len(path) - 1
  BY <1>6, <1>7, <1>8
<1>11. \A k \in 1..Len(path) - 1 : Front(path)[k] = path[k]
  BY <1>7, <1>9
<1> QED
  BY <1>1, <1>3, <1>10, <1>11

-----------------------------------------------------------------------------
(* The fields that the mapping filter sets.                                *)

\* The content of an object in the mapping filter: the maps and lists in it are
\* those that the object came with, and its uid is there.
ContentOf(node, source) ==
    /\ DOMAIN node \subseteq Positions
    /\ \A q \in DOMAIN node : node[q] \in [t : Containers \cup LeafTypes, v : Values]
    /\ \A q \in DOMAIN node : node[q].t \in Containers =>
         q \in DOMAIN source /\ source[q].t = node[q].t
    /\ Uid \in DOMAIN source => Uid \in DOMAIN node

\* It is so when the object is taken.
LEMMA ObjectIsContent ==
    ASSUME NEW o \in Objects
    PROVE  ContentOf(o.tree, o.tree)
BY ObjectAssumption DEF IsTree, ContentOf, Positions

\* A field that is set has as many components as the path, or one more, and then
\* the one before the last is an index.  It is not at the top.
LEMMA TargetIsField ==
    ASSUME NEW node, DOMAIN node \subseteq Positions, NEW path \in Paths,
           NEW f \in Targets(node, path)
    PROVE  /\ f \in Positions /\ Len(f) >= 2 /\ Len(f) \in {Len(path), Len(path) + 1}
           /\ f[Len(f)] \in Fields
           /\ Len(f) = Len(path) + 1 => f[Len(path)] \in Indices
<1>1. PICK r \in Visited(node, path) :
        f = Append(r, Last(path)) /\ Len(r) + 1 >= Len(path) /\ node[r].t = "map"
  BY DEF Targets
<1>2. /\ r \in DOMAIN node /\ r # <<>> /\ Len(r) <= Len(path)
      /\ \A k \in 1..Len(r) : r[k] \in Indices \/ (k < Len(path) /\ r[k] = path[k])
  BY <1>1 DEF Visited
<1>3. Last(path) \in Fields /\ Len(path) \in Nat \ {0}
  BY FrontOfPath
<1>4. r \in Seq(Fields \cup Indices) /\ Len(r) \in Nat \ {0}
  BY <1>2, EmptySeq DEF Positions
<1>5. /\ f \in Seq(Fields \cup Indices) /\ Len(f) = Len(r) + 1
      /\ \A k \in 1..Len(r) : f[k] = r[k]
      /\ f[Len(r) + 1] = Last(path)
  BY <1>1, <1>3, <1>4, AppendProperties
<1>6. ASSUME Len(f) = Len(path) + 1 PROVE f[Len(path)] \in Indices
  <2>1. Len(r) = Len(path) /\ Len(path) \in 1..Len(r)
    BY <1>3, <1>4, <1>5, <1>6
  <2> QED
    BY <1>2, <1>3, <1>5, <2>1
<1>7. Len(f) >= 2 /\ Len(f) \in {Len(path), Len(path) + 1}
  BY <1>1, <1>2, <1>3, <1>4, <1>5
<1> QED
  BY <1>3, <1>5, <1>6, <1>7 DEF Positions

\* No field that is set is in another one.
LEMMA TargetsApart ==
    ASSUME NEW node, DOMAIN node \subseteq Positions, NEW path \in Paths,
           NEW f \in Targets(node, path), NEW g \in Targets(node, path), IsPrefix(f, g)
    PROVE  f = g
<1>1. /\ f \in Positions /\ Len(f) \in {Len(path), Len(path) + 1} /\ f[Len(f)] \in Fields
      /\ g \in Positions /\ Len(g) \in {Len(path), Len(path) + 1}
      /\ Len(g) = Len(path) + 1 => g[Len(path)] \in Indices
  BY TargetIsField
<1>2. Len(f) <= Len(g) /\ \A k \in 1..Len(f) : f[k] = g[k]
  BY <1>1, PrefixElements DEF Positions
<1>3. Len(path) \in Nat \ {0}
  BY FrontOfPath
<1>4. CASE Len(f) = Len(path) /\ Len(g) = Len(path) + 1
  <2>1. f[Len(path)] = g[Len(path)]
    BY <1>2, <1>3, <1>4
  <2> QED
    BY <1>1, <1>4, <2>1, NameAssumption
<1>5. CASE Len(f) >= Len(g)
  BY <1>1, <1>5, PrefixOrder DEF Positions
<1> QED
  BY <1>1, <1>2, <1>3, <1>4, <1>5

\* What is set in the content would have been set in the object as it came.
LEMMA TargetsOfSource ==
    ASSUME NEW source, NEW node, ContentOf(node, source), NEW path \in Paths
    PROVE  Targets(node, path) \subseteq Targets(source, path)
BY DEF ContentOf, Targets, Visited, Containers

\* Where setting a field does not reach, the content stays.
LEMMA SetFrame ==
    ASSUME NEW node, DOMAIN node \subseteq Positions, NEW rule,
           NEW fields \in SUBSET Positions, NEW q \in Positions,
           \A f \in fields : ~IsPrefix(f, q)
    PROVE  NestedField(setMappingValue(node, rule, fields), q) = NestedField(node, q)
<1>1. q \notin fields
  BY PrefixOrder DEF Positions
<1> QED
  BY <1>1 DEF setMappingValue, NestedField

\* A field that is set without a failure has the value that the rule says.
LEMMA SetAt ==
    ASSUME NEW source, NEW node, ContentOf(node, source), NEW rule,
           NEW fields \in SUBSET Positions, NEW q \in fields,
           \A f \in fields : IsPrefix(f, q) => f = q,
           ~SettingFails(node, rule, q)
    PROVE  NestedField(setMappingValue(node, rule, fields), q)
             = MappedNode(rule, NestedField(node, q))
<1>1. CASE rule.type # "str"
  BY <1>1 DEF setMappingValue, NestedField, MappedNode
<1>2. CASE rule.type = "str" /\ q \notin DOMAIN node
  <2>1. NestedField(node, q) = Missing /\ Missing # Node("str", rule.from)
    BY <1>2 DEF NestedField, Missing, Node
  <2>2. q \notin DOMAIN setMappingValue(node, rule, fields)
    BY <1>2 DEF setMappingValue
  <2> QED
    BY <1>2, <2>1, <2>2 DEF NestedField, MappedNode
<1>3. CASE rule.type = "str" /\ q \in DOMAIN node
  <2> DEFINE set == {p \in fields \cap DOMAIN node : node[p].v = rule.from}
             after == setMappingValue(node, rule, fields)
  <2>1. node[q] = Node("str", node[q].v) /\ NestedField(node, q) = node[q]
    BY <1>3 DEF SettingFails, ContentOf, Node, NestedField
  <2>2. CASE q \in set
    <3>1. q \in DOMAIN after /\ after[q] = Node("str", rule.to)
      BY <1>3, <2>2 DEF setMappingValue
    <3> QED
      BY <1>3, <2>1, <2>2, <3>1 DEF NestedField, MappedNode
  <2>3. CASE q \notin set
    <3>1. \A f \in set : ~IsPrefix(f, q)
      BY <2>3
    <3>2. q \in DOMAIN after /\ after[q] = node[q]
      BY <1>3, <2>3, <3>1 DEF setMappingValue
    <3>3. node[q] # Node("str", rule.from)
      BY <1>3, <2>3 DEF Node
    <3> QED
      BY <1>3, <2>1, <3>2, <3>3 DEF NestedField, MappedNode
  <2> QED
    BY <2>2, <2>3
<1> QED
  BY <1>1, <1>2, <1>3

\* The uid and a claim's volume have positions of two components.
LEMMA UidIsPosition == Uid \in Positions /\ Volume \in Positions /\ Len(Uid) = 2
<1>1. "metadata" \in Fields /\ "uid" \in Fields /\ "spec" \in Fields
      /\ "volumeName" \in Fields
  BY NameAssumption DEF Uid, Volume, Range
<1> QED
  BY <1>1 DEF Uid, Volume, Positions

\* Setting fields makes no map or list, and leaves those it does not replace; it
\* may replace the uid and cannot remove it.
LEMMA SetKeepsContent ==
    ASSUME NEW source, NEW node, ContentOf(node, source), NEW e \in Entries,
           \A f \in Targets(node, e.path) : ~SettingFails(node, e.rule, f)
    PROVE  ContentOf(setMappingValue(node, e.rule, Targets(node, e.path)), source)
<1> DEFINE rule  == e.rule
           fields == Targets(node, e.path)
           set   == IF rule.type # "str" THEN fields
                    ELSE {q \in fields \cap DOMAIN node : node[q].v = rule.from}
           kept  == {q \in DOMAIN node : \A s \in set : ~IsPrefix(s, q)}
           after == setMappingValue(node, rule, fields)
<1>1. /\ e.path \in Paths /\ rule.type \in LeafTypes \cup {"other"} /\ rule.to \in Values
      /\ DOMAIN node \subseteq Positions
  BY DEF Entries, ContentOf
<1>2. \A f \in fields : f \in Positions /\ Len(f) >= 2
  BY <1>1, TargetIsField
<1>3. /\ DOMAIN after = kept \cup set
      /\ \A q \in DOMAIN after :
           after[q] = IF q \in set THEN Node(rule.type, rule.to) ELSE node[q]
  BY DEF setMappingValue
<1>4. set \subseteq fields /\ kept \subseteq DOMAIN node
  OBVIOUS
<1>5. set # {} => rule.type \in LeafTypes
  <2>1. CASE rule.type = "str"
    BY <2>1 DEF LeafTypes
  <2>2. CASE rule.type # "str" /\ set # {}
    BY <1>4, <2>2, ParseAssumption DEF SettingFails
  <2> QED
    BY <2>1, <2>2
<1>6. DOMAIN after \subseteq Positions
  BY <1>1, <1>2, <1>3, <1>4
<1>7. ASSUME NEW q \in DOMAIN after
      PROVE  /\ after[q] \in [t : Containers \cup LeafTypes, v : Values]
             /\ after[q].t \in Containers =>
                  q \in DOMAIN source /\ source[q].t = after[q].t
  <2>1. CASE q \in set
    BY <1>1, <1>3, <1>5, <2>1 DEF Node, LeafTypes, Containers
  <2>2. CASE q \notin set
    <3>1. q \in DOMAIN node /\ after[q] = node[q]
      BY <1>3, <1>4, <2>2
    <3> QED
      BY <3>1 DEF ContentOf
  <2> QED
    BY <2>1, <2>2
<1>8. ASSUME Uid \in DOMAIN source PROVE Uid \in DOMAIN after
  <2>1. Uid \in DOMAIN node
    BY <1>8 DEF ContentOf
  <2>2. ASSUME NEW f \in set, IsPrefix(f, Uid) PROVE f = Uid
    BY <1>2, <1>4, <2>2, PrefixOrder, UidIsPosition DEF Positions
  <2> QED
    BY <1>3, <2>1, <2>2
<1> QED
  BY <1>6, <1>7, <1>8 DEF ContentOf

\* A field that a path means is set where the way to it has not changed.
LEMMA FieldIsTarget ==
    ASSUME NEW source, DOMAIN source \subseteq Positions, NEW node, NEW path \in Paths,
           Len(path) > 1, NEW q \in FieldsAt(source, path),
           \A r \in Positions : IsPrefix(r, q) => NestedField(node, r) = NestedField(source, r)
    PROVE  q \in Targets(node, path) /\ q \in Targets(source, path)
<1> DEFINE front == Front(path)
<1>1. PICK r \in DOMAIN source :
        /\ q = Append(r, Last(path)) /\ source[r].t = "map"
        /\ r = front \/ \E i \in Indices : r = Append(front, i)
  BY DEF FieldsAt
<1>2. /\ Len(path) \in Nat \ {0} /\ front \in Seq(Fields \cup Indices)
      /\ Len(front) = Len(path) - 1 /\ \A k \in 1..Len(path) - 1 : front[k] = path[k]
  BY FrontOfPath, SeqMonotonic
<1>3. r # <<>> /\ Len(r) <= Len(path) /\ Len(r) + 1 >= Len(path)
      /\ \A k \in 1..Len(r) : r[k] \in Indices \/ (k < Len(path) /\ r[k] = path[k])
  <2>1. CASE r = front
    BY <1>2, <2>1, EmptySeq
  <2>2. ASSUME NEW i \in Indices, r = Append(front, i)
        PROVE  r # <<>> /\ Len(r) = Len(path) /\ r[Len(path)] = i
               /\ \A k \in 1..Len(path) - 1 : r[k] = path[k]
    <3>1. /\ r # <<>> /\ Len(r) = Len(front) + 1 /\ r[Len(front) + 1] = i
          /\ \A k \in 1..Len(front) : r[k] = front[k]
      BY <1>2, <2>2, AppendProperties
    <3> QED
      BY <1>2, <3>1
  <2>3. ASSUME NEW i \in Indices, r = Append(front, i), NEW k \in 1..Len(r)
        PROVE  r[k] \in Indices \/ (k < Len(path) /\ r[k] = path[k])
    <3>1. k \in 1..Len(path) - 1 \/ k = Len(path)
      BY <1>2, <2>2, <2>3
    <3> QED
      BY <1>2, <2>2, <2>3, <3>1
  <2> QED
    BY <1>1, <1>2, <2>1, <2>2, <2>3
<1>4. r \in Visited(source, path) /\ q \in Targets(source, path)
  BY <1>1, <1>3 DEF Visited, Targets
<1>5. r \in DOMAIN node /\ node[r].t = "map"
  <2>1. IsPrefix(r, q)
    BY <1>1, FrontOfPath, PrefixAppend DEF Positions
  <2>2. NestedField(node, r) = NestedField(source, r)
    BY <1>1, <2>1
  <2>3. NestedField(source, r).t = "map" /\ Missing.t # "map"
    BY <1>1 DEF NestedField, Missing, Node
  <2> QED
    BY <2>2, <2>3 DEF NestedField
<1> QED
  BY <1>1, <1>3, <1>4, <1>5 DEF Visited, Targets

-----------------------------------------------------------------------------
(* The configuration, as it is enriched.                                   *)

\* What a registration adds to the rules of configuration c, as sets.
Added(list, rule) == IF list # <<>> THEN {rule} ELSE {}

AddedOfKind(c) == Added(c.kindWhiteList, [kind |-> Last(c.kindWhiteList), paths |-> {Uid}])
AddedOfObject(c) ==
    Added(c.objectWhiteList,
          [kind |-> NoKind, name |-> Last(c.objectWhiteList), paths |-> {Uid}])

\* The stored configuration is the user's with two more rules, each as often as
\* workers have registered.
Enriched ==
    /\ written \in Configs \cup {NoConfig} /\ registered \in Nat
    /\ written = NoConfig => FilterConfigs = NoConfig /\ registered = 0
    /\ written # NoConfig =>
         /\ FilterConfigs \in DRFilterConfig
         /\ FilterConfigs.kindWhiteList = written.kindWhiteList
         /\ FilterConfigs.objectWhiteList = written.objectWhiteList
         /\ FilterConfigs.mappings = written.mappings
         /\ Range(FilterConfigs.kindDeleteList) = Range(written.kindDeleteList)
              \cup IF registered > 0 THEN AddedOfKind(written) ELSE {}
         /\ Range(FilterConfigs.objectDeleteList) = Range(written.objectDeleteList)
              \cup IF registered > 0 THEN AddedOfObject(written) ELSE {}

\* A default rule is appended for each element of a list, and is the same for all.
ForEach(list, rule) == [k \in DOMAIN list |-> rule]

\* So the rules that are added amount to one, if the list has an element.
LEMMA SameForEach ==
    ASSUME NEW S, NEW T, NEW list \in Seq(S), NEW rule, list # <<>> => rule \in T
    PROVE  /\ ForEach(list, rule) \in Seq(T)
           /\ Range(ForEach(list, rule)) = Added(list, rule)
<1>1. Len(list) \in Nat /\ DOMAIN list = 1..Len(list)
  BY LenProperties
<1>2. CASE list = <<>>
  BY <1>2 DEF Range, ForEach, Added
<1>3. CASE list # <<>>
  <2>1. Len(list) \in Nat \ {0} /\ 1 \in DOMAIN list
    BY <1>1, <1>3, EmptySeq
  <2>2. [k \in 1..Len(list) |-> rule] \in Seq(T)
    BY <1>1, <1>3
  <2> QED
    BY <1>1, <1>3, <2>1, <2>2 DEF Range, ForEach, Added
<1> QED
  BY <1>2, <1>3

\* The last element of a list that has one.
LEMMA LastOfList ==
    ASSUME NEW S, NEW list \in Seq(S), list # <<>>
    PROVE  Last(list) \in S
<1>1. Len(list) \in 1..Len(list)
  BY EmptySeq
<1> QED
  BY <1>1, ElementOfSeq DEF Last

\* What a registration changes.
LEMMA EnrichedByDefault ==
    ASSUME NEW c \in DRFilterConfig
    PROVE  /\ addDefaultConfig(c) \in DRFilterConfig
           /\ addDefaultConfig(c).kindWhiteList = c.kindWhiteList
           /\ addDefaultConfig(c).objectWhiteList = c.objectWhiteList
           /\ addDefaultConfig(c).mappings = c.mappings
           /\ Range(addDefaultConfig(c).kindDeleteList)
                = Range(c.kindDeleteList) \cup AddedOfKind(c)
           /\ Range(addDefaultConfig(c).objectDeleteList)
                = Range(c.objectDeleteList) \cup AddedOfObject(c)
<1> DEFINE KindRules   == [kind : AnyKind, paths : SUBSET Paths]
           ObjectRules == [kind : AnyKind, name : Names, paths : SUBSET Paths]
           ofKind   == [kind |-> Last(c.kindWhiteList), paths |-> {Uid}]
           ofObject == [kind |-> NoKind, name |-> Last(c.objectWhiteList), paths |-> {Uid}]
           kindRules   == ForEach(c.kindWhiteList, ofKind)
           objectRules == ForEach(c.objectWhiteList, ofObject)
           d == addDefaultConfig(c)
<1>1. /\ c.kindWhiteList \in Seq(Kinds) /\ c.objectWhiteList \in Seq(Names)
      /\ c.kindDeleteList \in Seq(KindRules) /\ c.objectDeleteList \in Seq(ObjectRules)
  BY DEF DRFilterConfig
<1>2. Uid \in Paths
  BY NameAssumption DEF Uid, Paths, Range
<1>3. c.kindWhiteList # <<>> => ofKind \in KindRules
  BY <1>1, <1>2, LastOfList DEF AnyKind
<1>4. c.objectWhiteList # <<>> => ofObject \in ObjectRules
  BY <1>1, <1>2, LastOfList DEF AnyKind
<1>5. /\ kindRules \in Seq(KindRules)
      /\ Range(kindRules) = AddedOfKind(c)
  <2>1. AddedOfKind(c) = Added(c.kindWhiteList, ofKind)
    BY DEF AddedOfKind
  <2> HIDE DEF ofKind, KindRules
  <2> QED
    BY <1>1, <1>3, <2>1, SameForEach
<1>6. /\ objectRules \in Seq(ObjectRules)
      /\ Range(objectRules) = AddedOfObject(c)
  <2>1. AddedOfObject(c) = Added(c.objectWhiteList, ofObject)
    BY DEF AddedOfObject
  <2> HIDE DEF ofObject, ObjectRules
  <2> QED
    BY <1>1, <1>4, <2>1, SameForEach
<1>7. d = [c EXCEPT !.kindDeleteList = c.kindDeleteList \o kindRules,
                    !.objectDeleteList = c.objectDeleteList \o objectRules]
  BY DEF addDefaultConfig, ForEach
<1> HIDE DEF kindRules, objectRules
<1>8. /\ c.kindDeleteList \o kindRules \in Seq(KindRules)
      /\ c.objectDeleteList \o objectRules \in Seq(ObjectRules)
  BY <1>1, <1>5, <1>6, ConcatProperties
<1>9. /\ d.kindDeleteList = c.kindDeleteList \o kindRules
      /\ d.objectDeleteList = c.objectDeleteList \o objectRules
      /\ d.kindWhiteList = c.kindWhiteList /\ d.objectWhiteList = c.objectWhiteList
      /\ d.mappings = c.mappings /\ d \in DRFilterConfig
  BY <1>7, <1>8 DEF DRFilterConfig
<1>10. Range(d.kindDeleteList) = Range(c.kindDeleteList) \cup Range(kindRules)
  BY <1>1, <1>5, <1>9, RangeConcatenation
<1>11. Range(d.objectDeleteList) = Range(c.objectDeleteList) \cup Range(objectRules)
  BY <1>1, <1>6, <1>9, RangeConcatenation
<1> QED
  BY <1>5, <1>6, <1>9, <1>10, <1>11

\* A path is deleted if a rule for the kind or for the object has it.
LEMMA DeletedPathsAre ==
    ASSUME NEW c, NEW o, NEW p
    PROVE  p \in DeletedPaths(c, o) <=>
             \/ \E r \in Range(c.kindDeleteList) : r.kind = o.kind /\ p \in r.paths
             \/ \E r \in Range(c.objectDeleteList) :
                  r.kind = o.kind /\ r.name = o.name /\ p \in r.paths
<1> DEFINE ofKind   == {r \in Range(c.kindDeleteList) : r.kind = o.kind}
           ofObject == {r \in Range(c.objectDeleteList) : r.kind = o.kind /\ r.name = o.name}
           rules    == ofKind \cup ofObject
<1>1. DeletedPaths(c, o) = UNION {r.paths : r \in rules}
  BY DEF DeletedPaths
<1>2. p \in DeletedPaths(c, o) <=> \E r \in rules : p \in r.paths
  <2> HIDE DEF rules
  <2> QED
    BY <1>1
<1> QED
  BY <1>2

\* What is deleted from an object in a filter: what the user says, and the uid of
\* the last kind listed.
LEMMA EffectiveDeletion ==
    ASSUME Enriched, registered > 0, NEW o \in Objects
    PROVE  \A p : p \in DeletedPaths(FilterConfigs, o) <=>
             \/ p \in DeletedPaths(written, o)
             \/ p = Uid /\ written.kindWhiteList # <<>> /\ o.kind = Last(written.kindWhiteList)
<1>1. o.kind # NoKind
  BY ObjectAssumption, NameAssumption
<1>2. written # NoConfig
  BY DEF Enriched
<1>3. /\ Range(FilterConfigs.kindDeleteList)
           = Range(written.kindDeleteList) \cup AddedOfKind(written)
      /\ Range(FilterConfigs.objectDeleteList)
           = Range(written.objectDeleteList) \cup AddedOfObject(written)
  BY <1>2 DEF Enriched
<1>4. \A c, p : p \in DeletedPaths(c, o) <=>
        \/ \E r \in Range(c.kindDeleteList) : r.kind = o.kind /\ p \in r.paths
        \/ \E r \in Range(c.objectDeleteList) :
             r.kind = o.kind /\ r.name = o.name /\ p \in r.paths
  BY DeletedPathsAre
<1>5. \A r : r \in AddedOfKind(written) <=>
        /\ written.kindWhiteList # <<>>
        /\ r = [kind |-> Last(written.kindWhiteList), paths |-> {Uid}]
  BY DEF AddedOfKind, Added
<1>6. \A r \in AddedOfObject(written) : r.kind = NoKind
  BY DEF AddedOfObject, Added
<1>7. ASSUME NEW p, p \in DeletedPaths(FilterConfigs, o), p \notin DeletedPaths(written, o)
      PROVE  p = Uid /\ written.kindWhiteList # <<>> /\ o.kind = Last(written.kindWhiteList)
  <2>1. CASE \E r \in Range(FilterConfigs.kindDeleteList) : r.kind = o.kind /\ p \in r.paths
    <3>1. PICK r \in AddedOfKind(written) : r.kind = o.kind /\ p \in r.paths
      BY <1>3, <1>4, <1>7, <2>1
    <3> QED
      BY <1>5, <3>1
  <2>2. CASE \E r \in Range(FilterConfigs.objectDeleteList) :
               r.kind = o.kind /\ r.name = o.name /\ p \in r.paths
    BY <1>1, <1>3, <1>4, <1>6, <1>7, <2>2
  <2> QED
    BY <1>4, <1>7, <2>1, <2>2
<1>8. ASSUME NEW p, p \in DeletedPaths(written, o) PROVE p \in DeletedPaths(FilterConfigs, o)
  BY <1>3, <1>4, <1>8
<1>9. ASSUME written.kindWhiteList # <<>>, o.kind = Last(written.kindWhiteList)
      PROVE  Uid \in DeletedPaths(FilterConfigs, o)
  <2> DEFINE r == [kind |-> Last(written.kindWhiteList), paths |-> {Uid}]
  <2>1. r \in Range(FilterConfigs.kindDeleteList)
    BY <1>3, <1>5, <1>9
  <2> QED
    BY <1>4, <1>9, <2>1
<1> QED
  BY <1>7, <1>8, <1>9

\* A deletion leaves a field as it is or takes it, and takes what it reaches.
LEMMA DeletionFrame ==
    ASSUME NEW node, NEW paths, NEW q
    PROVE  /\ NestedField(doDeleteVariables(node, paths), q) \in {NestedField(node, q), Missing}
           /\ q \in DOMAIN doDeleteVariables(node, paths)
                <=> q \in DOMAIN node /\ \A p \in paths : ~IsPrefix(p, q)
           /\ (\A p \in paths : ~IsPrefix(p, q)) =>
                NestedField(doDeleteVariables(node, paths), q) = NestedField(node, q)
BY DEF doDeleteVariables, NestedField, Restrict

-----------------------------------------------------------------------------
(* The inductive invariant, in named parts.                                *)

\* An object is in the filters of a worker that has registered.
InFilters ==
    /\ stage \in {"idle", "whitelist", "mapping", "delete", "pvc"}
    /\ stage # "idle" => outcome = "none"
    /\ stage # "idle" \/ outcome # "none" => registered > 0 /\ obj \in Objects
    /\ stage = "whitelist" => tree = obj.tree

\* Only listed objects are let through.
Chosen ==
    /\ stage \in {"mapping", "delete", "pvc"} \/ outcome = "passed" => Listed(written, obj)
    /\ outcome = "blocked" => ~Listed(written, obj) \/ obj.claim

BeforeDeletion == stage \in {"mapping", "delete"}

\* The entries that are left belong to the mapping that the filter is at, which
\* is one for the kind of the object.
AtRule ==
    BeforeDeletion =>
      /\ mapping \in 0..Len(written.mappings)
      /\ left # {} => mapping \in KindMappings /\ left \subseteq written.mappings[mapping].entries
      /\ stage = "delete" => left = {} /\ mapping = Len(written.mappings)

MappedContent == BeforeDeletion => ContentOf(tree, obj.tree)

\* The filter has applied rule r.
Done(r) == r[1] < mapping \/ (r[1] = mapping /\ r[2] \notin left)

\* What no rule has reached is as it came.
Unreached ==
    BeforeDeletion => \A q \in Positions :
      (\A r \in Rules : Done(r) => ~Reaches(r, q)) =>
        NestedField(tree, q) = NestedField(obj.tree, q)

\* What only one rule reaches is mapped when that rule is done.
Applied ==
    BeforeDeletion => \A r \in Rules : \A q \in FieldsAt(obj.tree, r[2].path) :
      Len(r[2].path) > 1 /\ Done(r) /\ (\A s \in Rules \ {r} : ~Reaches(s, q)) =>
        NestedField(tree, q) = MappedNode(r[2].rule, NestedField(obj.tree, q))

AfterDeletion == stage = "pvc" \/ outcome = "passed"

\* What the properties say of an object that passed is so from the deletion on.
DeletionsApplied == AfterDeletion => \A q \in DOMAIN tree : ~Ruled(q)

MappingsApplied ==
    AfterDeletion => \A r \in Rules : \A q \in FieldsAt(obj.tree, r[2].path) :
      /\ Len(r[2].path) > 1 /\ ~Ruled(q) /\ ~IsPrefix(Uid, q)
      /\ \A s \in Rules \ {r} : ~Reaches(s, q)
      => NestedField(tree, q) = MappedNode(r[2].rule, NestedField(obj.tree, q))

OtherwiseKept ==
    AfterDeletion => \A q \in Positions :
      (\A r \in Rules : ~Reaches(r, q)) =>
        NestedField(tree, q) \in {NestedField(obj.tree, q), Missing}

UidTaken ==
    AfterDeletion /\ Uid \in DOMAIN obj.tree =>
      (Uid \notin DOMAIN tree
         <=> Ruled(Uid) \/ (written.kindWhiteList # <<>>
                              /\ obj.kind = Last(written.kindWhiteList)))

MappingInv  == AtRule /\ MappedContent /\ Unreached /\ Applied
DeletionInv == DeletionsApplied /\ MappingsApplied /\ OtherwiseKept /\ UidTaken
IInv == Enriched /\ InFilters /\ Chosen /\ MappingInv /\ DeletionInv /\ PassedClaimIsBound

\* Where there is an object, the configuration is one that a user wrote.
LEMMA ConfigIsWritten ==
    ASSUME Enriched, registered > 0
    PROVE  /\ written \in DRFilterConfig /\ FilterConfigs \in DRFilterConfig
           /\ FilterConfigs.kindWhiteList = written.kindWhiteList
           /\ FilterConfigs.objectWhiteList = written.objectWhiteList
           /\ FilterConfigs.mappings = written.mappings
BY ConfigAssumption DEF Enriched

\* The rules for an object come from the mappings for its kind.
LEMMA RulesAre ==
    ASSUME written \in DRFilterConfig
    PROVE  /\ DOMAIN written.mappings = 1..Len(written.mappings)
           /\ Len(written.mappings) \in Nat
           /\ \A k \in DOMAIN written.mappings :
                written.mappings[k].entries \in SUBSET Entries
           /\ \A r : r \in Rules <=>
                \E k \in KindMappings : \E e \in written.mappings[k].entries : r = <<k, e>>
<1> DEFINE Mappings == [kind : AnyKind, entries : SUBSET Entries]
<1>1. written.mappings \in Seq(Mappings)
  BY DEF DRFilterConfig
<1>2. /\ Len(written.mappings) \in Nat
      /\ DOMAIN written.mappings = 1..Len(written.mappings)
  BY <1>1, LenProperties
<1>3. \A k \in DOMAIN written.mappings : written.mappings[k] \in Mappings
  BY <1>1, <1>2, ElementOfSeq
<1>4. \A r : r \in Rules <=>
        \E k \in KindMappings : \E e \in written.mappings[k].entries : r = <<k, e>>
  BY DEF Rules
<1> QED
  BY <1>2, <1>3, <1>4

\* A rule names an entry of the mapping it is in.
LEMMA RuleIsEntry ==
    ASSUME written \in DRFilterConfig, NEW r \in Rules
    PROVE  /\ r[1] \in KindMappings /\ r[1] \in 1..Len(written.mappings)
           /\ r[2] \in written.mappings[r[1]].entries
           /\ r[2] \in Entries /\ r[2].path \in Paths
           /\ r = <<r[1], r[2]>>
<1>1. PICK k \in KindMappings : \E e \in written.mappings[k].entries : r = <<k, e>>
  BY RulesAre
<1>2. PICK e \in written.mappings[k].entries : r = <<k, e>>
  BY <1>1
<1>3. k \in DOMAIN written.mappings
  BY <1>1 DEF KindMappings
<1>4. e \in Entries
  BY <1>2, <1>3, RulesAre
<1> QED
  BY <1>2, <1>3, <1>4, RulesAre DEF Entries

\* What a rule reaches it reaches through a position, and so it does what is below.
LEMMA ReachesBelow ==
    ASSUME written \in DRFilterConfig, obj \in Objects, NEW r \in Rules,
           NEW p \in Positions, NEW q \in Positions, IsPrefix(p, q), Reaches(r, p)
    PROVE  Reaches(r, q)
<1>1. PICK f \in Targets(obj.tree, r[2].path) : IsPrefix(f, p)
  BY DEF Reaches
<1>2. f \in Positions
  <2>1. DOMAIN obj.tree \subseteq Positions
    BY ObjectIsContent DEF ContentOf
  <2> QED
    BY <2>1, RuleIsEntry, TargetIsField
<1>3. IsPrefix(f, q)
  BY <1>1, <1>2, PrefixOrder DEF Positions
<1> QED
  BY <1>3 DEF Reaches

-----------------------------------------------------------------------------
(* Each step keeps the invariant.                                          *)

objectVars == <<stage, obj, tree, ruleVars, outcome>>

\* The rules for an object stay while it is in the filters.
LEMMA SameRules ==
    ASSUME written' = written, obj' = obj
    PROVE  /\ KindMappings' = KindMappings /\ Rules' = Rules
           /\ \A r, q : Reaches(r, q)' <=> Reaches(r, q)
           /\ \A q : Ruled(q)' <=> Ruled(q)
BY DEF KindMappings, Rules, Reaches, Ruled

\* What is said of the object depends on it and on what the user wrote.
LEMMA ObjectFrame ==
    ASSUME IInv, Enriched', written' = written, registered' >= registered,
           UNCHANGED objectVars
    PROVE  IInv'
<1>1. InFilters' /\ Chosen'
  BY DEF IInv, objectVars, ruleVars, InFilters, Chosen, Enriched, Listed
<1>2. MappingInv'
  BY DEF IInv, objectVars, ruleVars, MappingInv, BeforeDeletion, AtRule, MappedContent,
         Unreached, Applied, Done, Rules, KindMappings, Reaches
<1>3. DeletionInv' /\ PassedClaimIsBound'
  BY SameRules DEF IInv, objectVars, ruleVars, DeletionInv, AfterDeletion, DeletionsApplied,
                   MappingsApplied, OtherwiseKept, UidTaken, PassedClaimIsBound
<1> QED
  BY <1>1, <1>2, <1>3 DEF IInv

\* A configuration is stored before there is an object.
LEMMA UpdateKeeps ==
    ASSUME IInv, NEW c \in Configs, UpdateFilterConfigToContainer(c)
    PROVE  IInv'
<1>1. registered = 0 /\ registered' = 0 /\ FilterConfigs' = c /\ written' = c
      /\ stage' = stage /\ outcome' = outcome /\ obj' = obj
  BY DEF UpdateFilterConfigToContainer
<1>2. stage = "idle" /\ outcome = "none"
  BY <1>1 DEF IInv, InFilters
<1>3. c \in DRFilterConfig /\ c # NoConfig
  BY ConfigAssumption
<1>4. Enriched'
  BY <1>1, <1>3 DEF Enriched
<1>5. InFilters' /\ Chosen'
  BY <1>1, <1>2 DEF InFilters, Chosen
<1>6. MappingInv'
  BY <1>1, <1>2 DEF MappingInv, BeforeDeletion, AtRule, MappedContent, Unreached, Applied
<1>7. DeletionInv' /\ PassedClaimIsBound'
  BY <1>1, <1>2 DEF DeletionInv, AfterDeletion, DeletionsApplied, MappingsApplied,
                    OtherwiseKept, UidTaken, PassedClaimIsBound
<1> QED
  BY <1>4, <1>5, <1>6, <1>7 DEF IInv

\* A registration adds rules that the configuration has already, or is the first.
LEMMA RegisterKeeps ==
    ASSUME IInv, RegFilterConfigListener
    PROVE  IInv'
<1>1. /\ FilterConfigs # NoConfig /\ registered' = registered + 1 /\ written' = written
      /\ FilterConfigs' = addDefaultConfig(FilterConfigs) /\ UNCHANGED objectVars
  BY DEF RegFilterConfigListener, objectVars
<1>2. written # NoConfig /\ registered \in Nat /\ written \in Configs
  BY <1>1 DEF IInv, Enriched
<1>3. /\ FilterConfigs \in DRFilterConfig
      /\ FilterConfigs.kindWhiteList = written.kindWhiteList
      /\ FilterConfigs.objectWhiteList = written.objectWhiteList
      /\ FilterConfigs.mappings = written.mappings
      /\ Range(FilterConfigs.kindDeleteList) = Range(written.kindDeleteList)
           \cup IF registered > 0 THEN AddedOfKind(written) ELSE {}
      /\ Range(FilterConfigs.objectDeleteList) = Range(written.objectDeleteList)
           \cup IF registered > 0 THEN AddedOfObject(written) ELSE {}
  BY <1>2 DEF IInv, Enriched
<1>4. AddedOfKind(FilterConfigs) = AddedOfKind(written)
      /\ AddedOfObject(FilterConfigs) = AddedOfObject(written)
  BY <1>3 DEF AddedOfKind, AddedOfObject
<1>5. /\ FilterConfigs' \in DRFilterConfig
      /\ FilterConfigs'.kindWhiteList = written.kindWhiteList
      /\ FilterConfigs'.objectWhiteList = written.objectWhiteList
      /\ FilterConfigs'.mappings = written.mappings
      /\ Range(FilterConfigs'.kindDeleteList)
           = Range(FilterConfigs.kindDeleteList) \cup AddedOfKind(written)
      /\ Range(FilterConfigs'.objectDeleteList)
           = Range(FilterConfigs.objectDeleteList) \cup AddedOfObject(written)
  BY <1>1, <1>3, <1>4, EnrichedByDefault
<1>6. /\ Range(FilterConfigs'.kindDeleteList)
           = Range(written.kindDeleteList) \cup AddedOfKind(written)
      /\ Range(FilterConfigs'.objectDeleteList)
           = Range(written.objectDeleteList) \cup AddedOfObject(written)
  BY <1>3, <1>5
<1>7. registered' \in Nat /\ registered' > 0 /\ registered' >= registered
  BY <1>1, <1>2
<1>8. AddedOfKind(written)' = AddedOfKind(written)
      /\ AddedOfObject(written)' = AddedOfObject(written)
  BY <1>1 DEF AddedOfKind, AddedOfObject
<1>9. Enriched'
  BY <1>1, <1>2, <1>5, <1>6, <1>7, <1>8 DEF Enriched
<1> QED
  BY <1>1, <1>7, <1>9, ObjectFrame

\* The filters of an object leave the configuration.
LEMMA EnrichedStays ==
    ASSUME Enriched, UNCHANGED configVars
    PROVE  Enriched'
BY DEF Enriched, configVars, AddedOfKind, AddedOfObject

\* Nothing is said of an object that failed or panicked.
LEMMA FailureKeeps ==
    ASSUME IInv, stage # "idle", NEW o \in {"failed", "panicked"}, Finish(o)
    PROVE  IInv'
<1>1. stage' = "idle" /\ outcome' = o /\ obj' = obj /\ UNCHANGED configVars
  BY DEF Finish
<1>2. Enriched'
  BY <1>1, EnrichedStays DEF IInv
<1>3. InFilters' /\ Chosen'
  BY <1>1 DEF IInv, InFilters, Chosen, configVars
<1>4. MappingInv'
  BY <1>1 DEF MappingInv, BeforeDeletion, AtRule, MappedContent, Unreached, Applied
<1>5. DeletionInv' /\ PassedClaimIsBound'
  BY <1>1 DEF DeletionInv, AfterDeletion, DeletionsApplied, MappingsApplied, OtherwiseKept,
              UidTaken, PassedClaimIsBound
<1> QED
  BY <1>2, <1>3, <1>4, <1>5 DEF IInv

\* A step before the deletion: nothing has passed.
LEMMA NothingPassed ==
    ASSUME stage' # "pvc", outcome' # "passed"
    PROVE  DeletionInv' /\ PassedClaimIsBound'
BY DEF DeletionInv, AfterDeletion, DeletionsApplied, MappingsApplied, OtherwiseKept, UidTaken,
       PassedClaimIsBound

\* A worker takes the next object when it is done with the last one.
LEMMA TakeKeeps ==
    ASSUME IInv, NEW o \in Objects, TakeObject(o)
    PROVE  IInv'
<1>1. /\ registered > 0 /\ obj' = o /\ tree' = o.tree /\ stage' = "whitelist"
      /\ outcome' = "none" /\ UNCHANGED configVars
  BY DEF TakeObject
<1>2. Enriched'
  BY <1>1, EnrichedStays DEF IInv
<1>3. InFilters' /\ Chosen'
  BY <1>1 DEF InFilters, Chosen, configVars
<1>4. MappingInv'
  BY <1>1 DEF MappingInv, BeforeDeletion, AtRule, MappedContent, Unreached, Applied
<1> QED
  BY <1>1, <1>2, <1>3, <1>4, NothingPassed DEF IInv

\* The white list lets the object through as it came, before the first mapping.
LEMMA WhiteListKeeps ==
    ASSUME IInv, WhiteListFilter
    PROVE  IInv'
<1>1. /\ stage = "whitelist" /\ outcome = "none" /\ registered > 0 /\ obj \in Objects
      /\ tree = obj.tree
  BY DEF WhiteListFilter, IInv, InFilters
<1>2. obj' = obj /\ UNCHANGED configVars /\ mapping' = 0 /\ left' = {} /\ tree' = tree
  BY DEF WhiteListFilter, Finish, GoOn
<1>3. written' = written /\ registered' = registered /\ written \in DRFilterConfig
      /\ (Listed(FilterConfigs, obj) <=> Listed(written, obj))
  BY <1>1, <1>2, ConfigIsWritten DEF IInv, configVars, Listed
<1>4. Enriched'
  BY <1>2, EnrichedStays DEF IInv
<1>5. CASE ~Listed(FilterConfigs, obj)
  <2>1. stage' = "idle" /\ outcome' = "blocked"
    BY <1>5 DEF WhiteListFilter, Finish
  <2>2. InFilters' /\ Chosen'
    BY <1>1, <1>2, <1>3, <1>5, <2>1 DEF InFilters, Chosen, Listed
  <2>3. MappingInv'
    BY <2>1 DEF MappingInv, BeforeDeletion, AtRule, MappedContent, Unreached, Applied
  <2> QED
    BY <1>4, <2>1, <2>2, <2>3, NothingPassed DEF IInv
<1>6. CASE Listed(FilterConfigs, obj)
  <2>1. stage' = "mapping" /\ outcome' = "none"
    BY <1>1, <1>6 DEF WhiteListFilter, GoOn
  <2>2. InFilters' /\ Chosen'
    BY <1>1, <1>2, <1>3, <1>6, <2>1 DEF InFilters, Chosen, Listed
  <2>3. AtRule'
    BY <1>2, <1>3, <2>1, RulesAre DEF AtRule
  <2>4. MappedContent' /\ Unreached'
    BY <1>1, <1>2, ObjectIsContent DEF MappedContent, Unreached
  <2>5. \A r \in Rules : ~Done(r)'
    <3> SUFFICES ASSUME NEW r \in Rules PROVE ~Done(r)'
      OBVIOUS
    <3>1. r[1] \in 1..Len(written.mappings) /\ Len(written.mappings) \in Nat
      BY <1>3, RuleIsEntry, RulesAre
    <3> QED
      BY <1>2, <3>1 DEF Done
  <2>6. Applied'
    BY <1>2, <1>3, <2>5, SameRules DEF Applied
  <2> QED
    BY <1>4, <2>1, <2>2, <2>3, <2>4, <2>6, NothingPassed DEF IInv, MappingInv
<1> QED
  BY <1>5, <1>6

\* What is known in the mapping filter, and stays so until the deletion.
InMapping ==
    /\ IInv /\ stage = "mapping"
    /\ UNCHANGED <<configVars, obj, outcome>> /\ stage' \in {"mapping", "delete"}

\* So the properties of a passed object are not yet about it.
LEMMA MappingFacts ==
    ASSUME InMapping
    PROVE  /\ outcome = "none" /\ registered > 0 /\ obj \in Objects
           /\ written \in DRFilterConfig /\ written' = written /\ obj' = obj
           /\ FilterConfigs.mappings = written.mappings
           /\ Enriched' /\ InFilters' /\ Chosen' /\ DeletionInv' /\ PassedClaimIsBound'
<1>1. /\ outcome = "none" /\ registered > 0 /\ obj \in Objects /\ written' = written
      /\ obj' = obj /\ outcome' = outcome /\ stage' \in {"mapping", "delete"}
      /\ registered' = registered
  BY DEF InMapping, IInv, InFilters, configVars
<1>2. written \in DRFilterConfig /\ FilterConfigs.mappings = written.mappings
  BY <1>1, ConfigIsWritten DEF InMapping, IInv
<1>3. Enriched'
  BY EnrichedStays DEF InMapping, IInv
<1>4. InFilters' /\ Chosen'
  BY <1>1 DEF InMapping, IInv, InFilters, Chosen, Listed
<1> QED
  BY <1>1, <1>2, <1>3, <1>4, NothingPassed

\* Going from one mapping to the next, or out of the last, leaves the same rules
\* done and the content as it is.
LEMMA SameRulesDone ==
    ASSUME InMapping, tree' = tree, AtRule', \A r \in Rules : Done(r)' <=> Done(r)
    PROVE  IInv'
<1>1. MappedContent'
  BY MappingFacts DEF InMapping, IInv, MappingInv, MappedContent, BeforeDeletion
<1>2. Unreached'
  BY MappingFacts, SameRules DEF InMapping, IInv, MappingInv, Unreached, BeforeDeletion
<1>3. Applied'
  BY MappingFacts, SameRules DEF InMapping, IInv, MappingInv, Applied, BeforeDeletion
<1> QED
  BY <1>1, <1>2, <1>3, MappingFacts DEF IInv, MappingInv

\* The next mapping: all its entries are left, if it is for the kind of the object.
LEMMA NextMappingKeeps ==
    ASSUME IInv, NextMapping
    PROVE  IInv'
<1> DEFINE m == FilterConfigs.mappings[mapping + 1]
<1>1. stage = "mapping" /\ left = {} /\ mapping' = mapping + 1
      /\ mapping < Len(FilterConfigs.mappings)
      /\ left' = IF m.kind = obj.kind THEN m.entries ELSE {}
  BY DEF NextMapping
<1>2. CASE m.kind = NoKind
  BY <1>1, <1>2, FailureKeeps DEF NextMapping
<1>3. CASE m.kind # NoKind
  <2>1. stage' = "mapping" /\ tree' = tree /\ UNCHANGED <<obj, outcome, configVars>>
    BY <1>3 DEF NextMapping, GoOn
  <2>2. InMapping
    BY <1>1, <2>1 DEF InMapping
  <2>3. /\ written \in DRFilterConfig /\ m = written.mappings[mapping + 1]
        /\ mapping \in 0..Len(written.mappings) /\ mapping < Len(written.mappings)
        /\ Len(written.mappings) \in Nat
        /\ DOMAIN written.mappings = 1..Len(written.mappings)
    BY <1>1, <2>2, MappingFacts, RulesAre DEF IInv, MappingInv, AtRule, BeforeDeletion
  <2>4. mapping + 1 \in KindMappings <=> m.kind = obj.kind
    BY <2>3 DEF KindMappings
  <2>5. AtRule'
    BY <1>1, <2>1, <2>2, <2>3, <2>4, MappingFacts, SameRules DEF AtRule, BeforeDeletion
  <2>6. ASSUME NEW r \in Rules PROVE Done(r)' <=> Done(r)
    <3>1. r[1] \in KindMappings /\ r[1] \in Nat /\ mapping \in Nat
          /\ r[2] \in written.mappings[r[1]].entries
      BY <2>3, RuleIsEntry
    <3>2. CASE r[1] = mapping + 1
      BY <1>1, <2>3, <2>4, <3>1, <3>2 DEF Done
    <3>3. CASE r[1] # mapping + 1
      BY <1>1, <3>1, <3>3 DEF Done
    <3> QED
      BY <3>2, <3>3
  <2> QED
    BY <2>1, <2>2, <2>5, <2>6, SameRulesDone
<1> QED
  BY <1>2, <1>3

\* After the last mapping the object goes on to the deletion.
LEMMA MappingEndsKeeps ==
    ASSUME IInv, MappingEnds
    PROVE  IInv'
<1>1. /\ stage = "mapping" /\ left = {} /\ mapping = Len(FilterConfigs.mappings)
      /\ stage' = "delete" /\ tree' = tree /\ UNCHANGED <<obj, outcome, configVars>>
      /\ mapping' = mapping /\ left' = left
  BY DEF MappingEnds, GoOn, ruleVars
<1>2. InMapping
  BY <1>1 DEF InMapping
<1>3. AtRule'
  BY <1>1, <1>2, MappingFacts DEF InMapping, IInv, MappingInv, AtRule, BeforeDeletion
<1>4. \A r \in Rules : Done(r)' <=> Done(r)
  BY <1>1 DEF Done
<1> QED
  BY <1>1, <1>2, <1>3, <1>4, SameRulesDone

\* Applying a rule: elsewhere the content stays, and a field that no other rule
\* reaches has not been changed before and is changed as the rule says.
LEMMA IteratePathKeeps ==
    ASSUME IInv, NEW e \in left, iteratePath(e)
    PROVE  IInv'
<1> DEFINE fields == Targets(tree, e.path)
           failed == WrongType(tree, e.path) \/ \E q \in fields : SettingFails(tree, e.rule, q)
           rule   == <<mapping, e>>
           after  == setMappingValue(tree, e.rule, fields)
<1>1. stage = "mapping" /\ left' = left \ {e} /\ mapping' = mapping
  BY DEF iteratePath
<1>2. CASE Panics(tree, e.path)
  BY <1>1, <1>2, FailureKeeps DEF iteratePath
<1>3. CASE ~Panics(tree, e.path) /\ failed
  BY <1>1, <1>3, FailureKeeps DEF iteratePath
<1>4. CASE ~Panics(tree, e.path) /\ ~failed
  <2>1. stage' = "mapping" /\ tree' = after /\ UNCHANGED <<obj, outcome, configVars>>
    BY <1>4 DEF iteratePath, GoOn
  <2>2. InMapping
    BY <1>1, <2>1 DEF InMapping
  <2>3. /\ written \in DRFilterConfig /\ obj \in Objects /\ written' = written /\ obj' = obj
    BY <2>2, MappingFacts
  <2>4. /\ mapping \in 0..Len(written.mappings) /\ Len(written.mappings) \in Nat
        /\ mapping \in KindMappings /\ left \subseteq written.mappings[mapping].entries
        /\ ContentOf(tree, obj.tree)
    BY <1>1, <2>3, RulesAre DEF IInv, MappingInv, AtRule, MappedContent, BeforeDeletion
  <2>5. rule \in Rules /\ e \in Entries /\ e.path \in Paths
    <3>1. rule \in Rules
      BY <2>3, <2>4, RulesAre
    <3> QED
      BY <2>3, <3>1, RuleIsEntry
  <2>6. /\ DOMAIN tree \subseteq Positions /\ DOMAIN obj.tree \subseteq Positions
        /\ fields \in SUBSET Positions /\ fields \subseteq Targets(obj.tree, e.path)
    BY <2>3, <2>4, <2>5, TargetIsField, TargetsOfSource, ObjectIsContent DEF ContentOf
  <2>7. \A r \in Rules : Done(r)' <=> Done(r) \/ r = rule
    <3> SUFFICES ASSUME NEW r \in Rules PROVE Done(r)' <=> Done(r) \/ r = rule
      OBVIOUS
    <3>1. r = <<r[1], r[2]>> /\ r[1] \in Nat /\ mapping \in Nat
      BY <2>3, <2>4, RuleIsEntry
    <3>2. r = rule <=> r[1] = mapping /\ r[2] = e
      BY <3>1
    <3> QED
      BY <1>1, <3>1, <3>2 DEF Done
  <2>8. AtRule'
    BY <1>1, <2>1, <2>3, <2>4, SameRules DEF AtRule, BeforeDeletion
  <2>9. MappedContent'
    <3>1. ContentOf(after, obj.tree)
      BY <1>4, <2>4, <2>5, SetKeepsContent
    <3> QED
      BY <2>1, <2>3, <3>1 DEF MappedContent
  <2>10. ASSUME NEW q \in Positions, ~Reaches(rule, q)
         PROVE  NestedField(after, q) = NestedField(tree, q)
    <3>1. \A f \in fields : ~IsPrefix(f, q)
      BY <2>6, <2>10 DEF Reaches
    <3> QED
      BY <2>6, <3>1, SetFrame
  <2>11. Unreached'
    <3> SUFFICES ASSUME NEW q \in Positions, \A r \in Rules : Done(r)' => ~Reaches(r, q)
                 PROVE  NestedField(after, q) = NestedField(obj.tree, q)
      BY <2>1, <2>3, SameRules DEF Unreached
    <3>1. ~Reaches(rule, q) /\ \A r \in Rules : Done(r) => ~Reaches(r, q)
      BY <2>5, <2>7
    <3> QED
      BY <1>1, <2>10, <3>1 DEF IInv, MappingInv, Unreached, BeforeDeletion
  <2>12. Applied'
    <3> SUFFICES ASSUME NEW r \in Rules, NEW q \in FieldsAt(obj.tree, r[2].path),
                        Len(r[2].path) > 1, Done(r)', \A s \in Rules \ {r} : ~Reaches(s, q)
                 PROVE  NestedField(after, q)
                          = MappedNode(r[2].rule, NestedField(obj.tree, q))
      BY <2>1, <2>3, SameRules DEF Applied
    <3>1. q \in Positions
      <4>1. r[2].path \in Paths
        BY <2>3, RuleIsEntry
      <4>2. PICK p \in DOMAIN obj.tree : q = Append(p, Last(r[2].path))
        BY DEF FieldsAt
      <4> QED
        BY <2>6, <4>1, <4>2, FrontOfPath, AppendProperties DEF Positions
    <3>2. CASE r # rule
      BY <1>1, <2>5, <2>7, <2>10, <3>1, <3>2 DEF IInv, MappingInv, Applied, BeforeDeletion
    <3>3. CASE r = rule
      <4>1. \A s \in Rules : Done(s) => ~Reaches(s, q)
        <5>1. ~Done(rule)
          BY <2>4 DEF Done
        <5> QED
          BY <3>3, <5>1
      <4>2. \A p \in Positions : IsPrefix(p, q) => NestedField(tree, p) = NestedField(obj.tree, p)
        <5> SUFFICES ASSUME NEW p \in Positions, IsPrefix(p, q)
                     PROVE  NestedField(tree, p) = NestedField(obj.tree, p)
          OBVIOUS
        <5>1. \A s \in Rules : Done(s) => ~Reaches(s, p)
          BY <2>3, <3>1, <4>1, ReachesBelow
        <5> QED
          BY <1>1, <5>1 DEF IInv, MappingInv, Unreached, BeforeDeletion
      <4>3. r[2] = e
        BY <3>3
      <4>4. q \in fields
        BY <2>5, <2>6, <4>2, <4>3, FieldIsTarget
      <4>5. \A f \in fields : IsPrefix(f, q) => f = q
        BY <2>5, <2>6, <4>4, TargetsApart
      <4>6. ~SettingFails(tree, e.rule, q)
        BY <1>4, <4>4
      <4>7. NestedField(after, q) = MappedNode(e.rule, NestedField(tree, q))
        BY <2>4, <2>6, <4>4, <4>5, <4>6, SetAt
      <4>8. NestedField(tree, q) = NestedField(obj.tree, q)
        BY <3>1, <4>2, PrefixOrder DEF Positions
      <4> QED
        BY <4>3, <4>7, <4>8
    <3> QED
      BY <3>2, <3>3
  <2> QED
    BY <2>2, <2>8, <2>9, <2>11, <2>12, MappingFacts DEF IInv, MappingInv
<1> QED
  BY <1>2, <1>3, <1>4

\* The deletion takes what the user says, and the uid of the last kind listed.
LEMMA DeletionKeeps ==
    ASSUME IInv, VariableDeleteFilter
    PROVE  IInv'
<1> DEFINE paths == DeletedPaths(FilterConfigs, obj)
           after == doDeleteVariables(tree, paths)
<1>1. stage = "delete"
  BY DEF VariableDeleteFilter
<1>2. CASE DeletionPanics(FilterConfigs)
  BY <1>1, <1>2, FailureKeeps DEF VariableDeleteFilter
<1>3. CASE ~DeletionPanics(FilterConfigs)
  <2>1. stage' = "pvc" /\ tree' = after /\ UNCHANGED <<obj, outcome, configVars>>
    BY <1>3 DEF VariableDeleteFilter, GoOn
  <2>2. /\ outcome = "none" /\ registered > 0 /\ obj \in Objects /\ Enriched
        /\ written' = written /\ obj' = obj /\ outcome' = outcome /\ registered' = registered
        /\ written \in DRFilterConfig
    BY <1>1, <2>1, ConfigIsWritten DEF IInv, InFilters, configVars
  <2>3. /\ left = {} /\ mapping = Len(written.mappings) /\ Len(written.mappings) \in Nat
        /\ ContentOf(tree, obj.tree)
    BY <1>1, <2>2, RulesAre DEF IInv, MappingInv, AtRule, MappedContent, BeforeDeletion
  <2>4. \A r \in Rules : Done(r)
    BY <2>2, <2>3, RuleIsEntry DEF Done
  <2>5. \A p : p \in paths <=>
          \/ p \in DeletedPaths(written, obj)
          \/ p = Uid /\ written.kindWhiteList # <<>> /\ obj.kind = Last(written.kindWhiteList)
    BY <2>2, EffectiveDeletion
  <2>6. \A q : /\ NestedField(after, q) \in {NestedField(tree, q), Missing}
               /\ q \in DOMAIN after <=> q \in DOMAIN tree /\ \A p \in paths : ~IsPrefix(p, q)
               /\ (\A p \in paths : ~IsPrefix(p, q)) =>
                    NestedField(after, q) = NestedField(tree, q)
    BY DeletionFrame
  <2>7. Enriched' /\ InFilters' /\ Chosen'
    BY <1>1, <2>1, <2>2, EnrichedStays DEF IInv, InFilters, Chosen, Listed
  <2>8. MappingInv'
    BY <2>1 DEF MappingInv, BeforeDeletion, AtRule, MappedContent, Unreached, Applied
  <2>9. DeletionsApplied'
    <3>1. \A q \in DOMAIN after : ~Ruled(q)
      BY <2>5, <2>6 DEF Ruled
    <3> QED
      BY <2>1, <2>2, <3>1, SameRules DEF DeletionsApplied
  <2>10. MappingsApplied'
    <3> SUFFICES ASSUME NEW r \in Rules, NEW q \in FieldsAt(obj.tree, r[2].path),
                        Len(r[2].path) > 1, ~Ruled(q), ~IsPrefix(Uid, q),
                        \A s \in Rules \ {r} : ~Reaches(s, q)
                 PROVE  NestedField(after, q)
                          = MappedNode(r[2].rule, NestedField(obj.tree, q))
      BY <2>1, <2>2, SameRules DEF MappingsApplied
    <3>1. NestedField(tree, q) = MappedNode(r[2].rule, NestedField(obj.tree, q))
      BY <1>1, <2>4 DEF IInv, MappingInv, Applied, BeforeDeletion
    <3>2. \A p \in paths : ~IsPrefix(p, q)
      BY <2>5 DEF Ruled
    <3> QED
      BY <2>6, <3>1, <3>2
  <2>11. OtherwiseKept'
    <3> SUFFICES ASSUME NEW q \in Positions, \A r \in Rules : ~Reaches(r, q)
                 PROVE  NestedField(after, q) \in {NestedField(obj.tree, q), Missing}
      BY <2>1, <2>2, SameRules DEF OtherwiseKept
    <3>1. NestedField(tree, q) = NestedField(obj.tree, q)
      BY <1>1 DEF IInv, MappingInv, Unreached, BeforeDeletion
    <3> QED
      BY <2>6, <3>1
  <2>12. UidTaken'
    <3> SUFFICES ASSUME Uid \in DOMAIN obj.tree
                 PROVE  Uid \notin DOMAIN after
                          <=> Ruled(Uid) \/ (written.kindWhiteList # <<>>
                                               /\ obj.kind = Last(written.kindWhiteList))
      BY <2>1, <2>2, SameRules DEF UidTaken
    <3>1. Uid \in DOMAIN tree
      BY <2>3 DEF ContentOf
    <3>2. Uid \notin DOMAIN after <=> \E p \in paths : IsPrefix(p, Uid)
      BY <2>6, <3>1
    <3>3. IsPrefix(Uid, Uid)
      BY PrefixOrder, UidIsPosition DEF Positions
    <3> QED
      BY <2>5, <3>2, <3>3 DEF Ruled
  <2>13. PassedClaimIsBound'
    BY <2>2 DEF PassedClaimIsBound
  <2> QED
    BY <2>7, <2>8, <2>9, <2>10, <2>11, <2>12, <2>13 DEF IInv, DeletionInv
<1> QED
  BY <1>2, <1>3

\* The last filter passes a claim only with a volume, which no rule has changed.
LEMMA PvcKeeps ==
    ASSUME IInv, PVCFilter
    PROVE  IInv'
<1>1. /\ stage = "pvc" /\ stage' = "idle" /\ obj' = obj /\ tree' = tree
      /\ UNCHANGED configVars
      /\ outcome' = IF PvcFilterPasses(obj, tree) THEN "passed" ELSE "blocked"
  BY DEF PVCFilter, Finish
<1>2. /\ outcome = "none" /\ registered > 0 /\ obj \in Objects /\ written' = written
      /\ registered' = registered /\ Listed(written, obj)
  BY <1>1 DEF IInv, InFilters, Chosen, configVars
<1>3. Enriched'
  BY <1>1, EnrichedStays DEF IInv
<1>4. outcome' = "blocked" => obj.claim
  BY <1>1 DEF PvcFilterPasses
<1>5. InFilters' /\ Chosen'
  BY <1>1, <1>2, <1>4 DEF InFilters, Chosen, Listed
<1>6. MappingInv'
  BY <1>1 DEF MappingInv, BeforeDeletion, AtRule, MappedContent, Unreached, Applied
<1>7. DeletionInv'
  BY <1>1, <1>2, SameRules DEF IInv, DeletionInv, AfterDeletion, DeletionsApplied,
                               MappingsApplied, OtherwiseKept, UidTaken
<1>8. PassedClaimIsBound'
  <2> SUFFICES ASSUME outcome' = "passed", obj.claim
               PROVE  /\ NestedString(tree, Volume) # ""
                      /\ (\A r \in Rules : ~Reaches(r, Volume)) =>
                           NestedField(tree, Volume) = NestedField(obj.tree, Volume)
    BY <1>1, <1>2, SameRules DEF PassedClaimIsBound
  <2>1. NestedString(tree, Volume) # ""
    BY <1>1 DEF PvcFilterPasses
  <2>2. NestedField(tree, Volume).t = "str"
    BY <2>1 DEF NestedString
  <2>3. NestedField(tree, Volume) # Missing
    <3>1. Missing.t # "str"
      BY DEF Missing, Node
    <3> QED
      BY <2>2, <3>1
  <2> QED
    BY <1>1, <2>1, <2>3, UidIsPosition DEF IInv, DeletionInv, OtherwiseKept, AfterDeletion
<1> QED
  BY <1>3, <1>5, <1>6, <1>7, <1>8 DEF IInv

-----------------------------------------------------------------------------
(* The theorems.                                                           *)

\* The invariant holds at the start and is kept by each step.
LEMMA FiltersInvariant == Spec => []IInv
<1>1. Init => IInv
  <2> SUFFICES ASSUME Init PROVE IInv
    OBVIOUS
  <2>1. stage = "idle" /\ outcome = "none" /\ registered = 0
        /\ written = NoConfig /\ FilterConfigs = NoConfig
    BY DEF Init
  <2>2. Enriched /\ InFilters /\ Chosen
    BY <2>1 DEF Enriched, InFilters, Chosen
  <2>3. MappingInv
    BY <2>1 DEF MappingInv, BeforeDeletion, AtRule, MappedContent, Unreached, Applied
  <2>4. DeletionInv /\ PassedClaimIsBound
    BY <2>1 DEF DeletionInv, AfterDeletion, DeletionsApplied, MappingsApplied, OtherwiseKept,
                UidTaken, PassedClaimIsBound
  <2> QED
    BY <2>2, <2>3, <2>4 DEF IInv
<1>2. IInv /\ [Next]_vars => IInv'
  <2> SUFFICES ASSUME IInv, [Next]_vars PROVE IInv'
    OBVIOUS
  <2>1. ASSUME NEW c \in Configs, UpdateFilterConfigToContainer(c) PROVE IInv'
    BY <2>1, UpdateKeeps
  <2>2. CASE RegFilterConfigListener
    BY <2>2, RegisterKeeps
  <2>3. ASSUME NEW o \in Objects, TakeObject(o) PROVE IInv'
    BY <2>3, TakeKeeps
  <2>4. CASE WhiteListFilter
    BY <2>4, WhiteListKeeps
  <2>5. CASE NextMapping
    BY <2>5, NextMappingKeeps
  <2>6. ASSUME NEW e \in left, iteratePath(e) PROVE IInv'
    BY <2>6, IteratePathKeeps
  <2>7. CASE MappingEnds
    BY <2>7, MappingEndsKeeps
  <2>8. CASE VariableDeleteFilter
    BY <2>8, DeletionKeeps
  <2>9. CASE PVCFilter
    BY <2>9, PvcKeeps
  <2>10. CASE UNCHANGED vars
    <3>1. UNCHANGED configVars /\ UNCHANGED objectVars
      BY <2>10 DEF vars, configVars, objectVars
    <3>2. Enriched' /\ written' = written /\ registered' >= registered
      BY <3>1, EnrichedStays DEF IInv, Enriched, configVars
    <3> QED
      BY <3>1, <3>2, ObjectFrame
  <2> QED
    BY <2>1, <2>2, <2>3, <2>4, <2>5, <2>6, <2>7, <2>8, <2>9, <2>10 DEF Next, filter
<1> QED
  BY <1>1, <1>2, PTL DEF Spec

\* An object that is not listed is blocked, and a listed one is passed on unless
\* it is a claim: what is let through was on the user's list, which the default
\* rules leave alone.
THEOREM OnlyListedPass == Spec => []ListedArePassed
<1>1. IInv => ListedArePassed
  BY DEF IInv, Chosen, ListedArePassed
<1> QED
  BY <1>1, FiltersInvariant, PTL

\* A claim that is passed on names a volume, its own if no rule reaches it: a
\* field that no rule reaches is kept or deleted, and the last filter reads what
\* is left.
THEOREM ClaimsKeepTheirVolume == Spec => []PassedClaimIsBound
<1>1. IInv => PassedClaimIsBound
  BY DEF IInv
<1> QED
  BY <1>1, FiltersInvariant, PTL

\* The user's rules hold of an object that passed, whatever workers registered
\* meanwhile and in whatever order its rules were applied: what one rule alone
\* reaches has its old value until then, and the map it is in is still there.
THEOREM WrittenRulesApply == Spec => []UserRulesApply
<1>1. IInv => UserRulesApply
  BY DEF IInv, DeletionInv, DeletionsApplied, MappingsApplied, AfterDeletion, UserRulesApply
<1> QED
  BY <1>1, FiltersInvariant, PTL

\* The last kind listed loses its uid to the default rules, and no other kind
\* does: each worker's registration adds the same two rules.
THEOREM UidOfLastKind == Spec => []UidKept
<1>1. IInv => UidKept
  BY DEF IInv, DeletionInv, UidTaken, AfterDeletion, UidKept
<1> QED
  BY <1>1, FiltersInvariant, PTL

=============================================================================
