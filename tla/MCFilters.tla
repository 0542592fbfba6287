------------------------------- MODULE MCFilters -------------------------------
(***************************************************************************)
(* An instance of Filters for TLC: two kinds of workload, with a list of   *)
(* containers in their specification, and bound and unbound claims; and    *)
(* the walk of iteratePath call by call, with which the sets Visited and   *)
(* Targets are compared on every path of up to four components.            *)
(***************************************************************************)
EXTENDS Filters

CONSTANTS deploy, job, pvc, a, b

MCFields == {"metadata", "uid", "app", "spec", "volumeName", "replicas", "containers",
             "image", "ports"}
MCIndices == {"#0", "#1"}
MCValues == {"", "uid", "old", "new", "other", "volume", "0", "1", "many", "true"}
MCParses == [int |-> {"0", "1"}, float |-> {"0", "1"}, bool |-> {"0", "1", "true"}]

Str(x) == Node("str", x)
AMap   == Node("map", "")
AList  == Node("list", "")

\* Content of an object whose metadata has a uid.
Content ==
    <<>> :> AMap @@ <<"metadata">> :> AMap @@ <<"spec">> :> AMap
      @@ <<"metadata", "uid">> :> Str("uid") @@ <<"metadata", "app">> :> Str("old")

\* Two containers, the first with ports.
Container(i) == <<"spec", "containers", i>>
Workload(image) ==
    Content @@ <<"spec", "replicas">> :> Node("int", "1") @@ <<"spec", "containers">> :> AList
      @@ Container("#0") :> AMap @@ Append(Container("#0"), "image") :> Str(image)
      @@ Container("#1") :> AMap @@ Append(Container("#1"), "image") :> Str("other")
      @@ Append(Container("#0"), "ports") :> AList
      @@ Container("#0") \o <<"ports", "#0">> :> Node("int", "1")

Claim(volume) == Content @@ <<"spec", "volumeName">> :> Str(volume)

Obj(k, n, claim, content) == [kind |-> k, name |-> n, claim |-> claim, tree |-> content]

MCObjects ==
    {Obj(deploy, a, FALSE, Workload("old")), Obj(deploy, b, FALSE, Workload("other")),
     Obj(job, a, FALSE, Workload("old")),
     Obj(pvc, a, TRUE, Claim("volume")), Obj(pvc, b, TRUE, Claim(""))}

Rule(type, from, to) == [type |-> type, from |-> from, to |-> to]
Entry(path, rule) == [path |-> path, rule |-> rule]

Image    == Entry(<<"spec", "containers", "image">>, Rule("str", "old", "new"))
AnyImage == Entry(<<"spec", "containers", "app", "image">>, Rule("str", "new", "other"))
Replicas == Entry(<<"spec", "replicas">>, Rule("int", "", "0"))
App      == Entry(<<"metadata", "app">>, Rule("str", "old", "new"))
AppAgain == Entry(<<"metadata", "app">>, Rule("str", "new", "other"))
Wrong    == Entry(<<"spec", "replicas">>, Rule("int", "", "many"))
TooShort == Entry(<<"spec">>, Rule("str", "old", "new"))
Rebind   == Entry(<<"spec", "volumeName">>, Rule("str", "volume", "other"))

Config(kinds, names, mappings, deletes) ==
    [kindWhiteList |-> kinds, objectWhiteList |-> names, mappings |-> mappings,
     kindDeleteList |-> deletes, objectDeleteList |-> <<>>]
DeleteOfObject(c, k, n, paths) ==
    [c EXCEPT !.objectDeleteList = <<[kind |-> k, name |-> n, paths |-> paths]>>]

For(k, entries) == [kind |-> k, entries |-> entries]
Del(k, paths) == [kind |-> k, paths |-> paths]

\* A white list of objects.
MCObjectConfigs == {Config(<<job>>, <<a>>, <<>>, <<>>)}

MCConfigs ==
    {Config(<<deploy, job>>, <<>>, <<For(deploy, {Image, Replicas}), For(job, {App})>>,
            <<Del(deploy, {<<"metadata", "app">>})>>),
     Config(<<pvc, deploy>>, <<>>, <<For(deploy, {Image, Wrong})>>,
            <<Del(pvc, {<<"spec", "volumeName">>})>>),
     DeleteOfObject(
       Config(<<deploy, pvc>>, <<>>, <<For(deploy, {App, Replicas}), For(pvc, {Rebind})>>, <<>>),
       deploy, b, {<<"metadata", "app">>}),
     Config(<<job, deploy, pvc>>, <<>>,
            <<For(job, {Image, AnyImage}), For(deploy, {App, Replicas}), For(deploy, {AppAgain})>>,
            <<Del(job, {<<"metadata">>})>>),
     Config(<<job>>, <<>>, <<For(job, {TooShort})>>, <<>>)}
       \cup MCObjectConfigs

-----------------------------------------------------------------------------
(* iteratePath as the code makes its calls, for the value at position "at".  *)

Children(node, at) == {q \in DOMAIN node : Len(q) = Len(at) + 1 /\ IsPrefix(at, q)}

Outcomes(results) ==
    [fields |-> UNION {r.fields : r \in results},
     error  |-> \E r \in results : r.error,
     panic  |-> \E r \in results : r.panic]

Set(q)  == [fields |-> {q}, error |-> FALSE, panic |-> FALSE]
AnError == [fields |-> {}, error |-> TRUE, panic |-> FALSE]
APanic  == [fields |-> {}, error |-> FALSE, panic |-> TRUE]

RECURSIVE Walk(_, _, _)
Walk(node, at, path) ==
    CASE node[at].t = "map" /\ path = <<>> -> APanic
      [] node[at].t = "map" /\ Len(path) = 1 -> Set(Append(at, path[1]))
      [] node[at].t = "map" /\ Len(path) > 1 ->
           IF Append(at, path[1]) \notin DOMAIN node THEN Outcomes({})
           ELSE Walk(node, Append(at, path[1]), Tail(path))
      [] node[at].t = "list" ->
           Outcomes({CASE path = <<>> -> APanic
                       [] Len(path) = 1 ->
                            IF node[q].t = "map" THEN Set(Append(q, path[1])) ELSE AnError
                       [] OTHER -> Walk(node, q, Tail(path)) : q \in Children(node, at)})
      [] OTHER -> AnError

Out(node, path) ==
    IF <<path[1]>> \in DOMAIN node THEN Walk(node, <<path[1]>>, Tail(path)) ELSE Outcomes({})

\* On every path the walk panics, fails, and sets the fields that Filters says.
ASSUME WalkIsVisited ==
    \A o \in MCObjects : \A path \in UNION {[1..n -> MCFields] : n \in 1..4} :
      LET walk == Out(o.tree, path)
      IN /\ walk.panic = Panics(o.tree, path)
         /\ walk.error = WrongType(o.tree, path)
         /\ walk.fields = Targets(o.tree, path)
================================================================================
