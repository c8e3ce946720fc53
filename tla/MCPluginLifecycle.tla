------------------------- MODULE MCPluginLifecycle -------------------------
(***************************************************************************)
(* One generation with three plugins and every dependency graph, a name    *)
(* nobody registers included, and two plugins that share a name; or two    *)
(* concurrent generations with the same scoped plugin.                     *)
(***************************************************************************)
EXTENDS PluginLifecycle, TLC

CONSTANTS a, b, c, absent, g1, g2, plain, scoped, other, double

Alphabetically == <<a, absent, b, c>>
PluginNames == plain :> a @@ scoped :> b @@ other :> c @@ double :> b

NoDependencies == [n \in {a, b, c, absent} |-> {}]
Graphs == [{a, b, c} -> SUBSET {a, b, c, absent}]

Alone ==
  {[gens |-> {g1}, entries |-> <<other, scoped, double, plain>>,
    depends |-> graph @@ NoDependencies] : graph \in Graphs}
Together ==
  {[gens |-> {g1, g2}, entries |-> <<scoped>>, depends |-> NoDependencies]}
OneByOneOrTogether == Alone \cup Together
=============================================================================
