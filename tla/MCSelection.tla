----------------------------- MODULE MCSelection -----------------------------
(***************************************************************************)
(* Three providers: one with a wildcard and a key listed twice (its literal   *)
(* and a variable), one free and without keys, one that renames a model.      *)
(* The strategy changes with a save, which may also remove or change one.     *)
(* A boot finds nothing, or latencies, a sick provider and a pin.             *)
(***************************************************************************)
EXTENDS Selection, TLC
CONSTANTS t1, t2, s1, m1, m2, k1, k2

Symmetry == Permutations(Task)

Literal(k) == [key |-> k, env |-> None, enabled |-> TRUE, rpm |-> 0]
FromEnv(v) == [key |-> None, env |-> v, enabled |-> TRUE, rpm |-> 2]

Nvidia == [name |-> "nvidia", enabled |-> TRUE, noAuth |-> FALSE, free |-> FALSE, rpm |-> 0,
           keys |-> <<Literal(k1), FromEnv("VAR"), FromEnv("UNSET")>>, models |-> <<Wild>>,
           map |-> <<>>, weight |-> 1]
Local == [name |-> "local", enabled |-> TRUE, noAuth |-> TRUE, free |-> TRUE, rpm |-> 0,
          keys |-> <<>>, models |-> <<m1>>, map |-> <<>>, weight |-> 0]
Groq == [name |-> "groq", enabled |-> TRUE, noAuth |-> FALSE, free |-> TRUE, rpm |-> 5,
         keys |-> <<Literal(k2)>>, models |-> <<m1, m2>>,
         map |-> (m1 :> m2) @@ (Free :> m1), weight |-> 2]

Narrowed == [Groq EXCEPT !.models = <<m2>>, !.map = <<>>, !.weight = 0, !.free = FALSE]

Saved(strategy, defs) == [strategy |-> strategy, defs |-> defs]
All == <<Nvidia, Local, Groq>>
Saves ==
  {Saved(s, All) : s \in {"hybrid", "weighted_elo", "round_robin", "sticky_affinity"}}
    \cup {Saved("round_robin", <<Groq, [Nvidia EXCEPT !.enabled = FALSE], Local>>),
          Saved("least_latency", <<Nvidia, Narrowed>>)}
Ratings == ("nvidia" :> 1500) @@ ("local" :> -1) @@ ("groq" :> 1800)
Nothing == [healthy |-> [p \in Provider |-> None], latency |-> [p \in Provider |-> None],
            open |-> {}, pin |-> [s \in Session |-> None]]
Known == [healthy |-> [p \in Provider |-> p # "local"], open |-> {"local"},
          latency |-> ("nvidia" :> 10) @@ ("groq" :> 40) @@ ("local" :> None),
          pin |-> [s \in Session |-> [provider |-> "groq", expires |-> 1]]]
Found == {Nothing, Known}
\* For listings: with and without the upstream, from nothing.
TwoSaves == {Saved("round_robin", All),
             Saved("round_robin", <<Groq, [Nvidia EXCEPT !.enabled = FALSE], Local>>)}
Blank == {Nothing}
Environment == "VAR" :> k1
=============================================================================
