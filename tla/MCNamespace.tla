----------------------------- MODULE MCNamespace -----------------------------
(* A folder with a file in it beside a file, and two names.                *)
EXTENDS Namespace

CONSTANTS a, b

MCName == {a, b}
MCPaths == {<<a>>, <<b>>, <<a, b>>, <<a, Up, b>>}
MCTree ==
  [n \in 1..3 |-> CASE n = 1 -> [name |-> a, parent |-> Top, folder |-> TRUE]
                    [] n = 2 -> [name |-> b, parent |-> Top, folder |-> FALSE]
                    [] n = 3 -> [name |-> b, parent |-> 1, folder |-> FALSE]]
=============================================================================
