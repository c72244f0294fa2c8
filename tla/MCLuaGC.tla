------------------------------ MODULE MCLuaGC ------------------------------
(***************************************************************************)
(* Small heaps for LuaGC, one scene for each way objects refer to another, *)
(* and file handles with their finalizers for LuaIO: two handles and one   *)
(* FILE besides the standard ones, a program that has one of the handles   *)
(* and one iterator at a time and keeps io.stdin and io.stdout.  A         *)
(* behaviour exercises the one or the other, named by part.                *)
(***************************************************************************)
EXTENDS LuaGC, LuaIO, TLC

VARIABLE part

CONSTANTS M, G, A, B, C

\* Two tables: the globals refer to the first, the first to the second.
Tables ==
    [tt |-> (M :> "thread" @@ G :> "table" @@ A :> "table" @@ B :> "table"),
     fields |-> (M :> {"s1", "s2"} @@ G :> {"val"} @@ A :> {"val"} @@ B :> {}),
     mode |-> (M :> {} @@ G :> {} @@ A :> {} @@ B :> {}),
     gcmt |-> {}]

\* A weak table of globals over a table and a string.
Weak(m) ==
    [tt |-> (M :> "thread" @@ G :> "table" @@ A :> "table" @@ B :> "string"),
     fields |-> (M :> {"s1", "s2"} @@ G :> {"key", "val"} @@ A :> {} @@ B :> {}),
     mode |-> (M :> {} @@ G :> m @@ A :> {} @@ B :> {}),
     gcmt |-> {}]

\* A userdata that may get the metatable B, which has a __gc, and keep C.
Finalizers ==
    [tt |-> (M :> "thread" @@ G :> "table" @@ A :> "udata" @@ B :> "table" @@ C :> "table"),
     fields |-> (M :> {"s1", "s2"} @@ G :> {} @@ A :> {"meta", "env"}
                 @@ B :> {} @@ C :> {}),
     mode |-> (M :> {} @@ G :> {} @@ A :> {} @@ B :> {} @@ C :> {}),
     gcmt |-> {B}]

\* A closure over a local that holds a table.
Upvalues ==
    [tt |-> (M :> "thread" @@ G :> "table" @@ A :> "closure" @@ B :> "upval" @@ C :> "table"),
     fields |-> (M :> {"s1", "s2"} @@ G :> {} @@ A :> {"up"} @@ B :> {"v"} @@ C :> {}),
     mode |-> (M :> {} @@ G :> {} @@ A :> {} @@ B :> {} @@ C :> {}),
     gcmt |-> {}]

\* A coroutine that makes a closure over its own local.
Coroutine ==
    [tt |-> (M :> "thread" @@ G :> "table" @@ A :> "closure" @@ B :> "upval" @@ C :> "thread"),
     fields |-> (M :> {"s1"} @@ G :> {"val"} @@ A :> {"up"} @@ B :> {"v"} @@ C :> {"s1"}),
     mode |-> (M :> {} @@ G :> {} @@ A :> {} @@ B :> {} @@ C :> {}),
     gcmt |-> {}]

MCScenes ==
    {Tables, Finalizers, Upvalues, Coroutine} \union {Weak(m) : m \in (SUBSET {"k", "v"}) \ {{}}}

MCInit == part \in {"collector", "files"} /\ Init /\ luaopen_io /\ (part = "files" => scene = Tables)

CollectorPart == part = "collector" /\ Next /\ UNCHANGED <<part, ioVars>>
FilesPart == /\ part = "files" /\ ioNext /\ UNCHANGED <<part, vars>>
             /\ Cardinality(iters') <= 1 /\ Cardinality(held' \ Std) <= 1
             /\ Std \subseteq held'

MCNext == CollectorPart \/ FilesPart
MCSpec == MCInit /\ [][MCNext]_<<part, vars, ioVars>>
=============================================================================
