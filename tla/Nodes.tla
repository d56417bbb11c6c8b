------------------------------- MODULE Nodes -------------------------------
(* The nodes the containers of the kernel link by pointers.                *)
EXTENDS Integers

CONSTANTS
    Node,       \* the nodes in the memory of an allocator
    Null        \* a null pointer

ASSUME NullAssumption == Null \notin Node

Link == Node \cup {Null}
=============================================================================
