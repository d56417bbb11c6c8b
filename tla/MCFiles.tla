------------------------------ MODULE MCFiles -------------------------------
(* Paths for Files: two names, each of the ways to write a path.           *)
EXTENDS Files

Absolute(components) == [absolute |-> TRUE, components |-> components, slash |-> FALSE]
Relative(components) == [absolute |-> FALSE, components |-> components, slash |-> FALSE]
WithSlash(p) == [p EXCEPT !.slash = TRUE]

Paths == {
    Absolute(<<"a">>), Absolute(<<"..", "a", "b", "..", "..">>), Relative(<<"b">>),
    WithSlash(Relative(<<"..", "a", ".", "b">>)) }

Writes == {<<"x">>, <<"x", "y">>}
Offsets == {-1, 1}
Spare == Permutations(Node \ {DiskRoot, RamRoot})
=============================================================================
