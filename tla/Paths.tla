------------------------------- MODULE Paths --------------------------------
(***************************************************************************)
(* Path and PathIterator of kernel/fs.zig.  A path as a caller writes it   *)
(* is a record of its components, in order, of whether it starts with a    *)
(* slash and of whether it ends with one; a path that has been resolved is *)
(* a sequence of names.                                                    *)
(***************************************************************************)
EXTENDS SequencesExt

CONSTANT Name       \* the names of files and directories

Component == Name \cup {".", ".."}

(* PathIterator.next.                                                      *)
Components(p) ==
    LET named[i \in 0 .. Len(p.components)] ==
           IF i = 0 THEN <<>>
           ELSE IF p.components[i] = "." THEN named[i - 1]
           ELSE Append(named[i - 1], p.components[i])
    IN  named[Len(p.components)]

(* path_to_list: the parent of the root is the root.                       *)
PathToList(p) ==
    LET cs == Components(p)
        i == SelectInSeq(cs, LAMBDA c : c # "..")
    IN  IF ~p.absolute THEN cs
        ELSE IF i = 0 THEN <<>> ELSE SubSeq(cs, i, Len(cs))

(* get_absolute_path.  cwd is a resolved path.                             *)
AbsolutePath(p, cwd) == IF p.absolute THEN PathToList(p) ELSE cwd \o PathToList(p)

(* pop_component, also of an empty path.                                   *)
Popped(path) == IF path = <<>> THEN <<>> ELSE Front(path)

(* filename, of a path that is absolute.                                   *)
Filename(path) == IF path = <<>> THEN "/" ELSE Last(path)
=============================================================================
