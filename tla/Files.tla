------------------------------- MODULE Files --------------------------------
(***************************************************************************)
(* The virtual file system, kernel/fs.zig, over RAM disks,                 *)
(* kernel/fs/RamDisk.zig: the tree of nodes with a second disk mounted in  *)
(* it, resolution of paths, and each process's open files and current      *)
(* directory (Submanager, and Manager.set_cwd of kernel/threading.zig).    *)
(*                                                                         *)
(* System calls run with interrupts off, so that each is one step.  A call *)
(* that only returns an error changes nothing and has no step.  What a     *)
(* file should hold, text, is the model's own.                             *)
(***************************************************************************)
EXTENDS Paths, PageFile, Integers

CONSTANTS
    Node,               \* bound: the nodes there is memory for
    DiskRoot, RamRoot,  \* the roots of the first disk and of the other one
    Process,
    Byte,
    None, Free, Garbled,
    Path,               \* bound: the paths that are asked for
    Data,               \* bound: what is written at a time
    SeekOffset,         \* bound: the offsets of seeks
    MaxBytes,           \* bound: the bytes of a file, and a position in it
    MaxOpens            \* bound: how often a process opens a file

Entry == [name : Name, node : Node]
NodeType == [kind : {"file", "directory"}, parent : Node, entries : Seq(Entry),
             mounted : {None, RamRoot}, rc : Nat, pages : Seq(Seq(Byte)), total : Nat]

ASSUME FilesAssumption ==
    /\ IsFiniteSet(Node) /\ DiskRoot \in Node /\ RamRoot \in Node /\ DiskRoot # RamRoot
    /\ {".", ".."} \cap Name = {}
    /\ {"NotADirectory", "FileNotFound"} \cap (Node \cup {None}) = {}
    /\ \A p \in Path : /\ p.components \in Seq(Component)
                       /\ p.absolute \in BOOLEAN /\ p.slash \in BOOLEAN
    /\ Data \subseteq Seq(Byte) \ {<<>>} /\ SeekOffset \subseteq Int
    /\ MaxBytes \in Nat /\ MaxOpens \in Nat
    /\ None \notin Node /\ Garbled \notin Seq(Byte)
    /\ Free \notin NodeType

VARIABLES
    node,       \* the nodes of both disks
    files,      \* open_files of each process
    nextId,     \* next_file_id
    cwd,
    text        \* what was written to each file, as long as it is plain

vars == <<node, files, nextId, cwd, text>>

NewNode(kind, parent) ==
    [kind |-> kind, parent |-> parent, entries |-> <<>>, mounted |-> None,
     rc |-> 0, pages |-> <<>>, total |-> 0]

NewContext(n) == [node |-> n, pos |-> 0, listing |-> None]

Init ==
    /\ node = [n \in Node |-> IF n \in {DiskRoot, RamRoot} THEN NewNode("directory", n) ELSE Free]
    /\ files = [p \in Process |-> <<>>] /\ nextId = [p \in Process |-> 0]
    /\ cwd = [p \in Process |-> <<>>]
    /\ text = [n \in Node |-> <<>>]

Live == {n \in Node : node[n] # Free}
Contexts == UNION {{files[p][id] : id \in DOMAIN files[p]} : p \in Process}

------------------------------------------------------------------------------
(* Directories and resolution of paths                                     *)

(* node_with_content.                                                      *)
Content(n) == IF node[n].mounted = None THEN n ELSE node[n].mounted

EntriesOf(n) ==
    <<[name |-> ".", node |-> n], [name |-> "..", node |-> node[n].parent]>> \o node[n].entries

(* find_in_directory: a node or an error.                                  *)
Find(n, name) ==
    LET d == Content(n)
        found == {e \in ToSet(EntriesOf(d)) : e.name = name}
    IN  IF node[d].kind # "directory" THEN "NotADirectory"
        ELSE IF found = {} THEN "FileNotFound" ELSE TheOne(found).node

StrideSlip(w, name) ==      \* ".." does not shorten the path that is reported
    LET found == Find(w.at, name)
    IN  IF w.error # None THEN w
        ELSE IF found \notin Node THEN [w EXCEPT !.error = found]
        ELSE [at |-> found, error |-> None,
              path |-> IF name = ".." THEN w.path ELSE Append(w.path, name)]

(* The loop of resolve_path_i, with the path it reports.                   *)
Stride(w, name) ==
    LET found == Find(w.at, name)
    IN  IF w.error # None THEN w
        ELSE IF found \notin Node THEN [w EXCEPT !.error = found]
        ELSE [at |-> found, error |-> None,
              path |-> IF name = ".." THEN Popped(w.path) ELSE Append(w.path, name)]

Walk(path) ==
    LET along[i \in 0 .. Len(path)] ==
           IF i = 0 THEN {[at |-> DiskRoot, error |-> None, path |-> <<>>]}
           ELSE {Stride(w, path[i]) : w \in along[i - 1]}
    IN  TheOne(along[Len(path)])

(* resolve_path: a slash at the end asks for a directory.                  *)
Resolved(p, dir) ==
    LET w == Walk(AbsolutePath(p, dir))
    IN  IF w.error = None /\ p.slash /\ node[w.at].kind # "directory"
        THEN [w EXCEPT !.error = "NotADirectory"] ELSE w

ResolvesTo(p, dir, kind) ==
    Resolved(p, dir).error = None /\ node[Resolved(p, dir).at].kind = kind

------------------------------------------------------------------------------
(* Creating nodes                                                          *)

(* put of the directory's hash map: a name that is there gets a new node.  *)
Put(entries, name, n) ==
    LET i == SelectInSeq(entries, LAMBDA e : e.name = name)
    IN  IF i = 0 THEN Append(entries, [name |-> name, node |-> n])
        ELSE [entries EXCEPT ![i].node = n]

(* create_node: the node n comes to be where the path says, or the parent  *)
(* directory is not found.                                                 *)
CanCreate(path) ==
    LET w == Walk(Popped(path))
    IN  w.error = None /\ node[Content(w.at)].kind = "directory"

Created(path, kind, n) ==
    LET d == Content(Walk(Popped(path)).at)
    IN  [node EXCEPT ![d].entries = Put(@, Filename(path), n), ![n] = NewNode(kind, d)]

(* Manager.create_node, as the tests call it: with a name that is new.     *)
CreateDirectory(p) ==
    LET path == AbsolutePath(p, <<>>)
    IN  /\ Walk(path).error = "FileNotFound" /\ CanCreate(path)
        /\ \E n \in Node \ Live : node' = Created(path, "directory", n)
        /\ UNCHANGED <<files, nextId, cwd, text>>

Mount(p) ==
    /\ ResolvesTo(p, <<>>, "directory")
    /\ node[Resolved(p, <<>>).at].mounted = None
    /\ \A n \in Live : node[n].mounted # RamRoot    \* the kernel mounts it once, at boot
    /\ \A q \in Process : nextId[q] = 0 /\ cwd[q] = <<>>
    /\ node' = [node EXCEPT ![Resolved(p, <<>>).at].mounted = RamRoot]
    /\ UNCHANGED <<files, nextId, cwd, text>>

(* unlink.  Only the tests call it, and never for what is in use: an open  *)
(* node would be freed all the same.                                       *)
InUse(n) ==
    \/ node[n].rc > 0 \/ node[n].mounted # None
    \/ \E p \in Process : Walk(cwd[p]).at = n
    \/ \E c \in Contexts : c.listing # None /\ c.listing.dir = node[n].parent

UnlinkSlip(p) ==            \* a directory need not be empty
    LET path == AbsolutePath(p, <<>>)
        w == Walk(Popped(path))
        n == Find(w.at, Filename(path))
    IN  /\ path # <<>> /\ Last(path) # ".."
        /\ w.error = None /\ n \in Node
        /\ ~InUse(n)
        /\ node' = [node EXCEPT
              ![Content(w.at)].entries = RemoveFirstMatch(@, LAMBDA e : e.name = Filename(path)),
              ![n] = Free]
        /\ text' = [text EXCEPT ![n] = <<>>]
        /\ UNCHANGED <<files, nextId, cwd>>

Unlink(p) ==
    LET path == AbsolutePath(p, <<>>)
        w == Walk(Popped(path))
        n == Find(w.at, Filename(path))
    IN  /\ path # <<>> /\ Last(path) # ".."
        /\ w.error = None /\ n \in Node
        /\ node[n].kind = "directory" => node[Content(n)].entries = <<>>
        /\ ~InUse(n)
        /\ node' = [node EXCEPT
              ![Content(w.at)].entries = RemoveFirstMatch(@, LAMBDA e : e.name = Filename(path)),
              ![n] = Free]
        /\ text' = [text EXCEPT ![n] = <<>>]
        /\ UNCHANGED <<files, nextId, cwd>>

------------------------------------------------------------------------------
(* Open files of a process                                                 *)

(* open_new_context.  The count is raised and the id used up first; then   *)
(* there may be no memory for the context.                                 *)
OpenContext(p, n, nodes) ==
    /\ nextId[p] < MaxOpens
    /\ nextId' = [nextId EXCEPT ![p] = @ + 1]
    /\ node' = [nodes EXCEPT ![n].rc = @ + 1]
    /\ \/ files' = [files EXCEPT ![p] = [id \in DOMAIN @ \cup {nextId[p]} |->
                                            IF id = nextId[p] THEN NewContext(n) ELSE @[id]]]
       \/ UNCHANGED files

(* OpenOpts say whether it is to be a directory.                           *)
Open(p, path, kind) ==
    /\ ResolvesTo(path, cwd[p], kind)
    /\ OpenContext(p, Resolved(path, cwd[p]).at, node)
    /\ UNCHANGED <<cwd, text>>

(* resolve_or_create_file.                                                 *)
OpenNew(p, path) ==
    LET l == AbsolutePath(path, cwd[p])
    IN  /\ Resolved(path, cwd[p]).error = "FileNotFound" /\ CanCreate(l)
        /\ \E n \in Node \ Live : OpenContext(p, n, Created(l, "file", n))
        /\ UNCHANGED <<cwd, text>>

CloseSlip(p, id) ==         \* the last to close a node unlinks it
    /\ id \in DOMAIN files[p]
    /\ LET n == files[p][id].node
           up == node[n].parent
       IN  node' = IF node[n].rc > 1 \/ up = n \/ node[n].entries # <<>>
                   THEN [node EXCEPT ![n].rc = IF @ > 0 THEN @ - 1 ELSE 0]
                   ELSE [node EXCEPT
                           ![up].entries = RemoveFirstMatch(@, LAMBDA e : e.node = n),
                           ![n] = Free]
    /\ files' = [files EXCEPT ![p] = [i \in DOMAIN @ \ {id} |-> @[i]]]
    /\ UNCHANGED <<nextId, cwd, text>>

Close(p, id) ==
    /\ id \in DOMAIN files[p]
    /\ node' = [node EXCEPT ![files[p][id].node].rc = IF @ > 0 THEN @ - 1 ELSE 0]
    /\ files' = [files EXCEPT ![p] = [i \in DOMAIN @ \ {id} |-> @[i]]]
    /\ UNCHANGED <<nextId, cwd, text>>

IsOpenFile(p, id) ==
    id \in DOMAIN files[p] /\ node[files[p][id].node].kind = "file"

(* Where overwriting works as one would think: the end, and the last page  *)
(* while it is not full.                                                   *)
IsPlain(t, pos) == t # Garbled /\ pos \in PageSize * (Len(t) \div PageSize) .. Len(t)

(* k is the number of turns before memory runs out; a turn needs some only *)
(* when it appends a page.                                                 *)
Write(p, id, data) ==
    /\ IsOpenFile(p, id)
    /\ LET c == files[p][id]
           f == node[c.node]
       IN  \E w \in {Written(f, c.pos, data, k) : k \in 0 .. Len(data)} :
              LET chunk == SubSeq(data, 1, Len(data) - Len(w.left))
              IN  /\ w.left # <<>> => NeedsPage(w.pages, w.pos)
                  /\ w.total <= MaxBytes /\ w.pos <= MaxBytes
                  /\ node' = [node EXCEPT ![c.node].pages = w.pages, ![c.node].total = w.total]
                  /\ files' = [files EXCEPT ![p][id].pos = w.pos]
                  /\ text' = [text EXCEPT ![c.node] =
                        IF chunk = <<>> THEN @
                        ELSE IF IsPlain(@, c.pos) THEN Overwritten(@, c.pos, chunk)
                        ELSE Garbled]
    /\ UNCHANGED <<nextId, cwd>>

Read(p, id, n) ==
    /\ IsOpenFile(p, id)
    /\ LET c == files[p][id]
       IN  files' = [files EXCEPT ![p][id].pos = ReadFrom(node[c.node].pages, c.pos, n).pos]
    /\ UNCHANGED <<node, nextId, cwd, text>>

(* dir_io_read_impl: the iterator keeps the length the directory had when  *)
(* the first read made it (and pointers into the directory's hash map,     *)
(* which are not modelled).                                                *)
ReadDirectory(p, id) ==
    /\ id \in DOMAIN files[p] /\ node[files[p][id].node].kind = "directory"
    /\ LET c == files[p][id]
           d == Content(c.node)
           listing == IF c.listing # None THEN c.listing
                      ELSE [dir |-> d, index |-> 0, len |-> Len(EntriesOf(d))]
       IN  files' = [files EXCEPT ![p][id].listing =
              [listing EXCEPT !.index = Least(@ + 1, listing.len)]]
    /\ UNCHANGED <<node, nextId, cwd, text>>

SeekType == {"FromStart", "FromHere", "FromEnd"}

(* generic_seek, without a limit.                                          *)
Seek(p, id, offset, seekType) ==
    /\ IsOpenFile(p, id)
    /\ LET c == files[p][id]
           from == CASE seekType = "FromStart" -> 0
                     [] seekType = "FromHere" -> c.pos
                     [] seekType = "FromEnd" -> node[c.node].total
       IN  /\ from + offset \in 0 .. MaxBytes
           /\ files' = [files EXCEPT ![p][id].pos = from + offset]
    /\ UNCHANGED <<node, nextId, cwd, text>>

(* The current directory becomes the path that was reported.               *)
SetCwd(p, path) ==
    /\ ResolvesTo(path, cwd[p], "directory")
    /\ cwd' = [cwd EXCEPT ![p] = Resolved(path, @).path]
    /\ UNCHANGED <<node, files, nextId, text>>

Next ==
    \/ \E path \in Path : CreateDirectory(path) \/ Mount(path) \/ Unlink(path)
    \/ \E p \in Process :
          \/ \E path \in Path : OpenNew(p, path) \/ SetCwd(p, path)
          \/ \E path \in Path, kind \in {"file", "directory"} : Open(p, path, kind)
          \/ \E id \in DOMAIN files[p] :
                \/ Close(p, id) \/ ReadDirectory(p, id)
                \/ \E data \in Data : Write(p, id, data)
                \/ \E n \in {1, PageSize + 1} : Read(p, id, n)
                \/ \E offset \in SeekOffset, t \in SeekType : Seek(p, id, offset, t)

Spec == Init /\ [][Next]_vars

------------------------------------------------------------------------------
TypeOK ==
    /\ \A n \in Live :
          /\ node[n].kind \in {"file", "directory"} /\ node[n].parent \in Node
          /\ \A i \in 1 .. Len(node[n].entries) : node[n].entries[i] \in Entry
          /\ node[n].mounted \in {None, RamRoot} /\ node[n].rc \in Nat
          /\ IsPages(node[n].pages) /\ node[n].total = Len(Bytes(node[n].pages))
    /\ \A p \in Process :
          /\ nextId[p] \in 0 .. MaxOpens /\ DOMAIN files[p] \subseteq 0 .. nextId[p] - 1
          /\ cwd[p] \in Seq(Name)
    /\ \A c \in Contexts : c.listing # None =>
          c.listing.index <= c.listing.len /\ c.listing.len <= Len(EntriesOf(c.listing.dir))

(* Creating, mounting and unlinking leave a tree: every node but a root is *)
(* an entry of one directory, once, under a name of its own, that is the   *)
(* directory ".." leads to, and going up never comes round to where it was.*)
TreeIsSound ==
    /\ TypeOK
    /\ \A d \in Live : \A i, j \in 1 .. Len(node[d].entries) :
          node[d].entries[i].name = node[d].entries[j].name => i = j
    /\ \A n \in Live \ {DiskRoot, RamRoot} :
          LET places == {at \in Live \X (1 .. Cardinality(Node)) :
                 at[2] <= Len(node[at[1]].entries) /\ node[at[1]].entries[at[2]].node = n}
          IN  Cardinality(places) = 1 /\ \A at \in places : at[1] = node[n].parent
    /\ \A S \in SUBSET (Live \ {DiskRoot, RamRoot}) : S # {} => \E n \in S : node[n].parent \notin S

(* Each file gives back what was written to it: a read from any position   *)
(* returns the bytes that were written there, however the writes were cut  *)
(* up into pages and wherever memory ran out.                              *)
ReadsReturnText ==
    \A n \in Live : text[n] # Garbled =>
       \A pos \in 0 .. Len(text[n]), k \in 1 .. PageSize + 1 :
          ReadFrom(node[n].pages, pos, k).got = SubSeq(text[n], pos + 1, Least(pos + k, Len(text[n])))

(* The path that is reported leads to where the walk led, unless it took   *)
(* ".." at the root of what is mounted.                                    *)
StaysAtMount(path) ==
    \E i \in 1 .. Len(path) :
       LET w == Walk(SubSeq(path, 1, i - 1))
       IN  path[i] = ".." /\ w.error = None /\ Content(w.at) = RamRoot
ReportsItsNode(path) ==
    LET w == Walk(path)
    IN  w.error = None =>
           Walk(w.path).error = None /\ Content(Walk(w.path).at) = Content(w.at)
AskedFor == {AbsolutePath(p, dir) : p \in Path, dir \in {cwd[q] : q \in Process}}
PathsNameNodes == \A path \in AskedFor : StaysAtMount(path) \/ ReportsItsNode(path)

(* The nodes that a walk comes to.                                         *)
Visited(path) == {Walk(SubSeq(path, 1, i)).at : i \in 0 .. Len(path)}

(* A path that names a node names the same one after every call: opening,  *)
(* creating, writing, seeking, closing and changes of directory take no    *)
(* path from anyone, and unlink and mount only those that come to the node *)
(* that is unlinked or mounted on.                                         *)
FromRoot == {AbsolutePath(p, <<>>) : p \in Path}
NamesAreStable ==
    [][ \A path \in FromRoot :
           LET w == Walk(path)
           IN  w.error = None /\ Walk(path)' # w =>
                  \E p \in Path : /\ Unlink(p) \/ Mount(p)
                                  /\ Resolved(p, <<>>).at \in Visited(path) ]_node
=============================================================================
