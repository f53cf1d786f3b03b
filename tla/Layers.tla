-------------------------------- MODULE Layers --------------------------------
(***************************************************************************)
(* Root file systems made of layers: the extraction of the layers of a     *)
(* pulled image (applyOneLayer in internal/registry/dockerhub), and the    *)
(* copies that an image build makes (copyDir, applyOverlayUpper in         *)
(* internal/core/image).                                                   *)
(*                                                                         *)
(* A tree maps every path of a small set to nothing, a directory or the    *)
(* content of a file or of a symbolic link.  A layer is the sequence of    *)
(* entries of its archive.  Owners, modes and times are left out.          *)
(*                                                                         *)
(* The code makes a link as it makes a file, but it follows one that is    *)
(* there (os.MkdirAll, os.Stat, os.OpenFile) to a place that may not be in *)
(* the tree.  What it does then is not modelled: no archive of module      *)
(* Image goes through a link, and Crosses names the layers that do.  Nor   *)
(* are names that end in ".tmp", through which writeFileFromTar writes a   *)
(* file: no path of an archive is another one followed by ".tmp".          *)
(***************************************************************************)
EXTENDS Naturals, Sequences, FiniteSets, SequencesExt

CONSTANTS
    Paths,      \* sequences of names, with every prefix of each
    Nothing,    \* no file
    Links       \* the contents that are symbolic links

Dir == "dir"

ASSUME PathsAssumption ==
    /\ \A p \in Paths : /\ p \in Seq(ToSet(p)) /\ Len(p) > 0
                       /\ \A n \in 1..(Len(p) - 1) : SubSeq(p, 1, n) \in Paths
    /\ Nothing # Dir /\ Links \cap {Nothing, Dir} = {}

Empty == [p \in Paths |-> Nothing]

Parents(p) == {SubSeq(p, 1, n) : n \in 1..(Len(p) - 1)}
Below(p) == {q \in Paths : p \in Parents(q)}

IsFile(node) == node # Nothing /\ node # Dir

\* A path below dev/.
InDev(p) == Len(p) > 1 /\ p[1] = "dev"

-----------------------------------------------------------------------------
\* System calls on a tree.  The state of an extraction is a tree, and whether
\* no call has failed.
RemoveAll(fs, p) == [q \in Paths |-> IF q = p \/ q \in Below(p) THEN Nothing ELSE fs[q]]

Failed(st) == [st EXCEPT !.ok = FALSE]

MkdirAll(st, dirs) ==
    IF \E q \in dirs : IsFile(st.fs[q]) THEN Failed(st)
    ELSE [st EXCEPT !.fs = [q \in Paths |-> IF q \in dirs THEN Dir ELSE st.fs[q]]]

Put(st, p, node) == [st EXCEPT !.fs = [RemoveAll(st.fs, p) EXCEPT ![p] = node]]

\* Slip: a file under an opaque directory stays.
ChildrenKept(st, p) ==
    CASE st.fs[p] = Nothing -> MkdirAll(st, Parents(p) \cup {p})
      [] st.fs[p] = Dir -> st
      [] OTHER -> Failed(st)

removeAllChildren(st, p) ==
    CASE st.fs[p] = Nothing -> MkdirAll(st, Parents(p) \cup {p})
      [] st.fs[p] = Dir -> [st EXCEPT !.fs = [RemoveAll(@, p) EXCEPT ![p] = Dir]]
      [] OTHER -> Failed(st)

\* One entry of an archive.  A special file below dev/ is skipped, and refused
\* elsewhere.
applyEntry(st, e) ==
    LET inDir == MkdirAll(st, Parents(e.path)) IN
    CASE ~st.ok -> st
      [] st.ok /\ e.kind = "whiteout" -> [st EXCEPT !.fs = RemoveAll(@, e.path)]
      [] st.ok /\ e.kind = "opaque" -> removeAllChildren(st, e.path)
      [] st.ok /\ e.kind = "dir" -> MkdirAll(st, Parents(e.path) \cup {e.path})
      [] st.ok /\ e.kind = "file" ->
            IF inDir.ok THEN Put(inDir, e.path, e.data) ELSE inDir
      [] st.ok /\ e.kind = "hardlink" ->
            IF inDir.ok /\ IsFile(RemoveAll(st.fs, e.path)[e.data])
            THEN Put(inDir, e.path, st.fs[e.data]) ELSE Failed(st)
      [] st.ok /\ e.kind = "device" -> IF InDev(e.path) THEN st ELSE Failed(st)

applyOneLayer(fs, layer) == FoldLeft(applyEntry, [ok |-> TRUE, fs |-> fs], layer)

-----------------------------------------------------------------------------
\* copyDir onto what may be there already: files are overwritten, directories
\* merged; a file in the place of a directory or the reverse is an error, and so
\* is a link in the place of anything.
copyDir(fs, from) ==
    [ok |-> \A p \in Paths : /\ from[p] = Dir => ~IsFile(fs[p])
                             /\ IsFile(from[p]) => fs[p] # Dir
                             /\ from[p] \in Links => fs[p] = Nothing,
     fs |-> [p \in Paths |-> IF from[p] = Nothing THEN fs[p] ELSE from[p]]]

\* applyCopy: a file of the build context, into the destination if that is a
\* directory, and else in its place.
applyCopy(st, dst, name, data) ==
    LET target == IF st.fs[dst] = Dir THEN Append(dst, name) ELSE dst
        inDir == MkdirAll(st, Parents(target))
    IN  IF inDir.ok /\ st.fs[target] # Dir THEN Put(inDir, target, data) ELSE Failed(st)

\* applyOverlayUpper: a walk over the upper directory of the build container.
\* It meets the whiteouts of a directory before its other entries, does not
\* replace a directory by a regular file, and skips devices: a file that a
\* command deletes is a character device in the upper directory of an overlay.
applyUpperEntry(st, e) ==
    IF st.ok /\ e.kind = "file" /\ e.data \notin Links /\ st.fs[e.path] = Dir THEN Failed(st)
    ELSE IF st.ok /\ e.kind = "opaque" /\ st.fs[e.path] = Nothing THEN st
    ELSE IF e.kind = "device" THEN st
    ELSE applyEntry(st, e)

applyOverlayUpper(fs, upper) == FoldLeft(applyUpperEntry, [ok |-> TRUE, fs |-> fs], upper)

-----------------------------------------------------------------------------
\* What layers mean: the entries of a layer, over the lower ones that no
\* whiteout, opaque directory or file of the layer hides.
Marker(e) == e.kind \in {"whiteout", "opaque"}
Leaf(e) == e.kind \in {"file", "hardlink"}

Marked(layer, kind) == {e.path : e \in {f \in ToSet(layer) : f.kind = kind}}

Own(layer, p) == {e \in ToSet(layer) : (Leaf(e) \/ e.kind = "dir") /\ e.path = p}

Implied(layer, p) ==
    \/ p \in Marked(layer, "opaque")
    \/ \E e \in ToSet(layer) : e.kind \notin {"whiteout", "device"} /\ p \in Parents(e.path)

Hidden(layer, p) ==
    \/ \E q \in Parents(p) \cup {p} : q \in Marked(layer, "whiteout")
    \/ \E q \in Parents(p) : q \in Marked(layer, "opaque") \/ \E e \in Own(layer, q) : Leaf(e)

LinkedFile(fs, layer, p) ==
    IF Own(layer, p) = {} THEN fs[p] ELSE (CHOOSE e \in Own(layer, p) : TRUE).data

OwnNode(fs, layer, p) ==
    LET e == CHOOSE e \in Own(layer, p) : TRUE IN
    CASE e.kind = "dir" -> Dir
      [] e.kind = "file" -> e.data
      [] e.kind = "hardlink" -> LinkedFile(fs, layer, e.data)

Overlay(fs, layer) ==
    [p \in Paths |-> IF Own(layer, p) # {} THEN OwnNode(fs, layer, p)
                     ELSE IF Implied(layer, p) THEN Dir
                     ELSE IF Hidden(layer, p) THEN Nothing ELSE fs[p]]

\* An archive: paths, with contents that are neither a directory nor nothing.
IsEntry(e) ==
    /\ e.kind \in {"whiteout", "opaque", "dir", "file", "hardlink", "device"}
    /\ e.path \in Paths
    /\ e.kind = "file" => IsFile(e.data)
    /\ e.kind = "hardlink" => e.data \in Paths

IsArchive(layer) == layer \in Seq(ToSet(layer)) /\ \A e \in ToSet(layer) : IsEntry(e)

\* Archives as image builders write them: a marker before what it would remove,
\* a path once, nothing in a file, a link after the file that it names.
WellFormed(layer) ==
    /\ \A i, j \in DOMAIN layer :
          i < j /\ Marker(layer[j]) /\ layer[i].kind # "whiteout" =>
              /\ layer[j].path \notin Parents(layer[i].path)
              /\ layer[j].kind = "whiteout" => layer[j].path # layer[i].path
    /\ \A i, j \in DOMAIN layer :
          i # j /\ ~Marker(layer[i]) /\ ~Marker(layer[j]) => layer[i].path # layer[j].path
    /\ \A e, f \in ToSet(layer) :
          Leaf(e) /\ f.kind # "whiteout" =>
              e.path \notin Parents(f.path) /\ (f.kind = "opaque" => e.path # f.path)
    /\ \A j \in DOMAIN layer :
          layer[j].kind = "hardlink" =>
              \E i \in DOMAIN layer : i < j /\ layer[i].kind = "file" /\ layer[i].path = layer[j].data

\* What an extraction refuses: a directory of the layer in the place of a lower
\* file that stays, and a device outside dev/.
Conflict(fs, layer) ==
    \/ \E e \in ToSet(layer) : e.kind = "device" /\ ~InDev(e.path)
    \/ \E p \in Paths :
          /\ IsFile(fs[p]) /\ ~Hidden(layer, p)
          /\ Implied(layer, p) \/ \E e \in Own(layer, p) : e.kind = "dir"

\* A layer that goes through a symbolic link of the tree or through a file or link
\* of its own: an entry below one, a directory on one, or a hard link to a path
\* below one.
Through(e) ==
    Parents(e.path) \cup (IF e.kind \in {"dir", "opaque"} THEN {e.path} ELSE {})
                    \cup (IF e.kind = "hardlink" THEN Parents(e.data) ELSE {})

Crosses(fs, layer) ==
    \E e \in ToSet(layer) : \E p \in Through(e) :
        fs[p] \in Links \/ \E f \in ToSet(layer) : Leaf(f) /\ f.path = p

Entries(data) ==
    [kind : {"file"}, path : Paths, data : {data}]
        \cup [kind : {"hardlink"}, path : Paths, data : Paths]
        \cup [kind : {"dir", "whiteout", "device"}, path : Paths, data : {Nothing}]
        \cup [kind : {"opaque"}, path : {p \in Paths : Below(p) # {}}, data : {Nothing}]

SmallLayers(data) ==
    {l \in {<<>>} \cup {<<e>> : e \in Entries(data)} \cup (Entries(data) \X Entries(data)) :
        WellFormed(l)}

\* What the extraction of a layer gives is what the layer means over the tree
\* that was there, or it fails, and then because it must refuse the layer.  This
\* is said of layers that go through no link.
ExtractionSound(fs, layer) ==
    LET st == applyOneLayer(fs, layer) IN
    \/ Crosses(fs, layer)
    \/ IF Conflict(fs, layer) THEN ~st.ok ELSE st.ok /\ st.fs = Overlay(fs, layer)

=============================================================================
