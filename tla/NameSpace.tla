----------------------------- MODULE NameSpace -----------------------------
(***************************************************************************)
(* What a file system promises through its paths: a tree of directories    *)
(* and files in which a path names at most one of them, and the contents   *)
(* of a file change only where it is written.                              *)
(***************************************************************************)
EXTENDS Integers, Sequences

CONSTANT Buffers   \* what may be written in one call

\* A set of entries [path, type, contents]; a path is a sequence of names.
VARIABLE tree

DirAt(p) == [path |-> p, type |-> "FT_DIR", contents |-> <<>>]

Parent(e) == SubSeq(e.path, 1, Len(e.path) - 1)

Init == DirAt(<<>>) \in tree

\* A new directory, below another one.
MakeDir(s, t) ==
  \E e \in t \ s :
    /\ e = DirAt(e.path) /\ DirAt(Parent(e)) \in s
    /\ \A f \in s : f.path # e.path
    /\ t = s \cup {e}

\* A file or an empty directory goes.
Remove(s, t) ==
  \E e \in s \ (t \cup {DirAt(<<>>)}) :
    /\ \A f \in s \ {DirAt(<<>>)} : Parent(f) # e.path
    /\ t = s \ {e}

\* The bytes from offset on become those of b; the file grows if it has to.
Overwrite(c, offset, b) ==
  SubSeq(c, 1, offset) \o b \o SubSeq(c, offset + Len(b) + 1, Len(c))

Write(s, t) ==
  \E e \in s \ t, b \in Buffers :
    /\ e.type = "FT_REG"
    /\ \E offset \in 0 .. Len(e.contents) :
         t = (s \ {e}) \cup {[e EXCEPT !.contents = Overwrite(@, offset, b)]}

\* s is the tree before the step, t the tree after it.
Next ==
  \E s \in {tree}, t \in {tree'} : MakeDir(s, t) \/ Remove(s, t) \/ Write(s, t)

Spec == Init /\ [][Next]_tree

=============================================================================
