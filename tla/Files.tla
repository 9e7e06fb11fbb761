------------------------------- MODULE Files -------------------------------
(***************************************************************************)
(* The file system calls of the init task: the descriptor table of its     *)
(* Context, VFSManager with its mount points, and MemFS.                   *)
(*                                                                         *)
(* A path is a sequence of slashes and names.  MemFS and the console are   *)
(* modelled; what lies below /mnt belongs to ext2.                         *)
(*                                                                         *)
(* Bounds: memory does not run out, files stay within MaxSize, and the     *)
(* task opens no more files than the table has room for: allocate_fd never *)
(* reuses a number and does not look at the end of the table.              *)
(*                                                                         *)
(* unlink and rmdir free an inode without a look at the descriptors, which *)
(* then point to freed memory, or to the next inode made there.  What they *)
(* read or write from then on is undefined: a behaviour is followed as     *)
(* long as the task only closes such a descriptor.                         *)
(***************************************************************************)
EXTENDS Integers, Sequences, FiniteSets, SequencesExt

CONSTANTS
  Ids,               \* addresses of MemFSInodes
  ROOT,              \* the one that MemFS::init makes
  Archive,           \* the entries of the initramfs, as [id, name, type, data]
  Names,             \* what paths are made of, with the slash
  Paths,             \* the paths the task uses
  Buffers,           \* what it writes in one call
  ReadSizes,         \* how much it reads in one call
  SeekOffsets,
  Closable,          \* the descriptors it closes
  MAX_PROCESS_FDS, MaxSize,
  Null, Console, Uninit

ASSUME FilesAssumption ==
  /\ ROOT \in Ids
  /\ \A k \in DOMAIN Archive : Archive[k].id \in Ids \ {ROOT}
  /\ \A j, k \in DOMAIN Archive : j # k =>
       Archive[j].id # Archive[k].id /\ Archive[j].name # Archive[k].name
  /\ MAX_PROCESS_FDS \in Nat /\ MAX_PROCESS_FDS > 3

Slash == "/"

VARIABLES
  inode,      \* the inodes; Null: not allocated
  fd_table,   \* Null, the console device or a MemFSFileDescriptor
  next_fd,
  stale       \* history: the descriptors whose inode was freed while open

vars == <<inode, fd_table, next_fd, stale>>

Live == {i \in Ids : inode[i] # Null}
OpenFds == {n \in DOMAIN fd_table : fd_table[n] \notin {Null, Console}}

\* capacity is Len(data).
TypeOK ==
  /\ DOMAIN inode = Ids
  /\ \A i \in Live :
       /\ inode[i].name \in Names \cup {Null}
       /\ inode[i].type \in {"FT_REG", "FT_DIR"}
       /\ inode[i].size \in 0 .. MaxSize
       /\ inode[i].parent \in Ids \cup {Null}
  /\ DOMAIN fd_table = 0 .. MAX_PROCESS_FDS - 1
  /\ \A n \in OpenFds : fd_table[n] \in [inode : Ids, offset : 0 .. MaxSize]
  /\ next_fd \in 3 .. MAX_PROCESS_FDS
  /\ stale \subseteq OpenFds

-----------------------------------------------------------------------------
CreateInode(name, type, data, parent) ==
  [name |-> name, type |-> type, data |-> data, size |-> Len(data),
   parent |-> parent, children |-> <<>>]

\* MemFS::init, load_initramfs, which puts every entry at the head of the
\* root's list, and the descriptors that init inherits.
Init ==
  /\ inode = [i \in Ids |->
       IF i = ROOT
         THEN [CreateInode(Null, "FT_DIR", <<>>, Null) EXCEPT
                 !.children = Reverse([k \in DOMAIN Archive |-> Archive[k].id])]
         ELSE LET entry == {k \in DOMAIN Archive : Archive[k].id = i} IN
              IF entry = {} THEN Null
              ELSE LET e == Archive[CHOOSE k \in entry : TRUE] IN
                   CreateInode(e.name, e.type, e.data, ROOT)]
  /\ fd_table = [n \in 0 .. MAX_PROCESS_FDS - 1 |-> IF n < 3 THEN Console ELSE Null]
  /\ next_fd = 3
  /\ stale = {}

-----------------------------------------------------------------------------
(***************************************************************************)
(* Paths.                                                                  *)
(***************************************************************************)

\* In the order in which init_vfs's callers register them.
mount_points ==
  << [path |-> <<Slash, "mnt">>, fs |-> "ext2"],
     [path |-> <<Slash>>, fs |-> "memfs"],
     [path |-> <<Slash, "dev", Slash, "console">>, fs |-> "consolefs"] >>

\* find_fs: the longest mount point that is a prefix of the path.
FindFs(path) ==
  LET match == {k \in DOMAIN mount_points : IsPrefix(mount_points[k].path, path)}
      best == {k \in match : \A j \in match :
                 Len(mount_points[j].path) <= Len(mount_points[k].path)}
  IN IF match = {} THEN [fs |-> Null, rest |-> <<>>]
     ELSE LET m == mount_points[CHOOSE k \in best : TRUE] IN
          [fs |-> m.fs, rest |-> SubSeq(path, Len(m.path) + 1, Len(path))]

\* Nothing is mounted later: the answers of find_fs, for the paths of the task.
Located == [path \in Paths |-> FindFs(path)]

\* The path that MemFS is given.
InMemFS(path) == Located[path].fs = "memfs"
Rest(path) == Located[path].rest

\* The first child of d with the name; files have no children.
Child(d, name) ==
  LET c == inode[d].children
      named == {k \in DOMAIN c : inode[c[k]].name = name}
  IN IF named = {} THEN Null ELSE c[Min(named)]

IsName(t) == t # Slash

\* find_inode: component by component from the root; slashes are skipped.
FindInode(path) ==
  LET names == SelectSeq(path, IsName)
      current[k \in 0 .. Len(names)] ==
        IF k = 0 THEN ROOT
        ELSE LET d == current[k - 1] IN IF d = Null THEN Null ELSE Child(d, names[k])
  IN current[Len(names)]

LastSlash(path) == SelectLastInSeq(path, LAMBDA t : t = Slash)

-----------------------------------------------------------------------------
(***************************************************************************)
(* System calls on descriptors.  A call that fails changes nothing.        *)
(***************************************************************************)
AllocateFd(fd) ==
  /\ next_fd < MAX_PROCESS_FDS
  /\ fd_table' = [fd_table EXCEPT ![next_fd] = fd]
  /\ next_fd' = next_fd + 1
  /\ UNCHANGED stale

\* sys_open of a MemFS path: a new descriptor at offset 0.
Open(path) ==
  /\ InMemFS(path) /\ FindInode(Rest(path)) # Null
  /\ AllocateFd([inode |-> FindInode(Rest(path)), offset |-> 0])
  /\ UNCHANGED inode

\* sys_open of the console: the one ConsoleDevice.
OpenConsole(path) ==
  /\ Located[path].fs = "consolefs"
  /\ AllocateFd(Console)
  /\ UNCHANGED inode

\* sys_close; a MemFSFileDescriptor is deleted, the console device is not.
Close(n) ==
  /\ fd_table[n] # Null
  /\ fd_table' = [fd_table EXCEPT ![n] = Null]
  /\ stale' = stale \ {n}
  /\ UNCHANGED <<inode, next_fd>>

Read(n, size) ==
  LET i == fd_table[n].inode
      remaining == inode[i].size - fd_table[n].offset
  IN /\ remaining > 0
     /\ fd_table' = [fd_table EXCEPT ![n].offset = @ + Min({size, remaining})]
     /\ UNCHANGED <<inode, next_fd, stale>>

\* Mutant: the old bytes are not copied.
GrownNoCopy(i, end) ==
  IF end > Len(inode[i].data) THEN [k \in 1 .. 2 * end |-> Uninit] ELSE inode[i].data

\* The buffer after it has been made large enough for end bytes.
Grown(i, end) ==
  LET f == inode[i] IN
  IF end > Len(f.data)
    THEN SubSeq(f.data, 1, f.size) \o [k \in 1 .. 2 * end - f.size |-> Uninit]
    ELSE f.data

Write(n, buffer) ==
  LET i == fd_table[n].inode
      offset == fd_table[n].offset
      end == offset + Len(buffer)
      data == Grown(i, end)
  IN /\ end <= MaxSize
     /\ inode' = [inode EXCEPT
          ![i].data = [k \in DOMAIN data |->
                        IF k \in offset + 1 .. end THEN buffer[k - offset] ELSE data[k]],
          ![i].size = Max({@, end})]
     /\ fd_table' = [fd_table EXCEPT ![n].offset = end]
     /\ UNCHANGED <<next_fd, stale>>

\* Mutant: it is checked against the capacity.
SeekCapacity(n, offset) ==
  /\ offset <= Min({MaxSize, Len(inode[fd_table[n].inode].data)})
  /\ fd_table' = [fd_table EXCEPT ![n].offset = offset]
  /\ UNCHANGED <<inode, next_fd, stale>>

Seek(n, offset) ==
  /\ offset <= inode[fd_table[n].inode].size
  /\ fd_table' = [fd_table EXCEPT ![n].offset = offset]
  /\ UNCHANGED <<inode, next_fd, stale>>

-----------------------------------------------------------------------------
(***************************************************************************)
(* System calls on paths.                                                  *)
(***************************************************************************)

\* Mutant: only directories count as there already.
MkdirOverFile(path) ==
  LET last == LastSlash(Rest(path))
      parent == FindInode(SubSeq(Rest(path), 1, last - 1))
      name == Rest(path)[last + 1]
  IN /\ InMemFS(path)
     /\ last > 0 /\ last < Len(Rest(path))
     /\ parent # Null /\ inode[parent].type = "FT_DIR"
     /\ Child(parent, name) = Null \/ inode[Child(parent, name)].type = "FT_REG"
     /\ \E dir \in Ids \ Live :
          inode' = [inode EXCEPT
            ![dir] = CreateInode(name, "FT_DIR", <<>>, parent),
            ![parent].children = <<dir>> \o @]
     /\ UNCHANGED <<fd_table, next_fd, stale>>

\* The parent's path is what lies before the last slash of the path that
\* MemFS is given; a path without a slash is refused.
Mkdir(path) ==
  LET last == LastSlash(Rest(path))
      parent == FindInode(SubSeq(Rest(path), 1, last - 1))
      name == Rest(path)[last + 1]
  IN /\ InMemFS(path)
     /\ last > 0 /\ last < Len(Rest(path))
     /\ parent # Null /\ inode[parent].type = "FT_DIR"
     /\ Child(parent, name) = Null
     /\ \E dir \in Ids \ Live :
          inode' = [inode EXCEPT
            ![dir] = CreateInode(name, "FT_DIR", <<>>, parent),
            ![parent].children = <<dir>> \o @]
     /\ UNCHANGED <<fd_table, next_fd, stale>>

\* The descriptors on the inode that is freed.
Forsake(i) == stale' = stale \cup {n \in OpenFds \ stale : fd_table[n].inode = i}

\* Mutant: only the head of the list is unlinked.
FreeInodeHeadOnly(i) ==
  /\ inode' = [inode EXCEPT
       ![inode[i].parent].children = IF Head(@) = i THEN Tail(@) ELSE @,
       ![i] = Null]
  /\ Forsake(i)

\* Out of the parent's list, and free_inode.
FreeInode(i) ==
  /\ inode' = [inode EXCEPT
       ![inode[i].parent].children = RemoveFirst(@, i),
       ![i] = Null]
  /\ Forsake(i)

Unlink(path) ==
  LET file == FindInode(Rest(path)) IN
  /\ InMemFS(path) /\ Rest(path) # <<>>
  /\ file # Null /\ inode[file].type = "FT_REG"
  /\ FreeInode(file)
  /\ UNCHANGED <<fd_table, next_fd>>

Rmdir(path) ==
  LET dir == FindInode(Rest(path)) IN
  /\ InMemFS(path) /\ Rest(path) \notin {<<>>, <<Slash>>}
  /\ dir # Null /\ inode[dir].type = "FT_DIR"
  /\ inode[dir].children = <<>> /\ inode[dir].parent # Null
  /\ FreeInode(dir)
  /\ UNCHANGED <<fd_table, next_fd>>

-----------------------------------------------------------------------------
Next ==
  \/ \E path \in Paths :
       Open(path) \/ OpenConsole(path) \/ Mkdir(path) \/ Unlink(path) \/ Rmdir(path)
  \/ \E n \in Closable : Close(n)
  \/ \E n \in OpenFds \ stale :
       \/ \E size \in ReadSizes : Read(n, size)
       \/ \E buffer \in Buffers : Write(n, buffer)
       \/ \E offset \in SeekOffsets : Seek(n, offset)

Spec == Init /\ [][Next]_vars

-----------------------------------------------------------------------------
(***************************************************************************)
(* Properties.                                                             *)
(***************************************************************************)

\* The pointers of the tree agree: a child list holds live inodes, each once
\* and each with this parent, files have none, and every live inode but the
\* root is on its parent's list.
TreeWellFormed ==
  /\ TypeOK
  /\ \A i \in Live :
       /\ IsInjective(inode[i].children)
       /\ \A c \in Range(inode[i].children) : c \in Live /\ inode[c].parent = i
       /\ inode[i].type = "FT_REG" => inode[i].children = <<>>
  /\ \A i \in Live \ {ROOT} :
       inode[i].parent \in Live /\ i \in Range(inode[inode[i].parent].children)

\* Bytes below size lie in the buffer and have been written: read() never
\* returns what happened to be in the memory that write() grew into.
NoHoles ==
  \A i \in Live :
    /\ inode[i].size <= Len(inode[i].data)
    /\ \A k \in 1 .. inode[i].size : inode[i].data[k] # Uninit

\* Removing an inode strands the descriptors on that inode and no other: every
\* descriptor not stranded has a live inode, and does not stand beyond the end of
\* its file, whatever the other descriptors on the file do.
OffsetInFile ==
  \A n \in OpenFds \ stale :
    fd_table[n].inode \in Live /\ fd_table[n].offset <= inode[fd_table[n].inode].size

-----------------------------------------------------------------------------
\* What path lookup shows of the tree.
Entry(p, i) ==
  [path |-> p, type |-> inode[i].type,
   contents |-> IF inode[i].type = "FT_REG"
                  THEN SubSeq(inode[i].data, 1, inode[i].size) ELSE <<>>]
AllPaths == {<<>>} \cup {SelectSeq(Rest(p), IsName) : p \in {q \in Paths : InMemFS(q)}}
Tree ==
  LET found == {<<p, FindInode(p)>> : p \in AllPaths} IN
  {Entry(x[1], x[2]) : x \in {y \in found : y[2] # Null}}

Abstract == INSTANCE NameSpace WITH tree <- Tree

\* Lookup, mkdir, rmdir, unlink and write together behave as a tree of names:
\* a path names one thing, and a call changes what its path names only.
ImplementsNameSpace == Abstract!Spec

=============================================================================
