------------------------------- MODULE Ext2 -------------------------------
(***************************************************************************)
(* The ext2 driver (drivers/ext2.cpp) above the page cache: mounting,      *)
(* looking up a path, descriptors, reading through direct and indirect     *)
(* blocks, and listing a directory with getdents.                          *)
(*                                                                         *)
(* A volume is what mkfs.ext2 leaves on the disk (tools/create_disk.sh):   *)
(* the super block and group descriptor, tables of inodes, directory       *)
(* blocks and words of data, each seen the way the driver casts it.  The   *)
(* driver's writes are not modelled (README, "Not modelled"), so a volume  *)
(* does not change.  init is the only task that uses the driver: a system  *)
(* call is one step.                                                       *)
(***************************************************************************)
EXTENDS PageCache, FiniteSets, SequencesExt, FiniteSetsExt

CONSTANTS
  Volume,         \* the volumes: a function to records, see MCExt2
  EXT2_DIRECT_BLOCKS, \* direct pointers in an inode (12)
  IndirectCount,  \* pointers the driver expects in an indirect block (256)
  DirentSize,     \* sizeof(dirent) in words
  Paths,          \* the paths programs use: sequences of names
  FdNums,         \* descriptor numbers
  ReadSizes,      \* sizes given to read, in words
  SeekOffsets,    \* offsets given to seek, in words
  BufferSizes     \* sizes given to getdents, in words

VARIABLES
  vol,            \* the volume in the drive
  total,          \* blocks the device can read
  junk,           \* what fresh memory holds
  mounted,        \* "no", "yes", or "failed" (read_super_block)
  page_cache,     \* see PageCache
  fd_table,       \* descriptors of the task
  answer,         \* what the last call returned, if it was a read
  listing,        \* the getdents loop of ls
  stuck           \* the task never returns from the call it made

vars == <<vol, total, junk, mounted, page_cache, fd_table, answer, listing, stuck>>

EXT2_ROOT_INO == 2
NoFd == [inode |-> 0, position |-> 0, path |-> <<>>]
NoAnswer == [inode |-> 0, from |-> 0, asked |-> 0, data |-> <<>>]
NoListing == [fd |-> 0, pos |-> 0, out |-> <<>>, filled |-> FALSE, done |-> FALSE]

V == Volume[vol]

----------------------------------------------------------------------------
\* Ext2FileSystem::read_inode: the record in the inode table, or failure.
NoInode == [mode |-> "none", size |-> 0, blocks |-> 0, i_block |-> <<>>]

InodeBlock(n) == (n - 1) \div V.inodes_per_block + V.bg_inode_table

ReadInode(n) ==
  IF n = 0 \/ n > V.inodes_count \/ ~Readable(InodeBlock(n), total)
    THEN NoInode
    ELSE V.inodes[InodeBlock(n)][1 + ((n - 1) % V.inodes_per_block)]

\* A block cast to directory entries.  Block 0 starts with the zeros of the
\* boot sector: one entry with inode 0 and length 0.
ZeroEntry == [inode |-> 0, rec_len |-> 0, name |-> "", file_type |-> "none"]
EntriesOf(b) == IF b \in DOMAIN V.entries THEN V.entries[b] ELSE <<ZeroEntry>>

\* inode->i_block[i]: the pointers that are not used are 0.
BlockPointer(inode, i) == IF i < Len(inode.i_block) THEN inode.i_block[i + 1] ELSE 0

----------------------------------------------------------------------------
(* Looking up a path: Ext2FileSystem::open.                                *)

Matches(e, name) == e.inode # 0 /\ e.name = name

\* What the new buffer of a search may hold before a block is read into it:
\* bytes in which no entry has the name, zeros, or a directory block from the
\* buffer of an earlier search.
FreshBuffers == {<<>>, <<ZeroEntry>>} \cup Range(V.entries)

\* The search for one name from block i of a directory on.  The result of
\* read_block is not tested: a block that cannot be read leaves in the buffer
\* what was there.  inode->blocks counts sectors, so the loop goes on behind the
\* blocks of the directory to pointers that are 0, reads block 0 and never
\* leaves its first entry, whose length is 0.
RECURSIVE SearchDir(_, _, _, _)
SearchDir(inode, i, name, buffer) ==
  LET b == BlockPointer(inode, i)
      block == IF Readable(b, total) THEN EntriesOf(b) ELSE buffer
      hit == SelectInSeq(block, LAMBDA e : Matches(e, name))
  IN  CASE i >= inode.blocks -> [res |-> "none", inode |-> 0]
        [] i < inode.blocks /\ hit # 0 -> [res |-> "found", inode |-> block[hit].inode]
        [] i < inode.blocks /\ hit = 0 /\ block = <<ZeroEntry>> -> [res |-> "stuck", inode |-> 0]
        [] OTHER -> SearchDir(inode, i + 1, name, block)

\* The loop over the tokens of the path, from inode `at` on.  An inode that
\* cannot be read is printed through a null pointer before it is tested.  What
\* the loop leaves in current_dir_inode only mkdir reads.
RECURSIVE Walk(_, _, _)
Walk(at, path, fresh) ==
  IF path = <<>> THEN [res |-> "found", inode |-> at]
  ELSE LET inode == ReadInode(at)
           s == SearchDir(inode, 0, Head(path), fresh)
       IN  CASE inode = NoInode -> [res |-> "stuck", inode |-> 0]
             [] inode.mode # "dir" -> [res |-> "none", inode |-> 0]
             [] inode.mode = "dir" /\ s.res # "found" -> s
             [] OTHER -> Walk(s.inode, Tail(path), fresh)

----------------------------------------------------------------------------
(* Reading: Ext2FileDescriptor::get_block_id and read.                     *)

Page(c, b) == GetPage(c, b, V.words, total, junk)

\* get_block_id: the device block of a file's block, and the cache after the
\* pages of pointers were read.
GetBlockId(c, idx, inode) ==
  LET beyond == idx - EXT2_DIRECT_BLOCKS - IndirectCount
      ind == Page(c, BlockPointer(inode, EXT2_DIRECT_BLOCKS))
      outer == Page(c, BlockPointer(inode, EXT2_DIRECT_BLOCKS + 1))
      \* the offset is not divided by IndirectCount, so it may leave the page
      at == beyond % (IndirectCount * IndirectCount)
      inner == Page(outer.cache, IF at \in Offsets THEN outer.data[at] ELSE 0)
  IN  CASE idx < EXT2_DIRECT_BLOCKS ->
             [cache |-> c, block |-> BlockPointer(inode, idx)]
        [] idx < EXT2_DIRECT_BLOCKS + IndirectCount /\ idx >= EXT2_DIRECT_BLOCKS ->
             [cache |-> ind.cache, block |-> ind.data[idx - EXT2_DIRECT_BLOCKS]]
        [] beyond \in 0 .. IndirectCount * IndirectCount - 1 ->
             [cache |-> inner.cache, block |-> inner.data[beyond % IndirectCount]]
        [] OTHER -> [cache |-> c, block |-> 0]

\* The loop of read: block by block, through the page cache.
RECURSIVE ReadLoop(_, _, _, _, _)
ReadLoop(c, inode, pos, left, out) ==
  IF left = 0 THEN [cache |-> c, out |-> out]
  ELSE LET id == GetBlockId(c, pos \div BlockSize, inode)
           page == Page(id.cache, id.block)
           off == pos % BlockSize
           copy == IF BlockSize - off < left THEN BlockSize - off ELSE left
       IN  ReadLoop(page.cache, inode, pos + copy, left - copy,
                    out \o [k \in 1 .. copy |-> page.data[off + k - 1]])

----------------------------------------------------------------------------
(* Listing: Ext2FileDescriptor::iterate.                                   *)

\* sizeof(dirent) + name_len + 1, rounded up to words
DirentLen(e) == DirentSize + V.name_words[e.name]

DirentOf(e) == [name |-> e.name, inode |-> e.inode, d_type |-> ReadInode(e.inode).mode]

\* The offset of entry k in its block.
EntryOffset(es, k) ==
  LET offset[j \in 1 .. k] == IF j = 1 THEN 0 ELSE offset[j - 1] + es[j - 1].rec_len
  IN  offset[k]

\* The while loop over the entries of one block, from entry k on.
RECURSIVE IterateBlock(_, _, _, _)
IterateBlock(es, k, st, buf) ==
  IF k > Len(es) THEN st
  ELSE LET e == es[k]
           full == e.inode # 0 /\ st.written + DirentLen(e) > buf
           then == [pos |-> st.pos + e.rec_len,
                    written |-> IF e.inode = 0 THEN st.written ELSE st.written + DirentLen(e),
                    out |-> IF e.inode = 0 THEN st.out ELSE Append(st.out, DirentOf(e)),
                    filled |-> st.filled]
       IN  CASE full -> [st EXCEPT !.filled = TRUE]
             [] ~full /\ then.written + DirentSize > buf -> [then EXCEPT !.filled = TRUE]
             [] OTHER -> IterateBlock(es, k + 1, then, buf)

\* The for loop over the blocks.  Leaving the inner loop because the buffer is
\* full does not leave this one.  A position that is not the start of an entry
\* is in the zeros behind a name, where the length reads as 0.
RECURSIVE IterateFrom(_, _, _, _, _)
IterateFrom(inode, i, off, st, buf) ==
  LET b == BlockPointer(inode, i)
      es == EntriesOf(b)
      at == {k \in 1 .. Len(es) : EntryOffset(es, k) = off}
  IN  IF i >= inode.blocks \/ st.written >= buf THEN st
      ELSE IF ~Readable(b, total) THEN IterateFrom(inode, i + 1, off, st, buf)
      ELSE IF at = {} \/ es[Max(at)].rec_len = 0 THEN st
      ELSE IterateFrom(inode, i + 1, 0, IterateBlock(es, Max(at), st, buf), buf)

IterateRewound(inode, buf, pos) ==
  IterateFrom(inode, pos \div BlockSize, 0,
              [pos |-> pos, written |-> 0, out |-> <<>>, filled |-> FALSE], buf)
Iterate(inode, buf, pos) ==
  IterateFrom(inode, pos \div BlockSize, pos % BlockSize,
              [pos |-> pos, written |-> 0, out |-> <<>>, filled |-> FALSE], buf)

----------------------------------------------------------------------------
Init ==
  /\ vol \in DOMAIN Volume
  /\ \E d \in Volume[vol].devices : total = d.total /\ junk = d.junk
  /\ mounted = "no"
  /\ page_cache = EmptyCache
  /\ fd_table = [f \in FdNums |-> NoFd]
  /\ answer = NoAnswer
  /\ listing = NoListing
  /\ stuck = FALSE

Ready == mounted = "yes" /\ ~stuck

\* ls makes no other call of the driver between its calls of getdents.
Free == Ready /\ listing = NoListing

\* The constructor's read_super_block: every block it needs is readable and
\* the magic number is right.
Mount ==
  /\ mounted = "no"
  /\ mounted' = IF /\ Readable(0, total)
                   /\ V.magic
                   /\ Readable(V.first_data_block + 1, total)
                   /\ Readable(V.bg_inode_table, total)
                THEN "yes" ELSE "failed"
  /\ UNCHANGED <<vol, total, junk, page_cache, fd_table,
                 answer, listing, stuck>>

Walks(path) == {Walk(EXT2_ROOT_INO, path, fresh) : fresh \in FreshBuffers}

Open(path) ==
  /\ Free
  /\ \E f \in FdNums :
       /\ fd_table[f] = NoFd
       /\ \A g \in FdNums : g < f => fd_table[g] # NoFd
       /\ \E w \in Walks(path) :
            /\ fd_table' = IF w.res = "found"
                             THEN [fd_table EXCEPT ![f] = [inode |-> w.inode, position |-> 0,
                                                           path |-> path]]
                             ELSE fd_table
            /\ stuck' = (w.res = "stuck")
  /\ answer' = NoAnswer
  /\ UNCHANGED <<vol, total, junk, mounted, page_cache, listing>>

\* stat opens the path, reads the inode and deletes the descriptor.
Stat(path) ==
  /\ Free
  /\ \E w \in Walks(path) :
       stuck' = (w.res = "stuck" \/ (w.res = "found" /\ ReadInode(w.inode) = NoInode))
  /\ answer' = NoAnswer
  /\ UNCHANGED <<vol, total, junk, mounted, page_cache, fd_table, listing>>

\* Ext2FileDescriptor::seek: the offset may be at most the size.
SeekPast(f, offset) ==
  /\ Free
  /\ fd_table[f] # NoFd
  /\ fd_table' = [fd_table EXCEPT ![f].position = offset]
  /\ answer' = NoAnswer
  /\ UNCHANGED <<vol, total, junk, mounted, page_cache, listing,
                 stuck>>
Seek(f, offset) ==
  /\ Free
  /\ fd_table[f] # NoFd
  /\ \E inode \in {ReadInode(fd_table[f].inode)} :
       fd_table' = IF inode = NoInode \/ offset > inode.size
                     THEN fd_table
                     ELSE [fd_table EXCEPT ![f].position = offset]
  /\ answer' = NoAnswer
  /\ UNCHANGED <<vol, total, junk, mounted, page_cache, listing,
                 stuck>>

\* Ext2FileDescriptor::read.  The difference of size and position is a size_t.
Read(f, size) ==
  /\ Free
  /\ fd_table[f] # NoFd
  /\ \E inode \in {ReadInode(fd_table[f].inode)} :
       /\ inode # NoInode
       /\ LET from == fd_table[f].position
              remaining == (inode.size - from) % 2^30
              n == IF size < remaining THEN size ELSE remaining
          IN  \E r \in {ReadLoop(page_cache, inode, from, n, <<>>)} :
                /\ page_cache' = r.cache
                /\ fd_table' = [fd_table EXCEPT ![f].position = from + n]
                /\ answer' = [inode |-> fd_table[f].inode, from |-> from, asked |-> size,
                              data |-> r.out]
  /\ UNCHANGED <<vol, total, junk, mounted, listing, stuck>>

\* sys_getdents as ls calls it: again with the position of the call before,
\* until a call returns nothing.
Getdents(f, buf) ==
  /\ Ready
  /\ fd_table[f] # NoFd
  /\ listing.fd \in {0, f}
  /\ ~listing.done
  /\ \E inode \in {ReadInode(fd_table[f].inode)} :
       /\ inode.mode = "dir"
       /\ \E it \in {Iterate(inode, buf, listing.pos)} :
            listing' = [fd |-> f, pos |-> it.pos, out |-> listing.out \o it.out,
                        filled |-> listing.filled \/ it.filled, done |-> it.out = <<>>]
  /\ answer' = NoAnswer
  /\ UNCHANGED <<vol, total, junk, mounted, page_cache, fd_table,
                 stuck>>

Close(f) ==
  /\ Ready
  /\ fd_table[f] # NoFd
  /\ fd_table' = [fd_table EXCEPT ![f] = NoFd]
  /\ listing.fd \in {0, f}
  /\ listing' = NoListing
  /\ answer' = NoAnswer
  /\ UNCHANGED <<vol, total, junk, mounted, page_cache, stuck>>

\* The task spins in the driver, or the mount failed and /mnt is not used.
Idle ==
  /\ stuck \/ mounted = "failed"
  /\ UNCHANGED vars

Next ==
  \/ Mount
  \/ \E p \in Paths : Open(p) \/ Stat(p)
  \/ \E f \in FdNums, o \in SeekOffsets : Seek(f, o)
  \/ \E f \in FdNums, n \in ReadSizes : Read(f, n)
  \/ \E f \in FdNums, n \in BufferSizes : Getdents(f, n)
  \/ \E f \in FdNums : Close(f)
  \/ Idle

Spec == Init /\ [][Next]_vars

----------------------------------------------------------------------------
(* The volume's own account of itself, and what the driver makes of it.    *)

OnDevice(n) == V.blocks_of[n] \subseteq 0 .. total - 1

\* A read returns the words of the file from the descriptor's position on, as
\* many as were asked for or are left, through direct and indirect blocks and
\* pages cached by other reads.  It holds for files that lie on the device,
\* also after reads of others failed, up to the last block get_block_id finds
\* in the single indirect block.
ReadExact ==
  answer # NoAnswer /\ OnDevice(answer.inode) =>
    LET file == V.content[answer.inode]
        left == Len(file) - answer.from
        n == IF answer.asked < left THEN answer.asked ELSE left
    IN  answer.from + n <= (EXT2_DIRECT_BLOCKS + IndirectCount) * BlockSize =>
          answer.data = SubSeq(file, answer.from + 1, answer.from + n)

\* The directories on the way to a path that exists are on the device.
WayOnDevice(path) ==
  \A k \in 0 .. Len(path) - 1 : LET dir == SubSeq(path, 1, k) IN
    dir \in DOMAIN V.tree => OnDevice(V.tree[dir])

\* A descriptor is for the file its path names, deleted entries and the
\* directories on the way notwithstanding, if those directories are on the
\* device: open searches what its buffer held where a block cannot be read.
\* Whatever the descriptor is for, its position stays within the file: size
\* minus position in read never wraps round.
DescriptorsValid ==
  \A f \in FdNums : fd_table[f] # NoFd =>
    /\ WayOnDevice(fd_table[f].path) =>
         /\ fd_table[f].path \in DOMAIN V.tree
         /\ fd_table[f].inode = V.tree[fd_table[f].path]
    /\ fd_table[f].position <= Len(V.content[fd_table[f].inode])

\* The whole directory, in order, each entry once.
Listed(l) == l.out = V.listing[fd_table[l.fd].inode]

\* The getdents calls of ls together list every live entry of a directory on
\* the device exactly once: of a directory of one block wherever the buffer
\* ends, and of a larger one when no call filled its buffer.
ListingExact ==
  /\ listing.done
  /\ OnDevice(fd_table[listing.fd].inode)
  /\ ReadInode(fd_table[listing.fd].inode).size = BlockSize \/ ~listing.filled
  => Listed(listing)

============================================================================
