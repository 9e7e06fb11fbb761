------------------------------- MODULE MCExt2 -------------------------------
(***************************************************************************)
(* Three volumes.  Blocks hold 16 words; an inode has one direct, one      *)
(* indirect and one doubly indirect pointer; the driver expects 4 pointers *)
(* in an indirect block, a quarter of what fits, as in the code (256 of    *)
(* 1024).  The first has a subdirectory, a deleted entry and a file with   *)
(* an indirect block whose last block a short device cuts off.  The second *)
(* has a directory of two blocks and a file that is too large for the      *)
(* driver's single indirect block.  The third is no ext2 volume.           *)
(***************************************************************************)
EXTENDS Ext2

Words(n, len) == [i \in 1 .. len |-> 100 * n + i]
Zeros == [o \in Offsets |-> 0]
Zeros16 == [i \in 1 .. 16 |-> 0]
\* a device of n blocks beside a heap full of words w
Device(n, w) == [total |-> n, junk |-> [o \in Offsets |-> w]]
\* block k of a file, with zeros behind its end
Slice(file, k) == [o \in Offsets |-> IF k * BlockSize + o < Len(file)
                                      THEN file[k * BlockSize + o + 1] ELSE 0]
Pointers(bs) == [o \in Offsets |-> IF o < Len(bs) THEN bs[o + 1] ELSE 0]
Entry(n, len, name, type) == [inode |-> n, rec_len |-> len, name |-> name, file_type |-> type]
Dirent(n, name, type) == [name |-> name, inode |-> n, d_type |-> type]
\* i_blocks counts 8 sectors for each block
Inode(mode, size, nblocks, ptrs) ==
  [mode |-> mode, size |-> size, blocks |-> 8 * nblocks, i_block |-> ptrs]
Blank == Inode("none", 0, 0, <<0, 0, 0, 0>>)
NameWords == [n \in {"", ".", "..", "d", "a", "big", "long"} |-> IF n = "long" THEN 3 ELSE 1]

SmallA == Words(4, 10)
Big == Words(5, 40)
Vol1 ==
  [magic |-> TRUE, inodes_count |-> 6, first_data_block |-> 0, bg_inode_table |-> 2,
   inodes_per_block |-> 4, devices |-> {Device(0, 0), Device(2, 0), Device(5, 0), Device(8, 7), Device(10, 99),
               Device(11, 0)}, name_words |-> NameWords,
   inodes |-> (2 :> <<Blank, Inode("dir", 16, 1, <<4, 0, 0, 0>>),
                      Inode("dir", 16, 1, <<5, 0, 0, 0>>),
                      Inode("file", 10, 1, <<6, 0, 0, 0>>)>>) @@
              (3 :> <<Inode("file", 40, 4, <<7, 8, 0, 0>>), Blank, Blank, Blank>>),
   entries |-> (4 :> <<Entry(2, 3, ".", "dir"), Entry(2, 3, "..", "dir"),
                       Entry(0, 3, "a", "file"), Entry(3, 3, "d", "dir"),
                       Entry(4, 4, "a", "file")>>) @@
               (5 :> <<Entry(3, 3, ".", "dir"), Entry(2, 3, "..", "dir"),
                       Entry(5, 10, "big", "file")>>),
   words |-> [b \in 0 .. 10 |->
                CASE b = 6 -> Slice(SmallA, 0)
                  [] b = 7 -> Slice(Big, 0)
                  [] b = 8 -> Pointers(<<9, 10>>)
                  [] b = 9 -> Slice(Big, 1)
                  [] b = 10 -> Slice(Big, 2)
                  [] OTHER -> Zeros],
   content |-> (2 :> Zeros16) @@ (3 :> Zeros16) @@ (4 :> SmallA) @@ (5 :> Big),
   blocks_of |-> (2 :> {4}) @@ (3 :> {5}) @@ (4 :> {6}) @@ (5 :> {7, 8, 9, 10}),
   tree |-> (<<>> :> 2) @@ (<<"d">> :> 3) @@ (<<"a">> :> 4) @@ (<<"d", "big">> :> 5)
            @@ (<<"d", "..", "a">> :> 4),
   listing |-> (2 :> <<Dirent(2, ".", "dir"), Dirent(2, "..", "dir"), Dirent(3, "d", "dir"),
                       Dirent(4, "a", "file")>>) @@
               (3 :> <<Dirent(3, ".", "dir"), Dirent(2, "..", "dir"),
                       Dirent(5, "big", "file")>>)]

Huge == Words(3, 88)
Vol2 ==
  [magic |-> TRUE, inodes_count |-> 4, first_data_block |-> 0, bg_inode_table |-> 2,
   inodes_per_block |-> 4, devices |-> {Device(4, 0), Device(12, 0)}, name_words |-> NameWords,
   inodes |-> (2 :> <<Blank, Inode("dir", 32, 2, <<3, 4, 0, 0>>),
                      Inode("file", 88, 7, <<5, 6, 0, 0>>),
                      Inode("file", 0, 0, <<0, 0, 0, 0>>)>>),
   entries |-> (3 :> <<Entry(2, 3, ".", "dir"), Entry(2, 3, "..", "dir"),
                       Entry(4, 10, "long", "file")>>) @@
               (4 :> <<Entry(3, 16, "a", "file")>>),
   words |-> [b \in 0 .. 11 |->
                CASE b = 5 -> Slice(Huge, 0)
                  [] b = 6 -> Pointers(<<7, 8, 9, 10, 11>>)
                  [] b \in 7 .. 11 -> Slice(Huge, b - 6)
                  [] OTHER -> Zeros],
   content |-> (2 :> Zeros16 \o Zeros16) @@ (3 :> Huge) @@ (4 :> <<>>),
   blocks_of |-> (2 :> {3, 4}) @@ (3 :> 5 .. 11) @@ (4 :> {}),
   tree |-> (<<>> :> 2) @@ (<<"a">> :> 3) @@ (<<"long">> :> 4),
   listing |-> (2 :> <<Dirent(2, ".", "dir"), Dirent(2, "..", "dir"), Dirent(4, "long", "file"),
                       Dirent(3, "a", "file")>>)]

NotExt2 == [Vol1 EXCEPT !.magic = FALSE, !.devices = {Device(11, 0)}]

MCVolume == <<Vol1, Vol2, NotExt2>>
MCPaths == {<<>>, <<"a">>, <<"d", "big">>, <<"d", "..", "a">>, <<"a", "x">>, <<"long">>}
============================================================================
