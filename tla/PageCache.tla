---------------------------- MODULE PageCache ----------------------------
(***************************************************************************)
(* The block device and the page cache in front of it, as ext2 uses them   *)
(* (drivers/block_device.cpp, kernel/fs/SimplePageCache.cpp).              *)
(*                                                                         *)
(* All sizes are in words of 4 bytes, the unit of a block pointer.  A      *)
(* cache is a value: a chain of nodes per bucket, newest first, and the    *)
(* counter HashList keeps.  The operations are functions from cache to     *)
(* cache; each one runs under the cache's mutex (see Mutex), so a module   *)
(* that uses them may apply several in one step.                           *)
(***************************************************************************)
EXTENDS Naturals, Sequences

CONSTANTS
  BlockSize,      \* words in a block of the device and in a page
  BucketCount     \* chains of the hash list

ASSUME CacheAssumption ==
  /\ BlockSize \in Nat \ {0}
  /\ BucketCount \in Nat \ {0}

Buckets == 0 .. BucketCount - 1
Offsets == 0 .. BlockSize - 1

----------------------------------------------------------------------------
\* DiskDevice::read_block: one read_sector for each sector of the block.  A
\* sector behind the end of the device ends the loop with false and leaves
\* the rest of the buffer as it was.  The ends of the devices modelled here
\* are ends of blocks, so a block is read whole or not at all.
Readable(b, total) == b < total

----------------------------------------------------------------------------
EmptyCache == [chains |-> [h \in Buckets |-> <<>>], size |-> 0]

Hash(key) == key % BucketCount

\* HashList::find: the first node of the key's chain that has the key.
Holds(c, key) == \E i \in DOMAIN c.chains[Hash(key)] : c.chains[Hash(key)][i].key = key

FindHead(c, key) == c.chains[Hash(key)][1]
Find(c, key) ==
  LET chain == c.chains[Hash(key)]
      first == CHOOSE i \in DOMAIN chain :
                 /\ chain[i].key = key
                 /\ \A j \in 1 .. i - 1 : chain[j].key # key
  IN  chain[first]

\* HashList::insert of a key that is not there: a new head of its chain.
Insert(c, node) ==
  [chains |-> [c.chains EXCEPT ![Hash(node.key)] = <<node>> \o @], size |-> c.size + 1]

\* SimplePageCache::get_page.  The page of a block the device cannot read is
\* kept like any other, with what the new buffer happened to hold: junk.
\* Nothing is ever evicted, whatever max_pages is.
GetPage(c, key, disk, total, junk) ==
  IF Holds(c, key)
    THEN [cache |-> c, data |-> Find(c, key).data]
    ELSE LET page == IF Readable(key, total) THEN disk[key] ELSE junk
         IN  [cache |-> Insert(c, [key |-> key, data |-> page, dirty |-> FALSE]),
              data  |-> page]
============================================================================
