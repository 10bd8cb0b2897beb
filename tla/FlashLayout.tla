---------------------------- MODULE FlashLayout ----------------------------
(***************************************************************************)
(* Where a block of the disk lies in the flash: storage.c takes off the    *)
(* partition table and the gap behind it, machine_nvsbdev.c finds sector   *)
(* and offset.  FlashCache calls a pair of sector and offset a block; the  *)
(* theorems say that it may.                                               *)
(***************************************************************************)
EXTENDS Integers, TLAPS

FLASH_BLOCK_SIZE == 512
FLASH_PART1_START_BLOCK == 256
FLASH_MEM_SEG1_NUM_BLOCKS == 2048

\* flash_layout: one bank that starts at address 0
sector_size == 4096
sector_count == 256
Sectors == 0..(sector_count - 1)

\* What the host and the file system are told.
storage_get_block_count == FLASH_PART1_START_BLOCK + FLASH_MEM_SEG1_NUM_BLOCKS

\* The first entry of the partition table in block 0; the others are empty.
Partition == [start_block |-> FLASH_PART1_START_BLOCK, num_blocks |-> FLASH_MEM_SEG1_NUM_BLOCKS]

InPartition(block) ==
  /\ FLASH_PART1_START_BLOCK <= block
  /\ block < FLASH_PART1_START_BLOCK + FLASH_MEM_SEG1_NUM_BLOCKS

\* Blocks are read and written one by one; block 0 is made up when it is read
\* and thrown away when it is written.
BlockIsServed(block) == block = 0 \/ InPartition(block)

BlocksAreServed(block_num, num_blocks) ==
  \A i \in 0..(num_blocks - 1) : BlockIsServed(block_num + i)

\* The number machine_nvsbdev.c is given for a block of the partition
BdevBlock(block) == block - FLASH_PART1_START_BLOCK

convert_block_to_flash_addr(b) == b * FLASH_BLOCK_SIZE

\* flash_get_sector_info: the first sector that ends after the address.
EndsAfter(j, addr) == addr < (j + 1) * sector_size
SectorId(addr) ==
  CHOOSE j \in Sectors : EndsAfter(j, addr) /\ \A i \in 0..(j - 1) : ~EndsAfter(i, addr)

SectorStart(addr) == SectorId(addr) * sector_size

\* flash_cache_get_addr: the sector to cache, and the offset in it.
Place(block) ==
  LET addr == convert_block_to_flash_addr(BdevBlock(block))
  IN  [sector |-> SectorId(addr), offset |-> addr - SectorStart(addr)]

-----------------------------------------------------------------------------

\* The loop over the sectors divides.
LEMMA SectorIsQuotient ==
  ASSUME NEW addr \in Nat, addr < sector_count * sector_size
  PROVE  SectorId(addr) = addr \div sector_size
<1> DEFINE q == addr \div sector_size
<1> USE DEF sector_size, sector_count, Sectors, EndsAfter
<1>1. q \in Sectors /\ addr < (q + 1) * 4096 /\ q * 4096 <= addr
  OBVIOUS
<1>2. \A i \in 0..(q - 1) : ~(addr < (i + 1) * 4096)
  BY <1>1
<1>3. ASSUME NEW j \in Sectors, EndsAfter(j, addr), \A i \in 0..(j - 1) : ~EndsAfter(i, addr)
      PROVE  j = q
  <2>1. ~(j < q)
    BY <1>2, <1>3
  <2>2. ~(q < j)
    BY <1>1, <1>3
  <2> QED
    BY <1>1, <2>1, <2>2
<1> HIDE DEF q
<1> QED
  BY <1>1, <1>2, <1>3 DEF SectorId

\* The place in terms of the block's number in the partition.
LEMMA PlaceIs ==
  ASSUME NEW block \in Nat, InPartition(block)
  PROVE  /\ BdevBlock(block) \in 0..2047
         /\ Place(block).sector = BdevBlock(block) \div 8
         /\ Place(block).offset = BdevBlock(block) * 512 - (BdevBlock(block) \div 8) * 4096
<1> DEFINE b == BdevBlock(block)
           addr == convert_block_to_flash_addr(b)
<1>1. b \in 0..2047
  BY DEF BdevBlock, InPartition, FLASH_PART1_START_BLOCK, FLASH_MEM_SEG1_NUM_BLOCKS
<1> HIDE DEF b
<1>2. addr = b * 512
  BY DEF convert_block_to_flash_addr, FLASH_BLOCK_SIZE
<1>3. addr \in Nat /\ addr < sector_count * sector_size /\ addr \div sector_size = b \div 8
  BY <1>1, <1>2 DEF sector_count, sector_size
<1> HIDE DEF addr
<1>4. SectorId(addr) = b \div 8
  BY <1>3, SectorIsQuotient
<1>5. Place(block) = [sector |-> SectorId(addr), offset |-> addr - SectorId(addr) * 4096]
  BY DEF Place, SectorStart, addr, b, sector_size
<1>6. /\ Place(block).sector = b \div 8
      /\ Place(block).offset = b * 512 - (b \div 8) * 4096
  BY <1>2, <1>4, <1>5
<1> QED
  BY <1>1, <1>6 DEF b

\* A block of the partition lies inside one sector, which the flash has, at a
\* multiple of the block size (flash_cache_get_addr, FLASH_SECTOR_SIZE_MAX).
THEOREM BlockFits ==
  ASSUME NEW block \in Nat, InPartition(block)
  PROVE  /\ Place(block).sector \in Sectors
         /\ Place(block).offset \in 0..(sector_size - FLASH_BLOCK_SIZE)
         /\ Place(block).offset % FLASH_BLOCK_SIZE = 0
<1> DEFINE b == BdevBlock(block)
<1>1. /\ b \in 0..2047
      /\ Place(block).sector = b \div 8
      /\ Place(block).offset = b * 512 - (b \div 8) * 4096
  BY PlaceIs
<1> HIDE DEF b
<1>2. b \div 8 \in 0..255 /\ b * 512 - (b \div 8) * 4096 = (b % 8) * 512
  BY <1>1
<1> QED
  BY <1>1, <1>2 DEF Sectors, sector_size, sector_count, FLASH_BLOCK_SIZE

\* No two blocks share a place, so a write to one leaves the others alone
\* (storage_write_block, flash_bdev_writeblock).
THEOREM PlacesAreApart ==
  ASSUME NEW block \in Nat, InPartition(block),
         NEW other \in Nat, InPartition(other), Place(block) = Place(other)
  PROVE  block = other
<1> DEFINE b == BdevBlock(block)
           c == BdevBlock(other)
<1>1. /\ b \in 0..2047
      /\ Place(block).sector = b \div 8
      /\ Place(block).offset = b * 512 - (b \div 8) * 4096
  BY PlaceIs
<1>2. /\ c \in 0..2047
      /\ Place(other).sector = c \div 8
      /\ Place(other).offset = c * 512 - (c \div 8) * 4096
  BY PlaceIs
<1> HIDE DEF b, c
<1>3. b = c
  BY <1>1, <1>2
<1> QED
  BY <1>3 DEF b, c, BdevBlock, FLASH_PART1_START_BLOCK

\* Every place is a block's: the flash is used to its end.
THEOREM EveryPlaceIsUsed ==
  ASSUME NEW s \in Sectors, NEW k \in 0..7
  PROVE  \E block \in Nat : /\ InPartition(block)
                            /\ Place(block).sector = s
                            /\ Place(block).offset = k * FLASH_BLOCK_SIZE
<1> DEFINE block == FLASH_PART1_START_BLOCK + (8 * s + k)
<1>1. block \in Nat /\ InPartition(block) /\ BdevBlock(block) = 8 * s + k
  BY DEF InPartition, FLASH_PART1_START_BLOCK, FLASH_MEM_SEG1_NUM_BLOCKS, BdevBlock, Sectors,
         sector_count
<1>2. (8 * s + k) \div 8 = s
  BY DEF Sectors, sector_count
<1> HIDE DEF block
<1>3. /\ Place(block).sector = (8 * s + k) \div 8
      /\ Place(block).offset = (8 * s + k) * 512 - ((8 * s + k) \div 8) * 4096
  BY <1>1, PlaceIs
<1>4. Place(block).sector = s /\ Place(block).offset = k * FLASH_BLOCK_SIZE
  BY <1>2, <1>3 DEF FLASH_BLOCK_SIZE, Sectors, sector_count
<1> QED
  BY <1>1, <1>4

\* The partition the table describes ends where the disk does, and all of it is
\* served, in one call or several.
THEOREM PartitionIsServed ==
  /\ Partition.start_block + Partition.num_blocks = storage_get_block_count
  /\ \A block_num, num_blocks \in Nat :
       (/\ Partition.start_block <= block_num
        /\ block_num + num_blocks <= storage_get_block_count)
       => BlocksAreServed(block_num, num_blocks)
  BY DEF Partition, storage_get_block_count, BlocksAreServed, BlockIsServed, InPartition,
         FLASH_PART1_START_BLOCK, FLASH_MEM_SEG1_NUM_BLOCKS
=============================================================================
