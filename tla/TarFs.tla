------------------------------- MODULE TarFs --------------------------------
(***************************************************************************)
(* The first file system: the multiboot module that is the ram disk        *)
(* (create_initrd), the tree that create_vfs_tar makes of the tar archive  *)
(* on it, and reads and writes of its files (tar_read, rdisk_read).        *)
(*                                                                         *)
(* A name is the sequence of its elements: the basename is the last one,   *)
(* the directory name the others.  Bytes of the disk are numbered; what a  *)
(* byte holds is its own number until something else is written there.     *)
(*                                                                         *)
(* kmalloc is taken to succeed.  Names fit the name field of a header: its *)
(* prefix field is never read.                                             *)
(***************************************************************************)
EXTENDS Integers, SequencesExt

CONSTANTS
  Boots,       \* what the boot loader may have loaded: sequences of modules
  BLOCK,       \* the size of a block of the archive (512)
  ROOT_MAX,    \* the nodes that fit in the root's children (0xFF)
  CHILD_MAX,   \* and in those of another directory
  Ranges,      \* lengths and offsets that a program reads or writes
  MaxCalls     \* reads and writes in one behaviour

NULL == 0
Root == 1
Failed == -1
Written == -2                  \* what a write leaves in a byte

TAR_SYMLINK == "2"
TAR_DIR == "5"
tar_ftype ==                   \* a null, or a digit
  {"", "0", "1", TAR_SYMLINK, "3", "4", TAR_DIR, "6"}

(***************************************************************************)
(* A module is [cmdline, entries, zeros]: the headers of an archive, of    *)
(* which each is followed by its data, and the zero blocks at its end.     *)
(* This is how tar writes them.  A header is [format, name, type, size,    *)
(* link]; the size is a sequence of octal digits, and the format is of     *)
(* magic and version: "ustar" has both, "gnu" the magic alone, and "none"  *)
(* is what a zero block or data look like.                                 *)
(***************************************************************************)
Header ==
  [format : {"ustar", "gnu", "none"}, name : Seq(STRING), type : tar_ftype,
   size : Seq(0 .. 7), link : Seq(STRING)]
BootModule == [cmdline : STRING, entries : Seq(Header), zeros : Nat]

ASSUME TarAssumption ==
  /\ BLOCK \in Nat \ {0} /\ ROOT_MAX \in Nat /\ CHILD_MAX \in Nat
  /\ MaxCalls \in Nat
  /\ Ranges \subseteq Nat \X Nat
  /\ Boots \subseteq Seq(BootModule)

-----------------------------------------------------------------------------
Value(digits) == FoldLeft(LAMBDA n, d : n * 8 + d, 0, digits)
Span(h) == BLOCK * (1 + (Value(h.size) + BLOCK - 1) \div BLOCK)
Start(m, i) == FoldLeft(LAMBDA n, h : n + Span(h), 0,
                        SubSeq(m.entries, 1, i - 1))
DiskSize(m) == Start(m, Len(m.entries) + 1) + m.zeros * BLOCK

NoHeader ==
  [format |-> "none", name |-> <<>>, type |-> "", size |-> <<>>, link |-> <<>>]

HeaderAt(m, offset) ==
  LET i == SelectInSeq([k \in DOMAIN m.entries |-> Start(m, k)],
                       LAMBDA s : s = offset)
  IN  IF i = 0 THEN NoHeader ELSE m.entries[i]

VARIABLES
  stage,       \* "boot", "initrd", "parse", "mounted", or how it ended
  boot,        \* the modules
  disk,        \* the module that is the ram disk; 0 before
  tree,        \* the nodes, in the order in which they were made
  cur,         \* current_parent
  ident,       \* samedir_identifier
  offset,      \* current_offset
  hdr,         \* the header at offset
  bytes,       \* the bytes of the disk that were written
  io,          \* the last read or write of a file, and what a read
               \* returned or the bytes that a write went to
  calls        \* how many there were

parsing == <<tree, cur, ident, offset, hdr>>
vars == <<stage, boot, disk, parsing, bytes, io, calls>>

NoIo == [op |-> "none", node |-> NULL, len |-> 0, at |-> 0, result |-> <<>>]

Init ==
  /\ stage = "boot" /\ boot \in Boots
  /\ disk = 0 /\ bytes = {}
  /\ tree = <<>> /\ cur = NULL /\ ident = <<>>
  /\ offset = 0 /\ hdr = NoHeader
  /\ io = NoIo /\ calls = 0

-----------------------------------------------------------------------------
\* create_initrd: the last module of that name is the disk.
Initrds == {i \in DOMAIN boot : boot[i].cmdline = "initrd"}
LastOf(S) == CHOOSE i \in S : \A j \in S : i >= j
Usable == Initrds # {} /\ DiskSize(boot[LastOf(Initrds)]) # 0

CreateInitrd ==
  /\ stage = "boot" /\ Usable
  /\ disk' = LastOf(Initrds)
  /\ stage' = "initrd"
  /\ UNCHANGED <<boot, parsing, bytes, io, calls>>

NoInitrd ==
  /\ stage = "boot" /\ ~Usable
  /\ stage' = "panic"
  /\ UNCHANGED <<boot, disk, parsing, bytes, io, calls>>

-----------------------------------------------------------------------------
(***************************************************************************)
(* rdisk_read and rdisk_write refuse a range that ends where the disk      *)
(* ends.                                                                   *)
(***************************************************************************)
Disk == boot[disk]
OnDisk(len, at) == len + at < DiskSize(Disk)

\* A refused read leaves the buffer, which is zero at first, as it is.
FirstHeader == IF OnDisk(BLOCK, 0) THEN HeaderAt(Disk, 0) ELSE NoHeader

Node(name, type, parent, at, link) ==
  [name |-> name, type |-> type, parent |-> parent, offset |-> at,
   symlink |-> link, children |-> <<>>]

\* create_vfs_tar up to its loop; a NULL root is not tested by entry.
OpenArchive ==
  /\ stage = "initrd"
  /\ hdr' = FirstHeader
  /\ IF FirstHeader.format = "ustar"
     THEN /\ stage' = "parse" /\ cur' = Root
          /\ tree' = <<Node("/", "VFS_DIR", NULL, 0, <<>>)>>
     ELSE stage' = "noroot" /\ UNCHANGED <<cur, tree>>
  /\ UNCHANGED <<boot, disk, ident, offset, bytes, io, calls>>

\* One turn of the loop, for a name that has a basename.
Turn == stage = "parse" /\ hdr.format # "none" /\ hdr.name # <<>>

Dirname(name) == Front(name)
Climbs_OneLevel(name) == Len(ident) > Len(Dirname(name))         \* variant
Climbs(name) == ident # Dirname(name)

Climb ==
  /\ Turn /\ Climbs(hdr.name) /\ cur # Root
  /\ cur' = tree[cur].parent
  /\ ident' = Dirname(ident)
  /\ UNCHANGED <<stage, boot, disk, tree, offset, hdr, bytes, io, calls>>

\* The root has no parent, and the directory of the empty name is looked
\* for from the byte before it downwards, with nothing to stop at.
ClimbPastRoot ==
  /\ Turn /\ Climbs(hdr.name) /\ cur = Root
  /\ stage' = "wild"
  /\ UNCHANGED <<boot, disk, parsing, bytes, io, calls>>

\* The directory of "/" is looked for before the first byte of the name.
NoName ==
  /\ stage = "parse" /\ hdr.format # "none" /\ hdr.name = <<>>
  /\ stage' = "wild"
  /\ UNCHANGED <<boot, disk, parsing, bytes, io, calls>>

Room == IF cur = Root THEN ROOT_MAX ELSE CHILD_MAX

\* Any type but the other two leaves the node's type zero, VFS_FILE.
NodeOf(h) ==
  CASE h.type = TAR_DIR ->
         Node(Last(h.name), "VFS_DIR", cur, offset, <<>>)
    [] h.type = TAR_SYMLINK ->
         Node(Last(h.name), "VFS_SYM", cur, offset, h.link)
    [] OTHER -> Node(Last(h.name), "VFS_FILE", cur, offset, <<>>)

Next_NoRounding(h) == offset + BLOCK * (1 + Value(h.size) \div BLOCK) \* variant
NextOffset(h) == offset + Span(h)

Enters(h) == h.type = TAR_DIR

Add ==
  /\ Turn /\ ~Climbs(hdr.name) /\ Len(tree[cur].children) < Room
  /\ LET new == Len(tree) + 1
         next == NextOffset(hdr)
     IN  /\ tree' = Append([tree EXCEPT ![cur].children = Append(@, new)],
                           NodeOf(hdr))
         /\ IF Enters(hdr) THEN cur' = new /\ ident' = hdr.name
            ELSE UNCHANGED <<cur, ident>>
         /\ offset' = next
         /\ IF OnDisk(BLOCK, next)
            THEN hdr' = HeaderAt(Disk, next) /\ UNCHANGED stage
            ELSE stage' = "mounted" /\ UNCHANGED hdr
  /\ UNCHANGED <<boot, disk, bytes, io, calls>>

\* Nothing counts the children: the next is written behind the array.
Overrun ==
  /\ Turn /\ ~Climbs(hdr.name) /\ Len(tree[cur].children) >= Room
  /\ stage' = "wild"
  /\ UNCHANGED <<boot, disk, parsing, bytes, io, calls>>

ArchiveEnds ==
  /\ stage = "parse" /\ hdr.format = "none"
  /\ stage' = "mounted"
  /\ UNCHANGED <<boot, disk, parsing, bytes, io, calls>>

-----------------------------------------------------------------------------
\* tar_read and tar_write: a file's bytes begin behind its header.
Global_NoHeader(n, at) == tree[n].offset + at                    \* variant
Global(n, at) == tree[n].offset + BLOCK + at
Byte(b) == IF b \in bytes THEN Written ELSE b

MayCall(n) ==
  stage = "mounted" /\ tree[n].type = "VFS_FILE" /\ calls < MaxCalls

TarRead(n, len, at) ==
  /\ MayCall(n) /\ calls' = calls + 1
  /\ io' = [op |-> "read", node |-> n, len |-> len, at |-> at, result |->
              IF OnDisk(len, Global(n, at))
              THEN [k \in 1 .. len |-> Byte(Global(n, at) + k - 1)]
              ELSE <<Failed>>]
  /\ UNCHANGED <<stage, boot, disk, parsing, bytes>>

TarWrite(n, len, at) ==
  /\ MayCall(n) /\ calls' = calls + 1
  /\ LET first == Global(n, at)
         done == OnDisk(len, first)
     IN  /\ bytes' = IF done THEN bytes \union (first .. first + len - 1)
                     ELSE bytes
         /\ io' = [op |-> "write", node |-> n, len |-> len, at |-> at,
                   result |-> IF done THEN [k \in 1 .. len |-> first + k - 1]
                              ELSE <<Failed>>]
  /\ UNCHANGED <<stage, boot, disk, parsing>>

Next ==
  \/ CreateInitrd \/ NoInitrd
  \/ OpenArchive \/ Climb \/ ClimbPastRoot \/ NoName \/ Add \/ Overrun
  \/ ArchiveEnds
  \/ \E n \in DOMAIN tree, r \in Ranges :
       TarRead(n, r[1], r[2]) \/ TarWrite(n, r[1], r[2])

(***************************************************************************)
(* The boot goes on until the tree is there; a program need not use it.    *)
(***************************************************************************)
Spec == Init /\ [][Next]_vars
FairSpec ==
  Spec /\ WF_vars(\/ CreateInitrd \/ NoInitrd \/ OpenArchive \/ Climb
                  \/ ClimbPastRoot \/ NoName \/ Add \/ Overrun \/ ArchiveEnds)

-----------------------------------------------------------------------------
(***************************************************************************)
(* The nodes are entries of the archive: the names on the way from the     *)
(* root to a node spell the name in the header at its offset, only         *)
(* directories have children, and what the parse holds for the directory's *)
(* name is the name of the directory it stands in (create_vfs.c:59-103).   *)
(***************************************************************************)
PathOf[n \in DOMAIN tree \union {NULL}] ==
  IF n \in {NULL, Root} THEN <<>>
  ELSE Append(PathOf[tree[n].parent], tree[n].name)

NodesAreEntries ==
  /\ stage \in {"parse", "mounted"} => ident = PathOf[cur]
  /\ \A n \in DOMAIN tree \ {Root} :
       /\ PathOf[n] = HeaderAt(Disk, tree[n].offset).name
       /\ tree[tree[n].parent].type = "VFS_DIR"
       /\ n \in ToSet(tree[tree[n].parent].children)

(***************************************************************************)
(* An archive that tar wrote of a tree, with each directory before what is *)
(* in it and nothing of another in between, that ends with a zero block    *)
(* and fits the arrays, comes to be mounted whole (create_vfs.c:42-111).   *)
(***************************************************************************)
IsWithin(p, q) == q # p /\ IsPrefix(q, p)
TreeOrder(es) ==
  \A i \in DOMAIN es :
    /\ es[i].name # <<>> /\ es[i].format # "none"
    /\ Dirname(es[i].name) # <<>> =>
         \E d \in 1 .. i - 1 :
           /\ es[d].type = TAR_DIR /\ es[d].name = Dirname(es[i].name)
           /\ \A j \in d + 1 .. i : IsWithin(es[j].name, es[d].name)

Fits(es) ==
  \A dir \in {<<>>} \union {es[i].name : i \in DOMAIN es} :
    Cardinality({i \in DOMAIN es : es[i].name # <<>>
                                     /\ Dirname(es[i].name) = dir})
      <= IF dir = <<>> THEN ROOT_MAX ELSE CHILD_MAX

Proper(m) ==
  /\ m.zeros > 0 /\ TreeOrder(m.entries) /\ Fits(m.entries)
  /\ m.entries # <<>> /\ m.entries[1].format = "ustar"
WholeTreeMounted ==
  (stage = "initrd" /\ Proper(Disk))
    ~> (stage = "mounted" /\ Len(tree) = 1 + Len(Disk.entries))

(***************************************************************************)
(* An access within a file's size reads, or writes, bytes of that file,    *)
(* and none of another file or of a header, if the archive has an end:     *)
(* without, the last block of the disk belongs to a file and is refused    *)
(* (tar_fileops.c:9-24, new_ramdisk_mount.c:9-30).                         *)
(***************************************************************************)
SizeOf(n) == Value(HeaderAt(Disk, tree[n].offset).size)
Owned(n) == tree[n].offset + BLOCK .. tree[n].offset + BLOCK + SizeOf(n) - 1

AccessesStayInFile ==
  io.node # NULL /\ Disk.zeros > 0 /\ io.at + io.len <= SizeOf(io.node) =>
    /\ Len(io.result) = io.len
    /\ ToSet(io.result) \subseteq Owned(io.node) \union {Written}
=============================================================================
