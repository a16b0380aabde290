------------------------------ MODULE Ramdisk ------------------------------
(***************************************************************************)
(* The RAMDISK: the image tools/mkramdisk.c packs and the lookup by name in *)
(* the kernel (ramdisk_get_entry() in trap_handler.c, ramdisk_find() in     *)
(* main.c).  Strings are sequences of characters; a byte of the image is    *)
(* found by its offset.                                                     *)
(***************************************************************************)
EXTENDS Integers, Sequences, SequencesExt

CONSTANTS
    NAME_MAX,       \* characters of ramdisk_entry_t.name before its NUL (31)
    HEADER, ENTRY,  \* sizeof(ramdisk_header_t), sizeof(ramdisk_entry_t)
    Char,           \* the characters of paths and the bytes of files
    Inputs          \* the file lists mkramdisk may be given

ASSUME RamdiskAssumption ==
    /\ NAME_MAX \in Nat /\ HEADER \in Nat /\ ENTRY \in Nat
    /\ Inputs \subseteq Seq([path : Seq(Char), bytes : Seq(Char)])

RAMDISK_MAGIC == "LAZU"

VARIABLES
    argv,           \* the files given to mkramdisk: [path, bytes]
    disk            \* the image

\* The characters after the last '/'.
get_filename(path) ==
    SubSeq(path, SelectLastInSeq(path, LAMBDA c : c = "/") + 1, Len(path))

Min2(a, b) == IF a < b THEN a ELSE b

\* strncpy() of at most NAME_MAX characters.
StoredName(path) ==
    LET name == get_filename(path) IN SubSeq(name, 1, Min2(Len(name), NAME_MAX))

\* Mutant: the directory's own size is left out of the first offset.
Bug_FirstOffset(files) == HEADER

FirstOffset(files) == HEADER + Len(files) * ENTRY

\* Where the bytes of each file start.
Offsets(files) ==
    LET offset[i \in 1 .. Len(files)] ==
            IF i = 1 THEN FirstOffset(files)
                     ELSE offset[i - 1] + Len(files[i - 1].bytes)
    IN offset

\* The image: header, directory, then the files one after the other.
mkramdisk(files) ==
    [magic   |-> RAMDISK_MAGIC,
     entries |-> [i \in 1 .. Len(files) |->
                    [name   |-> StoredName(files[i].path),
                     offset |-> Offsets(files)[i],
                     size   |-> Len(files[i].bytes)]],
     bytes   |-> [k \in 1 .. HEADER + Len(files) * ENTRY |-> "meta"]
                    \o FlattenSeq([i \in 1 .. Len(files) |-> files[i].bytes])]

\* The first entry of that name, or 0.
ramdisk_get_entry(name) ==
    IF disk.magic # RAMDISK_MAGIC THEN 0
    ELSE SelectInSeq(disk.entries, LAMBDA e : e.name = name)

\* The bytes of the image from offset on.
DiskBytes(offset, size) == SubSeq(disk.bytes, offset + 1, offset + size)

-----------------------------------------------------------------------------
(* Properties.                                                             *)

Names == UNION {{get_filename(a[i].path) : i \in DOMAIN a} : a \in Inputs}

\* Packing and lookup fit together: a name finds the bytes of the first file
\* whose name, cut to NAME_MAX characters, it is, however many files precede
\* it and whether or not they are empty; and no other name finds anything.
LookupFindsTheFile ==
    \A name \in Names :
        LET i == SelectInSeq(argv, LAMBDA f : StoredName(f.path) = name)
            e == ramdisk_get_entry(name)
        IN IF i = 0 THEN e = 0
           ELSE /\ e # 0
                /\ DiskBytes(disk.entries[e].offset, disk.entries[e].size)
                     = argv[i].bytes
=============================================================================
