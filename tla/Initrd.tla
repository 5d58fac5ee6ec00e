------------------------------- MODULE Initrd -------------------------------
(***************************************************************************)
(* The RAM disk: tools/mkinitrd.py packs the files on the build host,      *)
(* kernel_main hands the loaded module to initrd_init, and initrd_get_file *)
(* (kernel/initrd.c) walks the headers to find a file.                     *)
(*                                                                         *)
(* The image is a sequence of bytes; a uint32_t in it is four bytes, low   *)
(* byte first.  Names and file contents are short sequences of bytes.  The *)
(* loop of initrd_get_file is an action per turn, over byte addresses.     *)
(***************************************************************************)
EXTENDS Integers, Sequences, FiniteSets, SequencesExt

CONSTANTS
  NAME_LEN,   \* 32: the name field of a header
  BASE,       \* mod_start, where the boot loader put the module
  Names,      \* base names of files on the host
  Contents,   \* contents of files on the host
  MaxFiles    \* bound: arguments of mkinitrd.py

NUL == 0
LF == 10
CR == 13

ASSUME InitrdAssumption ==
  /\ NAME_LEN \in Nat /\ NAME_LEN > 1
  /\ BASE \in Nat \ {0}
  /\ Names \subseteq Seq(1 .. 127) /\ << >> \notin Names
  /\ Contents \subseteq Seq(0 .. 255)
  /\ MaxFiles \in Nat

VARIABLES
  files,                   \* history: what mkinitrd.py was given
  image,                   \* initrd.img, then the module in memory
  initrd_base, n_files,    \* the statics of initrd.c
  pc,                      \* build, boot, idle, loop, done
  name, i, header_ptr, data_ptr,   \* initrd_get_file
  ret, size                \* what it returned, and through the pointer

lookupVars == <<name, i, header_ptr, data_ptr, ret, size>>
vars == <<files, image, initrd_base, n_files, pc, lookupVars>>

NULL == 0
HEADER == NAME_LEN + 4

-----------------------------------------------------------------------------
(* mkinitrd.py *)

PackWord(n) ==
  <<n % 256, (n \div 256) % 256, (n \div 65536) % 256, n \div 16777216>>

Fits(s) == Len(s) < NAME_LEN

(* Mutant: the whole name field is used, no NUL is kept. *)
CutName_Full(s) == SubSeq(s, 1, IF Fits(s) THEN Len(s) ELSE NAME_LEN)

(* The name, cut to one less than the field. *)
CutName(s) == SubSeq(s, 1, IF Fits(s) THEN Len(s) ELSE NAME_LEN - 1)

(* Padded with NULs. *)
PackedName(s) ==
  CutName(s) \o [k \in 1 .. NAME_LEN - Len(CutName(s)) |-> NUL]

(* CR LF becomes LF; a file that does not end in a newline gets one.       *)
UnixLines(data) ==
  LET kept == {k \in 1 .. Len(data) :
                 ~(data[k] = CR /\ k < Len(data) /\ data[k + 1] = LF)}
  IN [n \in 1 .. Cardinality(kept) |->
        data[CHOOSE k \in kept : Cardinality({m \in kept : m <= k}) = n]]

FileData(data) ==
  LET text == UnixLines(data) IN
  IF text # << >> /\ Last(text) = LF THEN text ELSE Append(text, LF)

(* Mutant: the size is taken before the newlines are converted. *)
Header_RawSize(f) == PackedName(f.name) \o PackWord(Len(f.data))

Header(f) == PackedName(f.name) \o PackWord(Len(FileData(f.data)))

Image(fs) ==
  PackWord(Len(fs))
    \o FlattenSeq([k \in 1 .. Len(fs) |-> Header(fs[k])])
    \o FlattenSeq([k \in 1 .. Len(fs) |-> FileData(fs[k].data)])

(* Without a file argument mkinitrd.py only prints its usage. *)
make_initrd ==
  /\ pc = "build"
  /\ \E fs \in SeqOf([name : Names, data : Contents], MaxFiles) \ {<< >>} :
       files' = fs /\ image' = Image(fs)
  /\ pc' = "boot"
  /\ UNCHANGED <<initrd_base, n_files, lookupVars>>

-----------------------------------------------------------------------------
(* The module in memory. *)

Byte(a) == image[a - BASE + 1]
Word(a) == Byte(a) + 256 * Byte(a + 1) + 65536 * Byte(a + 2) + 16777216 * Byte(a + 3)

(* kernel_main: if the boot loader reports a module, initrd_init. *)
initrd_init ==
  /\ pc = "boot"
  /\ \/ initrd_base' = BASE /\ n_files' = Word(BASE)
     \/ UNCHANGED <<initrd_base, n_files>>     \* mods_count = 0
  /\ pc' = "idle"
  /\ UNCHANGED <<files, image, lookupVars>>

(* The bytes of a C string: the argument ends in its NUL. *)
At(s, k) == IF k <= Len(s) THEN s[k] ELSE NUL

(* strncmp(s1, s2, n) == 0 of libc.c: its loop stops at the first position *)
(* where s1 ends or the two differ.                                        *)
strncmp_Equal(s1, s2, n) ==
  LET stops == {k \in 1 .. n : At(s1, k) = NUL \/ At(s1, k) # At(s2, k)} IN
  \/ stops = {}
  \/ \E k \in stops : (\A m \in stops : k <= m) /\ At(s1, k) = At(s2, k)

-----------------------------------------------------------------------------
(* initrd_get_file *)

GetFile(s) ==
  /\ pc = "idle"
  /\ name' = s /\ i' = 0
  /\ \/ /\ initrd_base = NULL \/ n_files = 0
        /\ ret' = NULL /\ pc' = "done"
        /\ UNCHANGED <<header_ptr, data_ptr, size>>
     \/ /\ initrd_base # NULL /\ n_files # 0
        /\ header_ptr' = initrd_base + 4
        /\ data_ptr' = initrd_base + 4 + n_files * HEADER
        /\ pc' = "loop"
        /\ UNCHANGED <<ret, size>>
  /\ UNCHANGED <<files, image, initrd_base, n_files>>

HeaderName == [k \in 1 .. NAME_LEN |-> Byte(header_ptr + k - 1)]

Found ==
  /\ pc = "loop" /\ i < n_files
  /\ strncmp_Equal(HeaderName, name, NAME_LEN)
  /\ size' = Word(header_ptr + NAME_LEN)
  /\ ret' = data_ptr
  /\ pc' = "done"
  /\ UNCHANGED <<files, image, initrd_base, n_files, name, i, header_ptr, data_ptr>>

(* Mutant: the data pointer stays where it is. *)
NextHeader_SameData ==
  /\ pc = "loop" /\ i < n_files
  /\ ~strncmp_Equal(HeaderName, name, NAME_LEN)
  /\ i' = i + 1
  /\ header_ptr' = header_ptr + HEADER
  /\ UNCHANGED <<files, image, initrd_base, n_files, pc, name, data_ptr, ret, size>>

NextHeader ==
  /\ pc = "loop" /\ i < n_files
  /\ ~strncmp_Equal(HeaderName, name, NAME_LEN)
  /\ i' = i + 1
  /\ header_ptr' = header_ptr + HEADER
  /\ data_ptr' = data_ptr + Word(header_ptr + NAME_LEN)
  /\ UNCHANGED <<files, image, initrd_base, n_files, pc, name, ret, size>>

NotFound ==
  /\ pc = "loop" /\ i >= n_files
  /\ ret' = NULL /\ pc' = "done"
  /\ UNCHANGED <<files, image, initrd_base, n_files, name, i, header_ptr, data_ptr,
                 size>>

initrd_get_file == (\E s \in Names : GetFile(s)) \/ Found \/ NextHeader \/ NotFound

Init ==
  /\ files = << >> /\ image = << >>
  /\ initrd_base = NULL /\ n_files = 0
  /\ pc = "build"
  /\ name = << >> /\ i = 0 /\ header_ptr = 0 /\ data_ptr = 0
  /\ ret = NULL /\ size = 0     \* start_nexus_python sets script_size to 0

Next == make_initrd \/ initrd_init \/ initrd_get_file

Spec == Init /\ [][Next]_vars

-----------------------------------------------------------------------------
(***************************************************************************)
(* The packer and the kernel agree on the layout ("Layout (matches         *)
(* mkinitrd.py)"): a name that fits the field is found if a file was       *)
(* packed under it, and what initrd_get_file returns, pointer and size,    *)
(* delimits exactly the normalised contents of the first file whose name   *)
(* was cut to it.  That need not be the file of that name: the packer does *)
(* not notice that it cut a longer name, packed before, to the same bytes. *)
(* A name that nothing was cut to gives NULL.                              *)
(***************************************************************************)
FirstNamed(s) ==
  {k \in DOMAIN files :
     CutName(files[k].name) = s /\ \A m \in 1 .. k - 1 : CutName(files[m].name) # s}
GetsThePackedFile ==
  pc = "done" /\ Fits(name) =>
    IF initrd_base = NULL \/ FirstNamed(name) = {}
      THEN ret = NULL
      ELSE \A k \in FirstNamed(name) :
             /\ ret # NULL
             /\ [b \in 1 .. size |-> Byte(ret + b - 1)] = FileData(files[k].data)

(***************************************************************************)
(* The walk never leaves the module: every header it reads is a whole      *)
(* header before the data, and data_ptr never passes the end of the image, *)
(* also when files are empty, names were cut or nothing matches.           *)
(***************************************************************************)
WalkStaysInImage ==
  pc = "loop" =>
    /\ i < n_files => header_ptr + HEADER <= BASE + 4 + n_files * HEADER
    /\ data_ptr <= BASE + Len(image)
    /\ i = n_files => data_ptr = BASE + Len(image)

(***************************************************************************)
(* A name too long for the field is never found, not even the file packed  *)
(* under it: the kernel compares a byte more than the packer keeps.        *)
(***************************************************************************)
LongNamesAreNotFound == pc = "done" /\ ~Fits(name) => ret = NULL
=============================================================================
