------------------------------ MODULE MCBoot ------------------------------
(* TLC instance of what kernel_main sets up in memory: the kernel heap,    *)
(* then the RAM disk.  Both are used in any order from then on.            *)
EXTENDS Mem, Initrd

BootInit == MemInit /\ Init

BootNext ==
  \/ pc # "build" /\ MemNext /\ UNCHANGED vars
  \/ make_initrd /\ UNCHANGED memVars
  \/ heap_end # 0 /\ (initrd_init \/ initrd_get_file) /\ UNCHANGED memVars

BootSpec == BootInit /\ [][BootNext]_<<memVars, vars>>

(* An address space of 64 bytes with a 14-byte heap at 16, so that the     *)
(* heap does not end on a 4-byte boundary; no request wraps.               *)
MCRequests == {0, 2, 7, 15}
ASSUME RequestsDoNotWrap

(* The field holds names of two bytes; the names of three and four bytes   *)
(* are cut to one that another file may have.                              *)
MCNames == {<<65>>, <<65, 66>>, <<65, 66, 65>>, <<65, 66, 66, 65>>}
MCContents == {<< >>, <<66>>, <<66, CR, LF>>, <<CR, CR, LF, LF>>, <<CR>>}
=============================================================================
