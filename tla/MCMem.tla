------------------------------- MODULE MCMem -------------------------------
(* TLC instance of the kernel heap for any request: an address space of 64 *)
(* bytes with a 14-byte heap at 16.                                        *)
EXTENDS Mem

\* Every size a size_t can hold.
MCAnyRequest == Addr
=============================================================================
