----------------------------- MODULE SharedFile -----------------------------
(***************************************************************************)
(* The file SHARED_FILE_NAME that every rank of the shared-memory programs *)
(* opens, truncates and maps before the first barrier.  Nobody ever        *)
(* unlinks it: it may hold anything, of any size, from an earlier run.     *)
(***************************************************************************)
EXTENDS Arguments

CONSTANTS PageSize,     \* granularity of SIGBUS on a short file
          FileSizes     \* what an earlier run can have left

ASSUME FileAssumption == PageSize \in Nat \ {0} /\ FileSizes \subseteq Nat

VARIABLES mapped,       \* mapped[r]: mmap gave rank r a usable shmem_ptr
          fsize         \* the size of the file

file == <<blocksize, mapped, fsize>>

(* open, ftruncate and mmap of rank r.  Each failure is printed and main   *)
(* goes on; a failed open leaves fd = -1 and fails the other two as well.  *)
OpenAndMap(r) ==
    /\ \E opened, truncated, mmapped \in BOOLEAN :
           /\ fsize' = IF opened /\ truncated THEN BufSize ELSE fsize
           /\ mapped' = [mapped EXCEPT ![r] = opened /\ mmapped]
    /\ UNCHANGED blocksize

Unmap(r) == mapped' = [mapped EXCEPT ![r] = FALSE] /\ UNCHANGED <<blocksize, fsize>>

(* An access of the mapping raises no signal: mmap succeeded and the page  *)
(* lies within the file.                                                   *)
Backed(r, x) ==
    /\ mapped[r]
    /\ x < ((fsize + PageSize - 1) \div PageSize) * PageSize
=============================================================================
