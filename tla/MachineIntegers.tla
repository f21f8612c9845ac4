-------------------------- MODULE MachineIntegers --------------------------
(***************************************************************************)
(* The integers of rounds and epochs (consensus-core/src/types.rs).        *)
(***************************************************************************)
EXTENDS Integers

CONSTANT MaxU64    \* u64::MAX: the largest round and epoch

U64 == 0..MaxU64
=============================================================================
