----------------------------- MODULE MCCVMAssembler -----------------------------
(***************************************************************************)
(* A small instance of CVMAssembler: ints of 6 bits, and values of the     *)
(* sizes the emitter writes (an opcode or index, an int, a long) over two  *)
(* opcodes.                                                                *)
(***************************************************************************)
EXTENDS CVMAssembler

MCMaxInt == 2^5 - 1
MCByte == 0 .. 8
MCUnset == 255
MCValues == {<<1, 0>>, <<2, 0>>, <<3, 4, 5, 6>>, <<1, 2, 3, 4, 5, 6, 7, 8>>}
MCRequests == 1 .. MCMaxInt
===============================================================================
