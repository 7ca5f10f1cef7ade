---------------------------- MODULE MCFifoQueue -----------------------------
(***************************************************************************)
(* Small buffers; packets of one length, and of two.  Two bytes that are   *)
(* no length read as END_FLAG or lead out of the buffer.                   *)
(***************************************************************************)
EXTENDS FifoQueue

SmallSizes == 6 .. 11
OneOrTwoLengths == {{1}, {2}, {3}, {1, 2}}
AnyBytes == {EndFlag, 12}
=============================================================================
