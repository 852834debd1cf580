------------------------------- MODULE MCVm --------------------------------
(* Vm on a small instance: executables with one and two segments, one that   *)
(* overlaps, one that is not aligned and one whose header is wrong.          *)
EXTENDS Vm

Segment(vaddr, memsz, filesz, w) == [vaddr |-> vaddr, memsz |-> memsz, filesz |-> filesz, w |-> w]

MCGrow == {-3, -1, 1, 2, 5}

MCImages ==
  {<<>>, <<Segment(0, 3, 2, FALSE)>>, <<Segment(0, 1, 1, FALSE), Segment(2, 2, 1, TRUE)>>,
   <<Segment(0, 3, 3, FALSE), Segment(0, 1, 1, TRUE)>>,
   <<Segment(0, 1, 1, FALSE), Segment(3, 1, 1, TRUE)>>, <<Segment(0, 1, 2, FALSE)>>}
=============================================================================
