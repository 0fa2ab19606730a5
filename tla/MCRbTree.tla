------------------------------ MODULE MCRbTree ------------------------------
(* RbTree on a small instance.  Internal nodes have no names but the one
   the allocator gave them, so states that differ in these alone, or in the
   flag left of the root, which nothing reads, are one. *)
EXTENDS RbTree, Sequences

ElevenKeys == 1 .. 11

RECURSIVE Shape(_, _)
Shape(n, p) ==
  <<heap[n].red, heap[n].root, heap[n].root \/ heap[n].left, heap[n].parent = p>> \o
  IF IsExt(n)
  THEN <<n, heap[n].flink, heap[n].blink>>
  ELSE <<heap[n].leftExt, heap[n].rightExt, Shape(heap[n].flink, n), Shape(heap[n].blink, n)>>

ShapeOfTree ==
  <<failed, heap[Nil].flink, heap[Nil].blink,
    IF heap[Nil].parent = Nil THEN <<>> ELSE Shape(heap[Nil].parent, Nil)>>
=============================================================================
