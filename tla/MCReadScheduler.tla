-------------------------- MODULE MCReadScheduler --------------------------
(* A small instance of ReadScheduler for TLC. *)
EXTENDS ReadScheduler

\* Nothing at all, and one chunk more than two QPs of depth two can hold, with
\* chunks that end short in the middle of the list.
Lists == {<<>>, <<3, 1, 1, 1>>}
=============================================================================
