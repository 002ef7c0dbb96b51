------------------------------- MODULE MCGpu --------------------------------
(* The constants of the GPU run.                                           *)
EXTENDS VirtioGpu

Cap(kind, next) == [kind |-> kind, next |-> next]

\* A complete list, one without a doorbell, and one that runs in a circle.
MCCapLists == {
    <<Cap("common", 2), Cap("notify", 3), Cap("isr", 0)>>,
    <<Cap("common", 3), Cap("other", 0), Cap("isr", 2)>>,
    <<Cap("other", 2), Cap("common", 3), Cap("notify", 1)>>}
=============================================================================
