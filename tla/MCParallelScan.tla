--------------------------- MODULE MCParallelScan ---------------------------
(***************************************************************************)
(* ParallelScan over one source of any bytes and a second whose size is    *)
(* not known, or that is empty.                                            *)
(***************************************************************************)
EXTENDS ParallelScan, TLC

CONSTANT BothLen \* bound: bytes of the first source when there is a second

\* The second source: one record, of a size sizeOf cannot tell, or an empty file.
ExtraSources == {[bytes |-> <<"s", "n">>, sized |-> FALSE],
                 [bytes |-> <<>>, sized |-> TRUE]}

\* The longest sources are scanned alone.
MCInit == Init /\ (srcs[2].bytes # <<>> => Len(srcs[1].bytes) <= BothLen)

MCSpec == MCInit /\ [][Next]_vars

\* The workers are alike.
WorkerSymmetry == Permutations(Workers)
=============================================================================
