--------------------------- MODULE MCProcessorReducer ---------------------------
(***************************************************************************)
(* An instance of ProcessorReducer for TLC: chains of features of depth    *)
(* two and the states derived from two of them.                            *)
(***************************************************************************)
EXTENDS ProcessorReducer

MCFeatureNames == <<"AVX", "AVX2", "AVX512BW", "AVX512F">>
MCStateNames == <<"xcr0.avx", "xcr0.avx512">>

Use(cpu, elapsed, output) ==
    [cpu |-> cpu, elapsed |-> elapsed, output |-> output]

\* An ordinary trial, one that is slow, one at the limits and one beyond each.
MCUsages ==
    {Use(1, 1, 1), Use(1, 2, 1), Use(2, 2, 2),
     Use(3, 1, 1), Use(1, 3, 1), Use(1, 1, 3)}

\* Three ordinary trials stay within the totals; two at the limits reach those
\* of cpu and output, and slow ones that of elapsed time.
MCPolicy ==
    [maximum_trials |-> 3, total |-> Use(4, 5, 4), trial |-> Use(2, 2, 2)]
================================================================================
