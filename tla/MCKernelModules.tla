---------------------------- MODULE MCKernelModules ----------------------------
EXTENDS KernelModules

CONSTANTS a, b

\* Nothing, less than the buffer takes, and more.
SomeData == {<<>>, <<a>>, <<b, a, b>>}

\* Values written to the parameter count: below zero, and more than the default
\* and than what fits the first buffer.
SomeCounts == {-1, 4}
=============================================================================
