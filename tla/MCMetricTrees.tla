--------------------------- MODULE MCMetricTrees ---------------------------
EXTENDS MetricTrees

\* Words of three bits under the Hamming distance: few distances, many ties.
Cube == {0, 1} \X {0, 1} \X {0, 1}
Hamming == [p \in Cube \X Cube |-> Cardinality({ n \in 1 .. 3 : p[1][n] # p[2][n] })]

Word(a, b, c) == <<a, b, c>>
SomeItems   == { Word(0, 0, 0), Word(0, 0, 1), Word(1, 1, 1) }
SomeQueries == { Word(0, 0, 0), Word(1, 0, 1) }

\* Nothing, and corpora with a duplicate and with ties at the median.
SomeCorpora ==
    { << >>,
      << Word(0,0,0), Word(0,0,1), Word(0,1,0), Word(1,0,0), Word(0,1,1) >>,
      << Word(0,1,1), Word(0,0,0), Word(1,1,1) >> }
=============================================================================
