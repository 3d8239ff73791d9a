--------------------------- MODULE MCUnifiedPatch ---------------------------
EXTENDS UnifiedPatch

\* Short texts over two lines, where one of them is empty.
Short == UNION { [1 .. len -> {"a", ""}] : len \in 1 .. 3 }

\* Lines that occur once, in every order.
Unique == { <<"p", "q", "r", "s">> }
Orders == { s \in [1 .. 4 -> {"p", "q", "r", "s"}] : IsInjective(s) }

\* Changes far enough apart for hunks of their own, and all that is between.
Long   == <<"a", "p", "a", "q", "a", "r", "a">>
Without(gone) == LET Stays(l) == l \notin gone IN SelectSeq(Long, Stays)
Parts  == { Without(gone) : gone \in SUBSET {"p", "q", "r"} } \cup
          { Tail(Without(gone)) : gone \in SUBSET {"p", "q", "r"} }

MCInputs ==
    (Short \X Short) \cup (Unique \X Orders) \cup
    ({Long} \X Parts) \cup (Parts \X {Long}) \cup
    { <<<<"a", "c\r">>, <<"a">>>>, <<<<"a">>, <<"a", "c\r">>>>, <<<<"c\r", "a">>, <<"c\r">>>> }

PlainInputs == Short \X Short

MCLines == {"a", "", "p", "q", "r", "s", "c", "c\r"}
MCChomp == [l \in MCLines |-> IF l = "c\r" THEN "c" ELSE l]
=============================================================================
