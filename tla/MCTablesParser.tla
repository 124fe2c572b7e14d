--------------------------- MODULE MCTablesParser ---------------------------
(* Instances of TablesParser for TLC.                                      *)
EXTENDS TablesParser, Sections

Nit    == [program |-> 0, pid |-> 16]
First  == [program |-> 1, pid |-> 8190]
Second == [program |-> 770, pid |-> 257]

Pats == {PatSection(c) : c \in {<<Nit, First, Second>>, <<Nit, Second>>, <<>>,
                                <<Nit, First, Second, First>>}}

Video  == [type |-> 2, pid |-> 4097]
Audio  == [type |-> 3, pid |-> 511]
Text   == [type |-> 6, pid |-> 8190]

Pmts == {PmtSection(c, n) : c \in {<<Video, Audio>>, <<Audio>>, <<Audio, Text, Video>>},
                            n \in {0, 3}}

News  == [hours |-> 1, minutes |-> 35, seconds |-> 0, status |-> 4, name |-> <<5, 78, 69>>]
Later == [hours |-> 0, minutes |-> 59, seconds |-> 30, status |-> 1, name |-> <<>>]
Fast  == [hours |-> 10, minutes |-> 0, seconds |-> 9, status |-> 2, name |-> <<66>>]

Eits == {EitSection(c) : c \in {<<News, Later>>, <<Later>>, <<>>, <<Fast, News, Later>>,
                                <<News, Later, Fast, News>>}}

AllSections == Pats \cup Pmts \cup Eits
=============================================================================
