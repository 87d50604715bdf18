------------------------------ MODULE MCGradeShell ------------------------------
(* Three lines of input.  Two lines of the file and a half fit into the    *)
(* buffer of the listings, four and a half into that of sortAll.  Behind   *)
(* the text the stack is empty or holds one student more or two, who       *)
(* belong between those of the file or at an end.                          *)
EXTENDS GradeShell

S(n, g) == [name |-> n, grade |-> g]
MCStudents == {S(1, 1), S(2, 2)}
MCLeftovers == {<<>>, <<1>>, <<3, 0>>, <<2, 2>>}
MCInitialFiles ==
    {NoFile, <<>>, <<S(2, 1), S(1, 2)>>,
     <<S(1, 2), S(2, 1), S(3, 2)>>, <<S(1, 2), S(2, 1), S(3, 2), S(2, 2)>>}
===============================================================================
