------------------------------ MODULE MCEditor ------------------------------
(* A new file and one whose four lines and whose long line exceed the      *)
(* limits; and a program, which has a zero byte like every ELF file.       *)
EXTENDS Editor
CONSTANTS a, b
MCFiles == {Missing, <<b, a, b, NL, NL, b, NL, a>>}
MCProgram == <<Magic, b, NUL, b>>
MCBinaries == {MCProgram}
=============================================================================
