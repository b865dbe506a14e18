------------------------------ MODULE ITCPrintMC ------------------------------
(***************************************************************************)
(* Small rings and words for ITCPrint.                                     *)
(***************************************************************************)
EXTENDS ITCPrint, TLC

\* Words of one and of more characters, ended or not.
ShortWords == {<<"a">>, <<"b", EOL>>, <<NUL>>}
LineWords == {<<"a">>, <<"b", EOL>>}
\* An empty line after a line, in one word.
BlankLineWords == {<<"a">>, <<"b", EOL, EOL>>}

\* No core is special.
Cores == Permutations(Core)

SomeStrings == {<<"x">>}
=============================================================================
