------------------------------ MODULE MCShell ------------------------------
(***************************************************************************)
(* A line of ten characters, four words, a pipe of three; files a and b    *)
(* two levels deep; lines with one to three commands, empty commands, too  *)
(* many words and too many characters.                                     *)
(***************************************************************************)
EXTENDS Shell

MCArg == {<<"/">>, <<"a">>, <<"b">>, <<".">>, <<"..">>, <<"/", "a">>, <<"/", "b", "/">>,
          <<"a", "/", "b">>, <<"a", "/">>, <<"..", "/", "b">>, <<"..", "/", "..">>,
          <<"/", "/", "a", "/", "/", "b">>, <<".", "/", "a">>, <<"b", "/", "..", "/", "a">>,
          <<"/", "a", "/", "..">>, <<"..", "/">>, <<"/", "..", "/", "b", "/", ".">>}
MCLine == {<<Word, "sp", Word, "sp", Word, "sp", Word, "sp", Word, "sp", Word>>,
           <<"sp", Word, Word, "sp", "sp", Word, "sp">>,
           <<Word, "|", Word, "sp", Word, "|", Word>>,
           <<Word, "sp", Word, "|", "sp", Word, "sp">>,
           <<"|", Word, "|">>}
=============================================================================
