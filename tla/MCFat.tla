------------------------------- MODULE MCFat -------------------------------
(* A small boot partition for TLC.                                         *)
EXTENDS Fat

MCTypedPaths ==
  [abs: {FALSE}, toks: {<<"a">>, <<"b">>, <<".">>, <<"a", "b">>, <<"a", "">>,
                        <<"a", "", "b">>, <<"..", "b">>, <<"b", "..">>}]
    \cup
  [abs: {TRUE}, toks: {<<>>, <<"a">>, <<"a", "b">>, <<".">>, <<"", "a">>}]

(* Single names and the dot: nothing is cut, and no path contains "..".    *)
MCPlainPaths == [abs: {FALSE}, toks: {<<"a">>, <<"b">>, <<".">>}]

MCInitDirs == {<<>>, <<"a">>, <<"a", "b">>}
MCInitFiles == {<<"b">>}
=============================================================================
