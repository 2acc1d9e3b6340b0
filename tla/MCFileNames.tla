----------------------------- MODULE MCFileNames -----------------------------
EXTENDS FileNames, TLC

(* Buffers of 2, 4, 8 bytes: link targets that fit, fill the first buffer  *)
(* exactly, and need two doublings; directory names whose NUL just fits.    *)
MCInitSize == 2

MCLinks == {<<"a", "b">>, <<"a", "b", "a">>, <<"b", "b", "b", "b", "a">>}

MCCwds == {<<"/">>, <<"/", "a">>, <<"/", "a", "b">>}

(* Canonical paths /a/b, /ab and /, and a path spelled with extra          *)
(* separators.                                                             *)
MCPaths == {<<"/", "a", "/", "b">>, <<"/", "/", "a", "b", "/">>, <<"/">>}

(* Load-path directories: empty (the current directory), the root, /a      *)
(* with and without its trailing separator, /a spelled //a, a relative     *)
(* name, and a directory that is not an ancestor.                          *)
MCDirs == {<<>>, <<"/">>, <<"/", "a">>, <<"/", "a", "/">>, <<"/", "/", "a">>,
           <<"a">>, <<"/", "b">>}

MCInPaths == {<<>>} \cup {<<d>> : d \in MCDirs} \cup {<<d, e>> : d, e \in MCDirs}

(* The same, with a path equal to a directory of the load path.            *)
MCPathsEqual == MCPaths \cup {<<"/", "a">>}
=============================================================================
