------------------------------ MODULE MCFiles ------------------------------
(***************************************************************************)
(* The archive holds one directory and one empty file; up to two           *)
(* directories are made.  Two descriptors can be open on the same file,    *)
(* whose buffer grows twice.                                               *)
(***************************************************************************)
EXTENDS Files

CONSTANTS r, i1, i2, i3

MCIds == {r, i1, i2, i3}
MCNames == {"d", "f"}
MCArchive ==
  << [id |-> i1, name |-> "d", type |-> "FT_DIR", data |-> <<>>],
     [id |-> i2, name |-> "f", type |-> "FT_REG", data |-> <<>>] >>
MCPaths ==
  { <<"/", "f">>, <<"/", "d">>, <<"/", "/", "f">>, <<"/", "d", "/", "d">>,
    <<"/", "d", "/", "f">>, <<"/", "d", "/", "d", "/", "f">>,
    <<"/", "dev", "/", "console">> }
MCBuffers == {<<2>>}
=============================================================================
