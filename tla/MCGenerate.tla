----------------------------- MODULE MCGenerate -----------------------------
(***************************************************************************)
(* A project p with one directory and a file beside it, and the shapes of  *)
(* output that make generators meet, and one run's output meet another's.  *)
(***************************************************************************)
EXTENDS Generate, TLC

File1(p) == [path |-> p, kind |-> "file"]
Dir1(p) == [path |-> p, kind |-> "dir"]
Other1(p) == [path |-> p, kind |-> "other"]

MCName == {"p", "d", "x", "e", "r"}
P == <<"p">>
D == <<"p", "d">>
DX == <<"p", "d", "x">>
E == <<"p", "e">>
R == <<"p", "r">>
EX == <<"p", "e", "x">>
MCPath == {<<>>, P, R, D, DX, E, EX}
MCLinkTo == D :> E

NoLeaving == <<>>
FileX == <<File1(<<"x">>)>>
FileD == <<File1(<<"d">>)>>
FileE == <<File1(<<"e">>)>>
DirD == <<Dir1(<<"d">>)>>
DirDX == <<Dir1(<<"d">>), File1(<<"d", "x">>)>>
DirDXE == <<Dir1(<<"d">>), File1(<<"d", "x">>), File1(<<"e">>)>>
LinkE == <<Other1(<<"e">>)>>
FileR == <<File1(<<"r">>)>>
DirR == <<Dir1(<<"r">>)>>

MCLeaving == {NoLeaving, FileX, FileD, FileE, DirD, DirDX, LinkE, FileR, DirR}

(* The same project with a directory inside its directory, which is where  *)
(* pruning has more than one level to tidy.                                *)
DS == <<"p", "d", "s">>
DSX == <<"p", "d", "s", "x">>
DeepName == MCName \cup {"s"}
DXX == <<"p", "d", "x", "x">>
DeepPath == {<<>>, P, R, D, DX, DXX, DS, DSX}
DeepLinkTo == DS :> DX
FileS == <<Dir1(<<"d">>), File1(<<"d", "s">>)>>
DirDSX == <<Dir1(<<"d">>), Dir1(<<"d", "s">>), File1(<<"d", "s", "x">>)>>
DeepLeaving == {NoLeaving, FileX, FileD, DirR, DirDX, FileS, DirDSX}
DeepHandPath == {R, DX, DXX, DS}

MCManifest == {<<P>>, <<P, P>>, <<P, D>>}
RoughManifest == MCManifest \cup {<<D, E>>}
MCHandPath == {R, D, DX, E, EX}
=============================================================================
