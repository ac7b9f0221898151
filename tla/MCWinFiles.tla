----------------------------- MODULE MCWinFiles -----------------------------
(* WinFiles for TLC: an ordinary file, a directory, a link and the terminal. *)
EXTENDS WinFiles, TLC

CONSTANTS img, dir, lnk, con, s1

MCKind == img :> "file" @@ dir :> "dir" @@ lnk :> "link" @@ con :> "chr"

Named(ext, long) == [ext |-> ext, long |-> long]
Exe == Named(<<69, 88, 69>>, FALSE)
Plain == Named(<<>>, FALSE)
Other == Named(<<116, 120, 116>>, FALSE)
Folder == Named(<<111, 117, 116>>, FALSE)
Long == Named(<<>>, TRUE)

MCStart == img :> Exe @@ dir :> Folder @@ lnk :> Plain @@ con :> Other
MCNames == {Exe, Folder, Plain, Other, Long}

Mode(first, rest) == [first |-> first, rest |-> rest]
MCModes == {Mode("r", {}), Mode("a", {}), Mode("w", {"+", "x", "e"}), Mode("", {}), Mode("?", {})}

MCPerms == {{<<"usr", "r">>}, {<<"usr", "r">>, <<"grp", "w">>}}
=============================================================================
