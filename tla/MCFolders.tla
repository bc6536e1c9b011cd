------------------------------ MODULE MCFolders ------------------------------
(* Names without and with a slash.                                         *)
EXTENDS Folders, TLC

SomeNames == {<<"a">>, <<"b">>, <<"a", "b">>}

Interchangeable == Permutations(Folder) \cup Permutations(Requests)

=============================================================================
