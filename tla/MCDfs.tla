------------------------------- MODULE MCDfs -------------------------------
(***************************************************************************)
(* Instances of Dfs: a root file system and one below it.                  *)
(***************************************************************************)
EXTENDS Dfs

Abs(parts) == [abs |-> TRUE, parts |-> parts]
Rel(parts) == [abs |-> FALSE, parts |-> parts]

MCMountNames == {Abs(<<>>), Abs(<<"sd">>)}

\* The same file by an absolute and by a relative name, and the directory.
MCGiven == {Abs(<<"sd">>), Abs(<<"sd", "a">>), Rel(<<"..", "sd", ".", "a">>)}

Perms == Permutations(Thread) \cup Permutations(Device)

=============================================================================
