---------------------------- MODULE MCFileSystem ----------------------------
(* A directory and what is in it, for TLC.                                  *)
EXTENDS FileSystemProps

Dir        == [error |-> "none", kind |-> "dir", size |-> 0]
Reg(n)     == [error |-> "none", kind |-> "reg", size |-> n]
Link       == [error |-> "none", kind |-> "link", size |-> 0]
Missing(e) == [error |-> e, kind |-> "other", size |-> 0]
At(a, l, e) == [stat |-> a, lstat |-> l, open |-> e]

TwoLevels == {<<"a">>, <<"a", "b">>}
Kinds ==
  {At(Dir, Dir, "none"),
   At(Reg(1), Reg(1), "none"), At(Reg(2), Reg(2), "EACCES"),
   At(Dir, Link, "none"),
   At(Missing("ENOENT"), Missing("ENOENT"), "ENOENT")}
=============================================================================
