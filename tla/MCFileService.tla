--------------------------- MODULE MCFileService ---------------------------
\* FileService for TLC: uploads of one file in three ways, of files in a directory and in one
\* below it and of one with the directory's name, with everything that reads or deletes them.
EXTENDS FileService, TLC

CONSTANTS r1, r2, r3, s1, s2

Put(s, p, parts)   == [op |-> "put", sub |-> s, path |-> p, parts |-> parts]
Get(s, p, ranges)  == [op |-> "get", sub |-> s, path |-> FILES \o p, ranges |-> ranges]
Ask(op, s, p)      == [op |-> op, sub |-> s, path |-> p]

AllAsks == {
  Put(s1, <<"a">>, <<2>>), Put(s1, <<"a">>, <<1, 1>>), Put(s1, <<"a">>, <<1, None>>),
  Put(s1, <<"d", "b">>, <<1>>), Put(s1, <<"d", "e", "b">>, <<1>>), Put(s1, <<"d">>, <<1>>), Ask("list", s2, <<>>),
  Get(s1, <<"a">>, {}), Get(s1, <<"a">>, {<<0, 1>>}), Get(s1, <<"a">>, {<<1, 9>>}),
  Get(s1, <<"a">>, {<<1, Absent>>}), Get(s1, <<"a">>, {<<1, 1>>}), Get(None, <<"a">>, {}),
  Ask("delete", s1, <<"a">>), Ask("delete", s1, <<"d">>), Ask("list", s1, <<>>),
  Ask("head", s1, FILES \o <<"a">>)
}
AllRequests == {r1, r2, r3}
AllSubs == {s1, s2}
AllIds == <<"u1", "u2", "u3">>
AllKeys == 1 .. 2
Symmetry == Permutations(AllRequests)
=============================================================================
