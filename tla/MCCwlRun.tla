------------------------------ MODULE MCCwlRun ------------------------------
\* CwlRun for TLC: graphs of up to three processes, trees with and without a STAC root, at
\* the top and in a directory, with assets of one name in two directories, and packages of
\* which the user puts two into a directory that trees have too.
EXTENDS CwlRun, TLC

In(d, n)    == [dir |-> <<d>>, name |-> n]
Below(d, e, n) == [dir |-> <<d, e>>, name |-> n]

AllGraphs == {<<"cwl", "validate">>, <<"cwl", "cwl", "cwl">>, <<"save", "cwl", "cwl">>,
              <<"cwl", "save", "cwl">>, <<"cwl", "save", "save">>}

AllTrees == {
  {},
  {Top("a.tif"), Top("b.json")},
  {Top("a.tif"), Top("a.json"), In("d1", "b.tif")},
  {Top("a.tif"), Top("n.nc")},
  {Top("l.json")},
  {Top("b.tif"), Below("d1", "e", "collection.json")},
  {Top("collection.json"), Top("i.json"), Top("a.tif"), In("items", "j.json"), In("m", "a.tif")},
  {In("d1", "catalog.json"), In("d1", "collection.json"), In("d1", "i.json"), In("d1", "a.tif"),
   In("d2", "collection.json"), Top("b.tif")},
  {In("d2", "collection.json"), In("d2", "i.json"), Below("d2", "items", "i.json"),
   Below("d2", "items", "j.json"), Below("d2", "m", "a.tif")}
}

Package(d)  == {In(d, "collection.json"), In(d, "c.tif")}
ThePackages == <<Package("uuid1"), Package("d1"), Package("d1")>>
GivenFolders == {2, 3}
AllFeatures == {"i.json", "j.json"}
Asset    == ("i.json" :> Top("a.tif")) @@ ("j.json" :> In("m", "a.tif"))
ItemFile == [n \in Names |-> CASE n \in {"a.tif", "a.json"} -> "a.json"
                              [] n \in {"b.tif", "b.json"} -> "b.json"
                              [] n = "c.tif" -> "c.json"
                              [] n = "n.nc" -> "n.json"
                              [] OTHER -> n]
CollectionNames == {"collection.json"}
ArrayNames == {"l.json"}
NetCDFNames == {"n.nc"}
DirNames == <<"d1", "d2", "items", "m">>
=============================================================================
