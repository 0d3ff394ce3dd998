------------------------------ MODULE MCCodec ------------------------------
(***************************************************************************)
(* Three small files.  Town: a two-way street and a one-way street of      *)
(* another class over the same pair of nodes, in two blocks with a node    *)
(* given twice.  Ring: a roundabout and a road to a node the file does not *)
(* place, a footway, a blob that is not compressed between two that are,   *)
(* a plain node.  Cut: a header that ends the file early.                  *)
(***************************************************************************)
EXTENDS Codec

Way(id, refs, keys, vals) == [id |-> id, refs |-> refs, keys |-> keys, vals |-> vals]
Dense(id, lon, lat) == [id |-> id, lon |-> lon, lat |-> lat]
Group(ways, nodes, dense) == [ways |-> ways, nodes |-> nodes, relations |-> <<"relation">>, dense |-> dense]
Data(data, granularity, strings, groups) ==
  [header |-> TRUE, type |-> "OSMData", data |-> data,
   block |-> [granularity |-> granularity, strings |-> strings, groups |-> groups]]
Header == [Data("zlib", {}, <<>>, <<>>) EXCEPT !.type = "OSMHeader"]
EndOfFile == [Header EXCEPT !.header = FALSE]

Town ==
  <<Header,
    Data("zlib", {}, <<"", "highway", "residential", "primary", "oneway", "yes">>,
         <<Group(<<Way(7, <<1, 1, 1>>, <<1>>, <<2>>)>>, <<>>, {Dense(<<2>>, <<3>>, <<2>>)})>>),
    Data("zlib", {1}, <<"", "highway", "primary", "oneway", "yes">>,
         <<Group(<<Way(8, <<2, -1>>, <<1, 3>>, <<2, 4>>)>>, <<>>, {Dense(<<2, 1>>, <<500, 100>>, <<200, 100, 7>>)}),
           Group(<<Way(7, <<2, 1>>, <<1>>, <<2>>)>>, <<>>, {})>>)>>

Ring ==
  <<Data("zlib", {100}, <<"", "highway", "tertiary", "junction", "roundabout", "footway">>,
         <<Group(<<Way(7, <<1, 1, -1>>, <<1, 3>>, <<2, 4>>), Way(9, <<2, 1>>, <<1>>, <<5>>)>>,
                 <<[id |-> 1, lon |-> 1, lat |-> 0]>>, {Dense(<<2>>, <<4>>, <<4>>)})>>),
    Data("raw", {}, <<"", "highway", "trunk">>, <<Group(<<Way(8, <<1, 1>>, <<1>>, <<2>>)>>, <<>>, {})>>),
    Data("zlib", {}, <<"", "highway", "trunk">>,
         <<Group(<<Way(6, <<2, 7>>, <<1, 99>>, <<2, 1>>)>>, <<>>, {})>>)>>

Cut == <<Town[2], EndOfFile, Town[3]>>

MCFiles == {Town, Ring, Cut}
MCSpots == [id \in 1..3 |-> CASE id = 1 -> {<<1, 1>>} [] id = 2 -> {<<1, 0>>, <<2, 2>>} [] id = 3 -> {}]
============================================================================
