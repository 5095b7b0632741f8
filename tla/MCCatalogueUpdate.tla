-------------------------- MODULE MCCatalogueUpdate --------------------------
(* TLC instances of CatalogueUpdate. *)
EXTENDS CatalogueUpdate, TLC

CONSTANTS pkg, v1, v2, a, b, h

Key(t, k) == [table |-> t, key |-> k]

\* Song s with one singer and one author.
SongRows(s, singer, author) ==
    <<Key("ZSONGS", <<s>>), Key("ZSONGMUSICIANS", <<s, author>>),
      Key("ZSONGSINGERS", <<s, singer>>)>>
\* Person i, written as a singer or as an author.
Singer(i) == <<Key("ZSINGERS", <<i>>)>>
Author(i) == <<Key("ZMUSICIANS", <<i>>)>>

MCCatalogue(artists, songs) ==
    [types |-> <<Key("ZSONGTYPES", <<0>>)>>,
     languages |-> <<Key("ZLANGUAGES", <<0>>)>>,
     artists |-> artists, songs |-> songs]

\* The package has one song, v1 two, and v2 one that numbers its people in
\* another order: its rows overlap with both and contain neither.
MCToc ==
    pkg :> MCCatalogue(Singer(0) \o Author(1), SongRows(0, 0, 1))
 @@ v1 :> MCCatalogue(Singer(0) \o Author(0) \o Singer(1),
                      SongRows(0, 1, 0) \o SongRows(1, 0, 0))
 @@ v2 :> MCCatalogue(Author(0) \o Singer(1), SongRows(0, 1, 0))

MCRow == UNION {{MCToc[v][p][i] : i \in 1..Len(MCToc[v][p])} :
                   v \in Version, p \in Parts}

MCBoxes == a :> v1 @@ b :> v2 @@ h :> pkg
MCTwoBoxes == a :> v1 @@ h :> pkg
=============================================================================
