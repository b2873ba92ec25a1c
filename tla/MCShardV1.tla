----------------------------- MODULE MCShardV1 -----------------------------
(***************************************************************************)
(* Instances of ShardV1 for TLC.                                           *)
(***************************************************************************)
EXTENDS ShardV1, TLC

\* The empty content type and two others.
MCStrings == 0..2
MCStrLen == [s \in MCStrings |-> <<0, 9, 24>>[s + 1]]
MCTypes == {1, 2}

\* An article of two pieces in two editions of one size, what is read of it
\* when the edition changes between the pieces, a page that becomes empty, and
\* the article compressed, 64 bytes.
MCChunks == {"a1", "b1", "a2", "b2", "page", "z"}
MCPieces == [empty |-> <<>>, page |-> <<"page">>,
             article |-> <<"a1", "b1">>, article2 |-> <<"a2", "b2">>,
             torn12 |-> <<"a1", "b2">>, torn21 |-> <<"a2", "b1">>]
         @@ ("article.z" :> <<"z", "a1", "b1">>) @@ ("article2.z" :> <<"z", "a2", "b2">>)
         @@ ("torn12.z" :> <<"z", "a1", "b2">>) @@ ("torn21.z" :> <<"z", "a2", "b1">>)
MCContents == DOMAIN MCPieces
MCPlain == {"article", "article2", "torn12", "torn21"}
MCZlib == [article |-> "article.z", article2 |-> "article2.z",
           torn12 |-> "torn12.z", torn21 |-> "torn21.z"]
MCSizeOf == [c \in MCContents |-> IF c = "empty" THEN 0 ELSE IF c = "page" THEN 33
                                  ELSE IF c \in MCPlain THEN 100 ELSE 64]

MCSources == {"a.html", "b.html"}
MCVersions == ("a.html" :> {"article", "article2"}) @@ ("b.html" :> {"page", "empty"})

\* One source with two types, two sources with one.
MCRequests == {[source |-> "a.html", type |-> 2, zlib |-> TRUE],
               [source |-> "a.html", type |-> 1, zlib |-> FALSE],
               [source |-> "b.html", type |-> 1, zlib |-> FALSE]}

MCHexNames == {"ab", "07"}
MCHexToRaw == [ab |-> 2] @@ ("07" :> 1)
=============================================================================
