----------------------------- MODULE MCWriterV2 -----------------------------
(***************************************************************************)
(* Values for TLC, and instances of WriterV2.                              *)
(***************************************************************************)
EXTENDS WriterV2, TLC

\* Strings in strcmp() order: "$data", "$metadata", a name of the longest
\* kind and two content types, the second of 254 bytes.
sData == 1
sMetadata == 2
sName == 3
sType == 4
sLongType == 5
MCStrings == 1..5
MCStrLen == <<5, 9, 255, 9, 254>>
MCInternal == {sData, sMetadata}

\* An empty content, one that ends just past a boundary, one with its
\* compressed form, which fills the 28 bytes between header and boundary.
MCContents == {"empty", "page", "image", "image.z"}
MCSizeOf == [empty |-> 0, page |-> 33, image |-> 100] @@ ("image.z" :> 28)
MCPlain == {"image"}
MCZlib == [image |-> "image.z"]

Req(n, ct, c, z) == [name |-> n, content_type |-> ct, content |-> c, zlib |-> z]

\* The same data under two names; the same packed bytes as compressed and as
\* plain data; an empty blob.
MCRequests == {Req(sData, sType, "page", FALSE),
               Req(sMetadata, sLongType, "page", FALSE),
               Req(sData, sType, "image", TRUE),
               Req(sName, sType, "image.z", FALSE),
               Req(sName, sLongType, "empty", FALSE)}

\* Hex names: upper and lower case convert to the same raw name.
MCHexNames == {"ab", "AB", "07"}
MCHexToRaw == [ab |-> 2, AB |-> 2] @@ ("07" :> 1)

\* Two requests that race for one place, and a third beside them.
RacingRequests == {Req(sData, sType, "page", FALSE),
                   Req(sMetadata, sLongType, "page", FALSE),
                   Req(sName, sType, "image", TRUE)}

\* One request, which is compressed.
CompressedRequest == {Req(sData, sType, "image", TRUE)}

\* Nothing tells one thread from another.
ThreadSymmetry == Permutations(Threads)
============================================================================
