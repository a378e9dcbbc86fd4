-------------------------- MODULE MCCatalogWrites --------------------------
(* Model values for CatalogWrites: 1 and 2 are created under one name.     *)
EXTENDS CatalogWrites, TLC

MCNameOf == [u \in Uids |-> IF u = 3 THEN "beta" ELSE "alpha"]

\* a category below one parent or the other
MCPaths == {<<"a", "c">>, <<"b", "c">>}

Load(kind, uids, n, version, f) ==
    [kind |-> kind, uids |-> uids, calls |-> n, version |-> [u \in Uids |-> version[u]],
     faults |-> f]

\* Every chain with failures; status writes that race, with a failure or with one
\* more version; and a category whose name is used again, while a status write of
\* it is in flight
MCLoads == {Load("Product", {1, 2}, 4, <<2, 2, 2>>, 2),
            Load("Collection", {1, 2}, 4, <<2, 2, 2>>, 2),
            Load("ProductVariant", {1, 3}, 4, <<2, 2, 2>>, 1),
            Load("CategoryTaxonomy", {1}, 2, <<3, 0, 0>>, 1),
            Load("CategoryTaxonomy", {1}, 2, <<4, 0, 0>>, 0),
            Load("CategoryTaxonomy", {1, 2}, 3, <<3, 3, 0>>, 0),
            Load("CategoryTaxonomy", {1, 2}, 3, <<4, 2, 0>>, 0)}

\* A category that is updated between two status writes
ReparentLoads == {Load("CategoryTaxonomy", {1}, 2, <<4, 0, 0>>, 0)}

WriterSymmetry == Permutations(Writers)
=============================================================================
