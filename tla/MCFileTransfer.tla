--------------------------- MODULE MCFileTransfer ---------------------------
(* Small batches: names that meet after renaming, in both orders, names that *)
(* differ only in case, a link and an empty directory beside a file.         *)
EXTENDS FileTransfer

E(p, k) == [path |-> p, kind |-> k]
Batch(es, ci) == [entries |-> es, caseless |-> ci]

MCCases == {Batch(<<E(<<1>>, "file"), E(<<1, 1>>, "file")>>, FALSE),
            Batch(<<E(<<1, 1>>, "file"), E(<<1>>, "file")>>, FALSE),
            Batch(<<E(<<1>>, "file"), E(<<11>>, "file")>>, TRUE),
            Batch(<<E(<<2>>, "link"), E(<<1>>, "file"), E(<<3>>, "dir")>>, FALSE)}
=============================================================================
