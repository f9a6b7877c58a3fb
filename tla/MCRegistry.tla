----------------------------- MODULE MCRegistry -----------------------------
(* Small instances of Registry for TLC.                                    *)
EXTENDS Registry

CONSTANTS n1, n2, b0, b1, p1, p2

MCNames == {n1, n2}
MCBlobs == {b0, b1}
MCProcs == {p1, p2}

Valid(k, i)  == [shape |-> "valid", kind |-> k, index |-> i, stealth |-> NoBlob]
Opaque(i)    == [shape |-> "opaque", kind |-> "redroid", index |-> i, stealth |-> NoBlob]
Malformed(s) == [shape |-> s, kind |-> "redroid", index |-> 0, stealth |-> NoBlob]

Legacy == [env |-> "legacy", rows |-> EmptyRows]

\* A row of another beetroot version next to a free name, holding index 0.
OpaqueFile == Doc([EmptyRows EXCEPT ![n1] = Opaque(0)])
FullFile   == Doc([EmptyRows EXCEPT ![n1] = Valid("redroid", 1), ![n2] = Valid("vm", 0)])
BrokenFile == Doc([EmptyRows EXCEPT ![n1] = Valid("redroid", 0), ![n2] = Malformed("broken")])
NoDictFile == Doc([EmptyRows EXCEPT ![n1] = Valid("vm", 0), ![n2] = Malformed("nodict")])

AnyFiles     == {Absent, Torn, Legacy, OpaqueFile, FullFile, BrokenFile, NoDictFile}
LegacyFiles  == {Legacy}

=============================================================================
