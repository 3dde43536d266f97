--------------------------- MODULE MCEncryptionKey ---------------------------
(* Small namespaces for TLC.                                                *)
EXTENDS EncryptionKey, TLC

CONSTANTS c1, c2, n1, n2

DistinctKinds == c1 :> "Single" @@ c2 :> "Cluster"
SameKind      == c1 :> "Single" @@ c2 :> "Single"
DistinctNames == c1 :> n1 @@ c2 :> n2
SameName      == c1 :> n1 @@ c2 :> n1
=============================================================================
