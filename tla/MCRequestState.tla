--------------------------- MODULE MCRequestState ---------------------------
(* A document, a link to it, a buffer and a configuration file, under a    *)
(* narrow and a wide configuration.                                        *)
EXTENDS RequestState, TLC

LinkedTo == "doc" :> "doc" @@ "link" :> "doc" @@ "buf" :> "buf" @@ "conf" :> "conf"
Sizes == "one" :> 1 @@ "four" :> 4 @@ "bad" :> 2
Buffered == "buf" :> "one"
NarrowAndWide == "n" :> [files |-> 3, total |-> 2, resource |-> 2]
                   @@ "w" :> [files |-> 2, total |-> 6, resource |-> 4]
RequestLimits == [files |-> 4, total |-> 7, resource |-> 4]
=============================================================================
