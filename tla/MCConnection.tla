--------------------------- MODULE MCConnection ----------------------------
(* A polite peer sends its version, its verack, a message that is not valid  *)
(* and a ping; a rude one starts with a verack, then sends a version that is *)
(* not valid and two that are, and then what it likes.                       *)
EXTENDS Connection, TLC

PoliteSize == 1 :> 1 @@ 3 :> 0 @@ 4 :> 0 @@ 5 :> 0
PoliteKind == 1 :> "version" @@ 3 :> "verack" @@ 4 :> "other" @@ 5 :> "ping"

RudeSize == [f \in {1, 2, 3, 5, 6, 7, 8, 9} |-> IF f = 3 THEN 1 ELSE 0]
RudeKind == 1 :> "verack" @@ 2 :> "version" @@ 3 :> "version" @@ 5 :> "version"
            @@ 6 :> "verack" @@ 7 :> "other" @@ 8 :> "ping" @@ 9 :> "pong"

Symmetry == Permutations(Threads)
=============================================================================
