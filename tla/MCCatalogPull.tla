---------------------------- MODULE MCCatalogPull ----------------------------
(* A config with a git id, the weights of two quants and an empty file over  *)
(* two pieces: piece 1 spans the config and a, piece 2 spans a and b.  The   *)
(* torrent is what the anchors pin, or has a wrong config, or a wrong b of   *)
(* the same size, or one of another size besides a config no anchor mentions,*)
(* or an empty file where the anchors pin another.                           *)
EXTENDS CatalogPull, TLC
CONSTANTS conf, a, b, c, empty
MCPiecesOf == conf :> {1} @@ a :> {1, 2} @@ b :> {2} @@ empty :> {}
MCPos == conf :> 1 @@ a :> 2 @@ b :> 3 @@ empty :> 4
MCWants == {{}, {conf, a, empty}, {conf, b, empty}}
Clean == [outside |-> {}, resized |-> {}, wrong |-> {}, differ |-> {}]
WrongConf == [Clean EXCEPT !.wrong = {conf}, !.differ = {<<conf, 1>>}]
WrongB == [Clean EXCEPT !.wrong = {b}, !.differ = {<<b, 2>>}]
WrongEmpty == [Clean EXCEPT !.wrong = {empty}]
Other == [WrongB EXCEPT !.resized = {b}, !.outside = {conf}]
MCWorlds == {Clean, WrongConf, WrongB, WrongEmpty, Other}
PullSymmetry == Permutations(Pulls)

(* Three quants: a has piece 1, b and c share piece 2; only a is wanted. *)
QuantPiecesOf == a :> {1} @@ b :> {2} @@ c :> {2}
QuantPos == a :> 1 @@ b :> 2 @@ c :> 3
QuantWants == {{a}}
QuantWorlds == {Clean}
=============================================================================
