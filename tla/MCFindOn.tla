------------------------------- MODULE MCFindOn -------------------------------
(* Model-checking instance of FindOn: three remotes that all know each     *)
(* other, at distances 3, 2 and 1 from the target.                          *)
EXTENDS FindOn, TLC

CONSTANTS a, b, c

MCRemotes == {a, b, c}
MCDist == (a :> 3) @@ (b :> 2) @@ (c :> 1)
MCAdv == (a :> {b, c}) @@ (b :> {a, c}) @@ (c :> {a, b})
=============================================================================
