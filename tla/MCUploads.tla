------------------------------ MODULE MCUploads ------------------------------
EXTENDS Uploads, TLC

CONSTANTS Ann, Bob

(* Both fit in the space, and nothing more does.                           *)
OneDeeper == (Ann :> <<"a">>) @@ (Bob :> <<"a", "b">>)
Sizes == (Ann :> 2) @@ (Bob :> 1)
SomeLengths == (Ann :> {2}) @@ (Bob :> {1, Unknown})
=============================================================================
