--------------------------- MODULE MCSecurityKey ---------------------------
(* The requests for checking SecurityKey.                                  *)
EXTENDS SecurityKey

MCAsks == {<<"now", 1>>, <<"make", 1>>, <<"remake", 3>>, <<"assert", 3>>}

============================================================================
