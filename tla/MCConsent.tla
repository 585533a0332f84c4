----------------------------- MODULE MCConsent -----------------------------
(***************************************************************************)
(* Consent with two nonces and room for one ceremony, so that the desk is  *)
(* full while an answered ceremony waits to be collected.                  *)
(***************************************************************************)
EXTENDS Consent, TLC

CONSTANTS c1, c2

\* A creation over CTAP, sign-ins with one and two credentials, and the three
\* requests register must refuse.
MCRequest ==
    { [op |-> "create", choices |-> {}, binding |-> {"hash"}],
      [op |-> "assert", choices |-> {c1}, binding |-> {"hash"}],
      [op |-> "assert", choices |-> {c1, c2}, binding |-> {"origin", "challenge"}],
      [op |-> "assert", choices |-> {}, binding |-> {"hash"}],
      [op |-> "create", choices |-> {}, binding |-> {"hash", "origin"}],
      [op |-> "create", choices |-> {}, binding |-> {}] }

Symmetry == Permutations(Nonce)

============================================================================
