----------------------------- MODULE MCAdmission -----------------------------
(* Admission with two keys that share a hint, one caller with requests of   *)
(* every kind, and another node.                                           *)
EXTENDS Admission

CONSTANTS k1, k2, n1, n2, x, y

MCHintOf == [k \in {k1, k2} |-> "h"]

MCCertifiers == {None} \cup [pubKey : {k1}, trustedKeysDir : {TRUE}]
                       \cup [pubKey : {None}, trustedKeysDir : {FALSE}]

Request(cert, hint, deadline) ==
  [wellFormed |-> TRUE, node |-> n1, challenge |-> x, cert |-> cert, hint |-> hint,
   deadline |-> deadline, hash |-> <<0, 31>>]

Cert(signer, node, expiration) == [signer |-> signer, node |-> node, expiration |-> expiration]

MCOthers == {<<n1, y>>}

MCRequests ==
  {Request(None, None, None), Request(None, None, RoundEnd(0)),
   [Request(None, None, None) EXCEPT !.wellFormed = FALSE],
   [Request(None, None, None) EXCEPT !.hash = <<0, 32>>],
   [Request(None, None, None) EXCEPT !.hash = <<1, 0>>],
   Request(Cert(k1, n1, None), None, None),
   Request(Cert(k1, n1, None), "h", None),
   Request(Cert(k2, n1, 0), "h", RoundEnd(0)),
   Request(Cert(k2, n2, None), "h", None),
   Request(Cert(k2, n1, None), "g", None)}
==============================================================================
