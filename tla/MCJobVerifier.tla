---------------------------- MODULE MCJobVerifier ----------------------------
(***************************************************************************)
(* An instance of JobVerifier for TLC: four good envelopes, two of which   *)
(* share a nonce with different expiries, and one for each failing check.  *)
(***************************************************************************)
EXTENDS JobVerifier

CONSTANTS n1, n2, n3, c1

Good(n, issued, expires) ==
  [nonce |-> n, issuedAt |-> issued, expiresAt |-> expires, major |-> 1, fields |-> "OK",
   timeoutValid |-> TRUE, target |-> [type |-> "IP", form |-> "ip"], signature |-> "good"]

GoodEnvelopes ==
  {Good(n1, 0, 2), Good(n1, 1, 4), Good(n2, 2, 3), Good(n3, 0, 5)}

BadEnvelopes ==
  {[Good(n2, 0, 4) EXCEPT !.major = 2],
   [Good(n2, 0, 4) EXCEPT !.fields = "INVALID_JOB"],
   [Good(n2, 0, 4) EXCEPT !.timeoutValid = FALSE],
   [Good(n2, 0, 4) EXCEPT !.target.type = "HOSTNAME"],
   [Good(n2, 0, 4) EXCEPT !.signature = "absent"],
   Good(n2, 3, 2), Good(n2, ZeroTime, 4), Good(n2, 0, ZeroTime)}

AllEnvelopes == GoodEnvelopes \cup BadEnvelopes
=============================================================================
