------------------------------ MODULE MCCertSync ------------------------------
(* CertSync on two certificates.  One is issued by one issuer, waits for a       *)
(* certificate of another, and is deleted, time and again; the other one waits   *)
(* for good once it is there, so that the first may be deleted for good.         *)
EXTENDS CertSync

CONSTANTS c1, c2, issued, waiting, i1, i2, d1

MCKinds == {issued, waiting}
MCPossible == [k \in {c1, c2} |-> IF k = c1 THEN MCKinds \cup {Gone} ELSE {waiting}]
MCIssuer == [v \in MCKinds |-> IF v = issued THEN i1 ELSE i2]
MCNotAfter == [v \in MCKinds |-> IF v = issued THEN d1 ELSE NoDate]

==============================================================================
