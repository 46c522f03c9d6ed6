---------------------------- MODULE MCChainReport ----------------------------
(* ChainReport on a few certificates. *)
EXTENDS ChainReport

Leaf == [from |-> 0, until |-> 2, selfSigned |-> FALSE, weak |-> FALSE]
Renewed == [Leaf EXCEPT !.from = 1, !.until = 5]
SelfSigned == [Leaf EXCEPT !.selfSigned = TRUE, !.until = 4]
WeakRoot == [SelfSigned EXCEPT !.weak = TRUE, !.from = 2, !.until = 3]

SmallCertificates == {Leaf, Renewed, SelfSigned, WeakRoot}
OneCertificate == {Leaf}

==============================================================================
