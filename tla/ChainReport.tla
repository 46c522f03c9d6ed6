----------------------------- MODULE ChainReport -----------------------------
(****************************************************************************)
(* What cw-agent makes of the chain a target serves: parseCertificate and   *)
(* parseChain of internal/scanner/scanner.go, and the gauges Agent.scan of  *)
(* internal/agent/agent.go sets from them.  A failed scan leaves the gauges *)
(* of the last one that succeeded.                                          *)
(*                                                                          *)
(* Time is counted in parts of a day.  A certificate is what parseChain     *)
(* looks at: its window, and whether it is self-signed or weakly signed.    *)
(****************************************************************************)
EXTENDS Integers, SequencesExt

CONSTANTS
    Certificates,   \* the certificates that targets serve
    MaxChain,       \* bound: length of a chain
    DayLength,      \* parts of a day
    MaxTime         \* bound of the clock

ASSUME CertificatesAssumption ==
    Certificates \subseteq [from : 0..MaxTime, until : 0..MaxTime,
                            selfSigned : BOOLEAN, weak : BOOLEAN]
ASSUME BoundsAssumption == {MaxChain, DayLength} \subseteq Nat \ {0} /\ MaxTime \in Nat

\* Scan fails when a target serves no certificate
Chains == UNION {[1..n -> Certificates] : n \in 1..MaxChain}

------------------------------------------------------------------------------
(* parseCertificate, parseChain *)

\* int() of a float64 drops the fraction, of a negative number too
DaysLeft(c, now) ==
    LET left == c.until - now
    IN  IF left >= 0 THEN left \div DayLength ELSE -((-left) \div DayLength)

Expired(c, now) == now > c.until
NotYetValid(c, now) == now < c.from

Issue(type, i) == [type |-> type, index |-> i]
When(condition, issue) == IF condition THEN <<issue>> ELSE <<>>

\* Fault: an issue is reported of the next certificate
CertIssuesIndexFault(chain, i, now) ==
       When(Expired(chain[i], now), Issue("expired", i + 1))
    \o When(NotYetValid(chain[i], now), Issue("not_yet_valid", i + 1))
    \o When(i = 1 /\ chain[i].selfSigned, Issue("self_signed", i + 1))

\* Fault: a root that is part of the chain is an issue
CertIssuesRootFault(chain, i, now) ==
       When(Expired(chain[i], now), Issue("expired", i))
    \o When(NotYetValid(chain[i], now), Issue("not_yet_valid", i))
    \o When(chain[i].selfSigned, Issue("self_signed", i))

CertIssues(chain, i, now) ==
       When(Expired(chain[i], now), Issue("expired", i))
    \o When(NotYetValid(chain[i], now), Issue("not_yet_valid", i))
    \o When(i = 1 /\ chain[i].selfSigned, Issue("self_signed", i))

ChainIssues(chain, matches, now) ==
       FlattenSeq([i \in DOMAIN chain |-> CertIssues(chain, i, now)])
    \o When(~matches, Issue("hostname_mismatch", 1))
    \o FlattenSeq([i \in DOMAIN chain |-> When(chain[i].weak, Issue("weak_crypto", i))])

\* Fault: only the leaf decides
ChainValidFault(chain, now) == ~Expired(chain[1], now) /\ ~NotYetValid(chain[1], now)

\* Only the two issues of time make a chain invalid
ChainValid(chain, now) ==
    \A i \in DOMAIN chain : ~Expired(chain[i], now) /\ ~NotYetValid(chain[i], now)

------------------------------------------------------------------------------
VARIABLES
    clock,
    served,     \* the chain the target serves, and whether it names the host
    scanned,    \* the same at the last scan that succeeded, with its time (history)
    days,       \* certwatch_certificate_days_until_expiry
    valid,      \* certwatch_certificate_valid
    chainValid, \* certwatch_certificate_chain_valid
    issues      \* of the result of the last scan that succeeded

vars == <<clock, served, scanned, days, valid, chainValid, issues>>

IssueTypes == {"expired", "not_yet_valid", "self_signed", "hostname_mismatch", "weak_crypto"}
Targets == [chain : Chains, matches : BOOLEAN]

TypeOK ==
    /\ clock \in 0..MaxTime
    /\ served \in Targets
    /\ \/ scanned = <<>>
       \/ scanned.target \in Targets /\ scanned.at \in 0..clock
    /\ days \in -MaxTime..MaxTime
    /\ valid \in BOOLEAN /\ chainValid \in BOOLEAN
    /\ \A n \in DOMAIN issues :
          issues[n].type \in IssueTypes /\ issues[n].index \in DOMAIN scanned.target.chain

Init ==
    /\ clock = 0
    /\ served \in Targets
    /\ scanned = <<>>
    /\ days = 0 /\ valid = FALSE /\ chainValid = FALSE /\ issues = <<>>

\* A renewal, or another server
Serve ==
    /\ served' \in Targets \ {served}
    /\ UNCHANGED <<clock, scanned, days, valid, chainValid, issues>>

Tick ==
    /\ clock < MaxTime
    /\ clock' = clock + 1
    /\ UNCHANGED <<served, scanned, days, valid, chainValid, issues>>

\* A scan that succeeds, and the gauges
Scan ==
    /\ scanned' = [target |-> served, at |-> clock]
    /\ days' = DaysLeft(served.chain[1], clock)
    /\ valid' = (DaysLeft(served.chain[1], clock) >= 0)
    /\ chainValid' = ChainValid(served.chain, clock)
    /\ issues' = ChainIssues(served.chain, served.matches, clock)
    /\ UNCHANGED <<clock, served>>

Next == Serve \/ Tick \/ Scan

Spec == Init /\ [][Next]_vars

------------------------------------------------------------------------------
(* Properties *)

ScannedChain == scanned.target.chain

\* The gauge and the issues, which parseChain computes apart, agree, and tell
\* whether the scan fell into the windows of all certificates of the chain, the
\* roots that the server sends along included.
ChainValidExact ==
    scanned # <<>> =>
        /\ chainValid <=> \A i \in DOMAIN ScannedChain :
                             scanned.at \in ScannedChain[i].from..ScannedChain[i].until
        /\ chainValid <=> \A n \in DOMAIN issues :
                             issues[n].type \notin {"expired", "not_yet_valid"}

\* Each defect of the chain is reported once, of the certificate that has it;
\* being self-signed is a defect of the leaf alone, and the host name is the
\* leaf's.
IssuesExact ==
    scanned # <<>> =>
        /\ \A m, n \in DOMAIN issues : issues[m] = issues[n] => m = n
        /\ {issues[n] : n \in DOMAIN issues} =
             {Issue("expired", i) : i \in {j \in DOMAIN ScannedChain :
                                              scanned.at > ScannedChain[j].until}}
             \cup {Issue("not_yet_valid", i) : i \in {j \in DOMAIN ScannedChain :
                                              scanned.at < ScannedChain[j].from}}
             \cup {Issue("weak_crypto", i) : i \in {j \in DOMAIN ScannedChain :
                                              ScannedChain[j].weak}}
             \cup (IF ScannedChain[1].selfSigned THEN {Issue("self_signed", 1)} ELSE {})
             \cup (IF scanned.target.matches THEN {} ELSE {Issue("hostname_mismatch", 1)})

\* agent.go:192 "certificate is valid if it hasn't expired".  The days until the
\* expiry are rounded towards zero, so that the gauge still says valid for a day
\* after it.
ValidMeansUnexpired == valid => scanned.at <= ScannedChain[1].until

==============================================================================
