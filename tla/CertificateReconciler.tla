------------------------ MODULE CertificateReconciler ------------------------
(****************************************************************************)
(* CertificateReconciler of internal/certmanager/controller/certificate.go: *)
(* the reconciler with the metric series of each certificate.  Of a status  *)
(* the series show the issuer, which labels one of them, and the end of the *)
(* validity, which a certificate that was never issued does not have.       *)
(****************************************************************************)
EXTENDS Reconciler

CONSTANTS
    Issuer, NotAfter,   \* of each of Kinds
    NoIssuer,           \* the empty issuer kind and name
    NoDate              \* NotAfter is nil; no value was set

ASSUME KindAssumption ==
    /\ DOMAIN Issuer = Kinds /\ DOMAIN NotAfter = Kinds
    /\ \A v \in Kinds : Issuer[v] # NoIssuer

Issuers == {Issuer[v] : v \in Kinds}
Dates == {NotAfter[v] : v \in Kinds} \cup {NoDate}

VARIABLES
    ready,      \* labels of the certificate_ready series: key and issuer
    plain,      \* keys with certificate_issuing and certificate_failed_attempts
    expiry      \* value of certificate_expiry_seconds of each key, and what
                \* certificate_days_until_expiry was computed from

seriesVars == <<ready, plain, expiry>>
certVars == <<vars, seriesVars>>

CertTypeOK ==
    /\ TypeOK
    /\ ready \subseteq Keys \X Issuers
    /\ plain \subseteq Keys
    /\ expiry \in [Keys -> Dates]

NoDates == [k \in Keys |-> NoDate]

CertInit == Init /\ ready = {} /\ plain = {} /\ expiry = NoDates

\* Fault: the expiry series is deleted by the labels of certificate_ready too
RemoveCertificateFault(k) ==
    /\ Remove(k)
    /\ plain' = plain \ {k}
    /\ UNCHANGED <<ready, expiry>>

\* removeCertificate deletes the series of the certificate, that of
\* certificate_ready with no issuer
RemoveCertificate(k) ==
    /\ Remove(k)
    /\ ready' = ready \ {<<k, NoIssuer>>}
    /\ plain' = plain \ {k}
    /\ expiry' = [expiry EXCEPT ![k] = NoDate]

SetSeries(k, issuer, date) ==
    /\ Finish(k)
    /\ ready' = ready \cup {<<k, issuer>>}
    /\ plain' = plain \cup {k}
    /\ expiry' = [expiry EXCEPT ![k] = date]

\* Fault: the issuer is not filled in
UpdateMetricsUnlabelledFault(k) == SetSeries(k, NoIssuer, NotAfter[got[k]])

\* updateMetrics: a status without NotAfter leaves the expiry series as they are
UpdateMetrics(k) ==
    SetSeries(k, Issuer[got[k]],
              IF NotAfter[got[k]] = NoDate THEN expiry[k] ELSE NotAfter[got[k]])

ReconcileCertificate(k) ==
    \/ (Get(k) \/ Store(k)) /\ UNCHANGED seriesVars
    \/ RemoveCertificate(k)
    \/ UpdateMetrics(k)

\* The series are those of the process
RestartEmpty == Restart /\ ready' = {} /\ plain' = {} /\ expiry' = NoDates

CertNext ==
    \/ \E k \in Keys :
          \/ (Change(k) \/ Requeue(k)) /\ UNCHANGED seriesVars
          \/ ReconcileCertificate(k)
    \/ RestartEmpty

CertSpec == CertInit /\ [][CertNext]_certVars

------------------------------------------------------------------------------
(* Properties *)

\* Between two reconciliations of a certificate its series are those of the
\* status in the map, as far as the code keeps them so: a certificate that was
\* removed has none but certificate_ready's (NoSeriesOfDeleted), one that is there
\* has a series for its issuer and, if its status has a NotAfter, that date as its
\* expiry.  The series of an issuer it had before stays, and so does the old
\* expiry of a certificate whose status has lost its NotAfter.
SeriesCurrent ==
    \A k \in Keys : step[k] # "stored" =>
        IF cache[k] = Gone THEN k \notin plain /\ expiry[k] = NoDate
        ELSE /\ k \in plain
             /\ <<k, Issuer[cache[k]]>> \in ready
             /\ NotAfter[cache[k]] \in {NoDate, expiry[k]}

\* certificate.go:168 "Clean up metrics for deleted certificate".  The series
\* are deleted by the labels namespace, name, "", "", but updateMetrics labels
\* certificate_ready with the issuer, so that no series is deleted.
NoSeriesOfDeleted ==
    \A k \in Keys, i \in Issuers : <<k, i>> \in ready => cache[k] # Gone

==============================================================================
