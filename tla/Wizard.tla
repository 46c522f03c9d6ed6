-------------------------------- MODULE Wizard --------------------------------
(****************************************************************************)
(* One run of `cw-agent init`: the forms of Wizard.Run in internal/cmd/     *)
(* initcmd/wizard.go, one after the other, or the environment variables of  *)
(* RunNonInteractive; the conversion and the check of what was entered; and *)
(* the file that is written. The user may give up in any form, and a signal *)
(* ends the process anywhere, also while the file is being written. The     *)
(* path is checked first; a path that is refused is entered again.          *)
(****************************************************************************)
EXTENDS Configuration

CONSTANTS
    Absent,     \* no file at the path
    Foreign,    \* a file at the path that init has not written
    Odd,        \* a host name with a space, a protocol, or an odd character
    Unset,      \* an environment variable that is not set, an empty text
    NaN         \* a text that is not a number, or not a duration

ASSUME OddAssumption == Odd \notin Hosts \cup {NoHost}

VARIABLES
    stage,      \* the form, or the step of Run after the forms
    forms,      \* interactive
    input,      \* WizardState
    envKey,     \* CW_API_KEY, NoKey when it is not set
    envList,    \* CW_CERTIFICATES is set
    file,       \* at ConfigPath
    existed,    \* handleExistingFile found a file
    overwrite   \* WizardState.OverwriteFile

vars == <<stage, forms, input, envKey, envList, file, existed, overwrite>>

Forms == {"welcome", "overwrite", "api", "agent", "advanced", "certificate"}
Steps == {"environment", "existing", "validate", "write", "truncated"}
Ends == {"success", "rejected", "failed", "canceled"}

\* What can be entered, valid or not
KeyTexts == {NoKey, Key(FALSE, 12), Key(TRUE, 5), Key(TRUE, 12)}
NameTexts == {0, 1, 100, 101}
PortTexts == {Unset, NaN, 0, 443, MaxPort, MaxPort + 1}
HostTexts == Hosts \cup {NoHost, Odd}

\* What is on offer: disabled, and the others at their extremes. (The log levels on
\* offer are those of Validate.)
SyncOptions == {60, 1800}
ScanOptions == {30, 300}
MetricsOptions == {0, 3000, 9090}
HeartbeatOptions == {0, 30, 300}

\* NewWizardState
NewInput ==
    [key |-> NoKey, scheme |-> "https", name |-> 0, sync |-> 300, scan |-> 60,
     logLevel |-> "info", metrics |-> 8080, heartbeat |-> 30, certificates |-> <<>>]

TypeOK ==
    /\ stage \in Forms \cup Steps \cup Ends
    /\ forms \in BOOLEAN /\ existed \in BOOLEAN /\ overwrite \in BOOLEAN
    /\ envList \in BOOLEAN
    /\ envKey \in KeyTexts /\ input.key \in KeyTexts
    /\ {input.name, input.sync, input.scan, input.metrics, input.heartbeat}
         \subseteq Nat \cup {NaN}
    /\ \A i \in DOMAIN input.certificates : input.certificates[i].port \in PortTexts
    /\ file \in {Absent, Foreign} \/ \A i \in DOMAIN file : file[i].section \in
                                         {"api", "agent", "certificates"}

Init ==
    /\ forms \in BOOLEAN
    /\ stage = IF forms THEN "welcome" ELSE "environment"
    /\ input = NewInput
    /\ envKey \in KeyTexts /\ envList \in BOOLEAN
    /\ file \in {Absent, Foreign}
    /\ existed = FALSE /\ overwrite = FALSE

------------------------------------------------------------------------------
(* What the forms accept *)

ValidateAPIKey(key) == key.prefix /\ key.length >= 10
ValidateAgentName(name) == name \in 1..100
ValidateHostname(host) == host \in Hosts

\* Fault: zero is let through
ValidatePortFault(port) == port = Unset \/ port \in 0..MaxPort
ValidatePort(port) == port = Unset \/ (port # NaN /\ port \in 1..MaxPort)

------------------------------------------------------------------------------
(* Wizard.Run *)

Fill(form, next) ==
    /\ stage = form /\ stage' = next
    /\ UNCHANGED <<forms, envKey, envList, file, existed, overwrite>>

Welcome == Fill("welcome", "existing") /\ UNCHANGED input

\* handleExistingFile
CheckExisting ==
    /\ stage = "existing"
    /\ existed' = (file # Absent)
    /\ stage' = IF file # Absent THEN "overwrite" ELSE "api"
    /\ UNCHANGED <<forms, input, envKey, envList, file, overwrite>>

\* Fault: the answer no ends the form and not the wizard
ConfirmOverwriteFault ==
    /\ stage = "overwrite"
    /\ overwrite' \in BOOLEAN
    /\ stage' = "api"
    /\ UNCHANGED <<forms, input, envKey, envList, file, existed>>

ConfirmOverwrite ==
    /\ stage = "overwrite"
    /\ overwrite' \in BOOLEAN
    /\ stage' = IF overwrite' THEN "api" ELSE "canceled"
    /\ UNCHANGED <<forms, input, envKey, envList, file, existed>>

APIForm ==
    /\ Fill("api", "agent")
    /\ \E key \in KeyTexts :
         ValidateAPIKey(key) /\ input' = [input EXCEPT !.key = key]

AgentForm ==
    /\ Fill("agent", "advanced")
    /\ \E name \in NameTexts, sync \in SyncOptions, scan \in ScanOptions :
         /\ ValidateAgentName(name)
         /\ input' = [input EXCEPT !.name = name, !.sync = sync, !.scan = scan]

AdvancedForm ==
    /\ Fill("advanced", "certificate")
    /\ \E metrics \in MetricsOptions, heartbeat \in HeartbeatOptions :
         input' = [input EXCEPT !.metrics = metrics, !.heartbeat = heartbeat]

\* A certificate, and whether another follows. Bound: one more than is accepted
CertificateForm ==
    /\ \E host \in HostTexts, port \in PortTexts, another \in BOOLEAN :
         /\ ValidateHostname(host) /\ ValidatePort(port)
         /\ input' = [input EXCEPT !.certificates =
                                     Append(@, [host |-> host, port |-> port])]
         /\ another => Len(input.certificates) < MaxCertificates
         /\ Fill("certificate", IF another THEN "certificate" ELSE "validate")

------------------------------------------------------------------------------
(* RunNonInteractive *)

\* Fault: what is not set is taken for an empty setting
OrFault(text, default) == text

\* What is not set stays
Or(text, default) == IF text = Unset THEN default ELSE text

\* CW_AGENT_NAME, CW_CERTIFICATES and the others
Environments ==
    [name : {Unset, 1, 101}, scheme : {Unset, "ftp"}, sync : {Unset, NaN, 29},
     scan : {Unset, 9}, metrics : {Unset, NaN, 65536}, heartbeat : {Unset, NaN, 0, 9},
     logLevel : {Unset, "trace"}, hosts : SeqOf(Hosts \cup {Odd}, MaxCertificates)]

\* A host of the environment has no port of its own
OnDefaultPort(hosts) == [i \in DOMAIN hosts |-> [host |-> hosts[i], port |-> 443]]

ReadEnvironment ==
    /\ stage = "environment"
    /\ \E env \in Environments :
         /\ ~envList => env.hosts = <<>>
         /\ input' =
           [key |-> envKey, scheme |-> Or(env.scheme, input.scheme),
            name |-> Or(env.name, DefaultName),
            sync |-> Or(env.sync, input.sync), scan |-> Or(env.scan, input.scan),
            logLevel |-> Or(env.logLevel, input.logLevel),
            metrics |-> Or(env.metrics, input.metrics),
            heartbeat |-> Or(env.heartbeat, input.heartbeat),
            certificates |-> OnDefaultPort(env.hosts)]
    /\ stage' = IF envKey = NoKey \/ input'.certificates = <<>> THEN "failed" ELSE "validate"
    /\ UNCHANGED <<forms, envKey, envList, file, existed, overwrite>>

------------------------------------------------------------------------------
(* ToConfig, Validate, WriteConfig *)

\* ToConfig fails
Unconvertible == NaN \in {input.sync, input.scan, input.heartbeat}

\* A port that is not a number is 443, a metrics port that is not one is 8080
ToConfig ==
    [api |-> [scheme |-> input.scheme, key |-> input.key, timeout |-> 30],
     agent |-> [name |-> input.name, sync |-> input.sync, scan |-> input.scan,
                heartbeat |-> input.heartbeat, concurrency |-> 10,
                logLevel |-> input.logLevel,
                metrics |-> IF input.metrics = NaN THEN 8080 ELSE input.metrics],
     certificates |->
       [i \in DOMAIN input.certificates |->
          [input.certificates[i] EXCEPT !.port = IF @ \in {Unset, NaN} THEN 443 ELSE @]]]

Validate ==
    /\ stage = "validate"
    /\ stage' = IF Unconvertible THEN "failed"
                ELSE IF Valid(ToConfig) THEN "write" ELSE "rejected"
    /\ UNCHANGED <<forms, input, envKey, envList, file, existed, overwrite>>

\* The directory cannot be made, or the file not be opened
OpenFails ==
    /\ stage = "write" /\ stage' = "failed"
    /\ UNCHANGED <<forms, input, envKey, envList, file, existed, overwrite>>

\* os.WriteFile empties the file first, whether or not it has found one
Truncate ==
    /\ stage = "write" /\ stage' = "truncated"
    /\ file' = <<>>
    /\ UNCHANGED <<forms, input, envKey, envList, existed, overwrite>>

Write ==
    /\ stage = "truncated" /\ stage' = "success"
    /\ file' = YAML(ToConfig)
    /\ UNCHANGED <<forms, input, envKey, envList, existed, overwrite>>

\* The disk is full, or the machine stops
WriteCut ==
    /\ stage = "truncated" /\ stage' = "failed"
    /\ file' \in Beginnings(YAML(ToConfig))
    /\ UNCHANGED <<forms, input, envKey, envList, existed, overwrite>>

------------------------------------------------------------------------------

\* The user gives up in a form, or a signal ends the process
Cancel ==
    /\ stage \notin Ends /\ stage' = "canceled"
    /\ UNCHANGED <<forms, input, envKey, envList, file, existed, overwrite>>

\* Another program makes a file at the path while the wizard asks its questions
Appear ==
    /\ stage \notin Ends /\ file = Absent /\ file' = Foreign
    /\ UNCHANGED <<stage, forms, input, envKey, envList, existed, overwrite>>

Ended == stage \in Ends /\ UNCHANGED vars

Next ==
    \/ Welcome \/ CheckExisting \/ ConfirmOverwrite
    \/ APIForm \/ AgentForm \/ AdvancedForm \/ CertificateForm
    \/ ReadEnvironment
    \/ Validate \/ OpenFails \/ Truncate \/ Write \/ WriteCut
    \/ Cancel \/ Appear \/ Ended

Spec == Init /\ [][Next]_vars

------------------------------------------------------------------------------
(* Properties *)

Written == file \notin {Absent, Foreign}

\* What init reports as written and validated is what `validate` and `start` then
\* read of it, default for default, and they accept it, unless the environment is
\* in the way: a CW_API_KEY that is another at that time, and bad, or
\* CW_CERTIFICATES. So a file that was made of CW_CERTIFICATES is refused wherever
\* that is still set.
SuccessMeansAccepted ==
    stage = "success" =>
        /\ Loaded(file, NoKey) = ToConfig
        /\ envKey = NoKey \/ envKey.prefix =>
             (Accepted(file, envKey, envList) <=> ~envList)

\* What the forms let through is rejected at the end, and lost, for one of two
\* reasons only: a host and port entered twice, or too many certificates.
FormsSuffice ==
    stage = "rejected" /\ forms =>
        \/ ~Distinct(ToConfig.certificates)
        \/ Len(ToConfig.certificates) > MaxCertificates

\* Whatever a command accepts of a file that was cut has the settings that were
\* chosen, never the defaults: an agent is never started under the default name.
\* Its certificates are the first of those that were entered; the last of them
\* may have lost its port, or the end of it.
AcceptedIsChosen ==
    Written /\ Accepted(file, envKey, envList) =>
        LET got == Loaded(file, NoKey)
            hosts(cfg) == [i \in DOMAIN cfg.certificates |-> cfg.certificates[i].host]
        IN /\ got.api = ToConfig.api /\ got.agent = ToConfig.agent
           /\ IsPrefix(hosts(got), hosts(ToConfig))
           /\ IsPrefix(Front(got.certificates), ToConfig.certificates)

\* A file the wizard found is changed only after the user has agreed, and any
\* file only for a configuration that was checked.
ChangedAfterConsent ==
    [][file' # file /\ file' # Foreign =>
         /\ Valid(ToConfig)
         /\ forms /\ existed => overwrite]_vars

==============================================================================
