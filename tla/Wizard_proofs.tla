---------------------------- MODULE Wizard_proofs ----------------------------
(****************************************************************************)
(* What holds of Wizard for every set of host names, every number of        *)
(* certificates that is accepted, and forms that are filled in as often as  *)
(* it pleases.                                                              *)
(****************************************************************************)
EXTENDS Wizard, SequenceTheorems, TLAPS

\* What the form of a certificate lets through
Entered == {c \in [host : Hosts, port : PortTexts] : ValidatePort(c.port)}

\* What the forms can have filled in
FormInputs ==
    [key : KeyTexts, scheme : {"https"}, name : NameTexts,
     sync : {60, 300, 1800}, scan : {30, 60, 300}, logLevel : {"info"},
     metrics : {0, 3000, 8080, 9090}, heartbeat : {0, 30, 300},
     certificates : Seq(Entered)]

BeforeAPI == {"welcome", "existing", "overwrite", "api", "canceled"}
BeforeName == BeforeAPI \cup {"agent"}
BeforeValidate == BeforeName \cup {"advanced", "certificate"}

\* A form that is behind has been filled in
Filled ==
    forms =>
        /\ stage # "environment" /\ input \in FormInputs
        /\ stage \notin BeforeAPI => ValidateAPIKey(input.key)
        /\ stage \notin BeforeName => ValidateAgentName(input.name)
        /\ stage \notin BeforeValidate => input.certificates # <<>>

\* And what is refused at the end is refused by Validate
Refused == stage = "rejected" /\ forms => ~Valid(ToConfig)

\* The answer of the user, and the check, precede the write
Consented ==
    /\ stage \in {"write", "truncated"} => Valid(ToConfig)
    /\ forms /\ existed /\ stage \notin {"welcome", "existing", "overwrite", "canceled"}
         => overwrite

IInv == Filled /\ Refused /\ Consented

------------------------------------------------------------------------------
(* The forms let through what Validate accepts *)

LEMMA PortBounds == MaxPort \in Nat /\ MaxPort > 10000
  BY DEF MaxPort

LEMMA ConvertedCertificates ==
  ASSUME input.certificates \in Seq(Entered)
  PROVE  /\ Len(ToConfig.certificates) = Len(input.certificates)
         /\ \A i \in DOMAIN ToConfig.certificates :
              /\ ToConfig.certificates[i].host # NoHost
              /\ ToConfig.certificates[i].port \in 1..MaxPort
  <1> DEFINE certs == input.certificates
             Port(c) == IF c.port \in {Unset, NaN} THEN 443 ELSE c.port
             Converted(c) == [c EXCEPT !.port = Port(c)]
             converted == [i \in 1..Len(certs) |-> Converted(certs[i])]
             Usable == [host : Hosts, port : 1..MaxPort]
  <1>1. certs \in [1..Len(certs) -> Entered] /\ Len(certs) \in Nat
    BY LenProperties
  <1>2. ToConfig.certificates = converted
    BY <1>1 DEF ToConfig
  <1>3. ASSUME NEW c \in Entered
        PROVE  Converted(c) \in Usable
    <2>1. c \in [host : Hosts, port : PortTexts] BY DEF Entered
    <2>2. c.port = Unset \/ c.port \in 1..MaxPort BY DEF Entered, ValidatePort
    <2>3. Port(c) \in 1..MaxPort
      <3> HIDE DEF Usable
      <3> QED BY <2>2, PortBounds
    <2> QED BY <2>1, <2>3
  <1> HIDE DEF Converted, Usable
  <1>4. converted \in [1..Len(certs) -> Usable] BY <1>1, <1>3
  <1> HIDE DEF certs, converted
  <1>5. converted \in Seq(Usable) BY <1>1, <1>4, SeqDef
  <1>6. Len(converted) = Len(certs) /\ DOMAIN converted = 1..Len(certs)
    BY <1>1, <1>4, <1>5, LenProperties
  <1>7. ASSUME NEW i \in DOMAIN converted
        PROVE  converted[i].host # NoHost /\ converted[i].port \in 1..MaxPort
    <2>1. converted[i] \in Usable BY <1>4, <1>6
    <2> QED BY <2>1, NoHostAssumption DEF Usable
  <1> QED BY <1>2, <1>6, <1>7 DEF certs

LEMMA FormsAreValid ==
  ASSUME input \in FormInputs, ValidateAPIKey(input.key), ValidateAgentName(input.name)
  PROVE  ValidAPI(ToConfig.api) /\ ValidAgent(ToConfig.agent)
  <1>1. ValidAPI(ToConfig.api)
    BY DEF ToConfig, ValidAPI, FormInputs, ValidateAPIKey, Schemes, KeyTexts, Key, NoKey
  <1>2. ValidAgent(ToConfig.agent)
    <2> DEFINE agent == ToConfig.agent
    <2>1. /\ agent.name = input.name /\ agent.sync = input.sync /\ agent.scan = input.scan
          /\ agent.heartbeat = input.heartbeat /\ agent.concurrency = 10
          /\ agent.logLevel = input.logLevel
          /\ agent.metrics = input.metrics \/ agent.metrics = 8080
      BY DEF ToConfig
    <2>2. /\ input.sync \in {60, 300, 1800} /\ input.scan \in {30, 60, 300}
          /\ input.logLevel = "info" /\ input.heartbeat \in {0, 30, 300}
          /\ input.metrics \in {0, 3000, 8080, 9090}
      BY DEF FormInputs
    <2>3. input.name \in 1..100 BY DEF ValidateAgentName
    <2> HIDE DEF agent
    <2>4. agent.sync >= 30 /\ agent.scan >= 10 BY <2>1, <2>2
    <2>5. agent.heartbeat = 0 \/ agent.heartbeat >= 10 BY <2>1, <2>2
    <2>6. agent.metrics \in 0..MaxPort BY <2>1, <2>2, PortBounds
    <2>7. agent.name \in 1..100 /\ agent.concurrency \in 1..50 BY <2>1, <2>3
    <2>8. agent.logLevel \in LogLevels BY <2>1, <2>2 DEF LogLevels
    <2>9. ValidAgent(agent) BY <2>4, <2>5, <2>6, <2>7, <2>8 DEF ValidAgent
    <2> QED BY <2>9 DEF agent
  <1> QED BY <1>1, <1>2

LEMMA RefusedForms == Filled /\ Refused => FormsSuffice
  <1> SUFFICES ASSUME Filled, Refused, stage = "rejected", forms
               PROVE  \/ ~Distinct(ToConfig.certificates)
                      \/ Len(ToConfig.certificates) > MaxCertificates
    BY DEF FormsSuffice
  <1>1. /\ input \in FormInputs /\ input.certificates # <<>>
        /\ ValidateAPIKey(input.key) /\ ValidateAgentName(input.name)
    BY DEF Filled, BeforeAPI, BeforeName, BeforeValidate
  <1>2. input.certificates \in Seq(Entered) BY <1>1 DEF FormInputs
  <1>3. Len(input.certificates) \in Nat \ {0} BY <1>1, <1>2, EmptySeq, LenProperties
  <1>4. ~ValidCertificates(ToConfig.certificates)
    BY <1>1, FormsAreValid DEF Refused, Valid
  <1> DEFINE got == ToConfig.certificates
  <1>5. /\ Len(got) \in Nat \ {0}
        /\ \A i \in DOMAIN got : got[i].host # NoHost /\ got[i].port \in 1..MaxPort
    BY <1>2, <1>3, ConvertedCertificates
  <1>6. ~ValidCertificates(got) BY <1>4
  <1> HIDE DEF got
  <1>7. ~Distinct(got) \/ ~(Len(got) \in 1..MaxCertificates)
    BY <1>5, <1>6 DEF ValidCertificates
  <1>8. ~Distinct(got) \/ Len(got) > MaxCertificates
    BY <1>5, <1>7, MaxAssumption
  <1> QED BY <1>8 DEF got

------------------------------------------------------------------------------
(* The invariant *)

LEMMA InitIInv == Init => IInv
  <1> SUFFICES ASSUME Init PROVE IInv OBVIOUS
  <1>1. NewInput \in FormInputs
    <2>1. <<>> \in Seq(Entered) BY EmptySeq
    <2> QED BY <2>1 DEF NewInput, FormInputs, KeyTexts, NameTexts
  <1>2. Filled BY <1>1 DEF Init, Filled, BeforeAPI, BeforeName, BeforeValidate
  <1>3. Refused /\ Consented BY DEF Init, Refused, Consented
  <1> QED BY <1>2, <1>3 DEF IInv

\* The steps that leave what was entered alone
LEMMA QuietStep ==
  ASSUME IInv,
         \/ Welcome \/ CheckExisting \/ ConfirmOverwrite \/ OpenFails \/ Truncate
         \/ Write \/ WriteCut \/ Cancel \/ Appear \/ UNCHANGED vars
  PROVE  IInv'
  <1> USE DEF IInv, Filled, Refused, Consented, BeforeAPI, BeforeName, BeforeValidate
  <1>1. CASE Welcome BY <1>1 DEF Welcome, Fill
  <1>2. CASE CheckExisting BY <1>2 DEF CheckExisting
  <1>3. CASE ConfirmOverwrite BY <1>3 DEF ConfirmOverwrite
  <1>4. CASE OpenFails BY <1>4 DEF OpenFails
  <1>5. CASE Truncate
    <2>1. UNCHANGED ToConfig BY <1>5 DEF Truncate, ToConfig
    <2> QED BY <1>5, <2>1 DEF Truncate
  <1>6. CASE Write
    <2>1. UNCHANGED ToConfig BY <1>6 DEF Write, ToConfig
    <2> QED BY <1>6, <2>1 DEF Write
  <1>7. CASE WriteCut
    <2>1. UNCHANGED ToConfig BY <1>7 DEF WriteCut, ToConfig
    <2> QED BY <1>7, <2>1 DEF WriteCut
  <1>8. CASE Cancel
    <2>1. UNCHANGED ToConfig BY <1>8 DEF Cancel, ToConfig
    <2> QED BY <1>8, <2>1 DEF Cancel, Ends
  <1>9. CASE Appear
    <2>1. UNCHANGED ToConfig BY <1>9 DEF Appear, ToConfig
    <2> QED BY <1>9, <2>1 DEF Appear
  <1>10. CASE UNCHANGED vars
    <2>1. UNCHANGED ToConfig BY <1>10 DEF vars, ToConfig
    <2> QED BY <1>10, <2>1 DEF vars
  <1> QED BY <1>1, <1>2, <1>3, <1>4, <1>5, <1>6, <1>7, <1>8, <1>9, <1>10

\* What a form leaves alone
LEMMA FormFills ==
  /\ APIForm => Fill("api", "agent")
  /\ AgentForm => Fill("agent", "advanced")
  /\ AdvancedForm => Fill("advanced", "certificate")
  /\ CertificateForm =>
       Fill("certificate", "certificate") \/ Fill("certificate", "validate")
  <1>1. APIForm => Fill("api", "agent") BY Zenon DEF APIForm
  <1>2. AgentForm => Fill("agent", "advanced") BY Zenon DEF AgentForm
  <1>3. AdvancedForm => Fill("advanced", "certificate") BY Zenon DEF AdvancedForm
  <1>4. ASSUME CertificateForm
        PROVE  Fill("certificate", "certificate") \/ Fill("certificate", "validate")
    <2>1. PICK another \in BOOLEAN :
               Fill("certificate", IF another THEN "certificate" ELSE "validate")
      BY <1>4, Zenon DEF CertificateForm
    <2> QED BY <2>1
  <1> QED BY <1>1, <1>2, <1>3, <1>4

\* A form is filled in, and the next one comes
LEMMA FormStep ==
  ASSUME IInv, APIForm \/ AgentForm \/ AdvancedForm
  PROVE  IInv'
  <1>1. \/ Fill("api", "agent") \/ Fill("agent", "advanced")
        \/ Fill("advanced", "certificate")
    BY FormFills
  <1>2. Refused' /\ Consented' BY <1>1 DEF Fill, IInv, Refused, Consented
  <1>3. ~forms => Filled' BY <1>1 DEF Fill, Filled
  <1>4. ASSUME forms PROVE Filled'
    <2>1. input \in FormInputs BY <1>4 DEF IInv, Filled
    <2>2. CASE APIForm
      <3>1. PICK key \in KeyTexts :
                 ValidateAPIKey(key) /\ input' = [input EXCEPT !.key = key]
        BY <2>2 DEF APIForm
      <3>2. input' \in FormInputs BY <2>1, <3>1 DEF FormInputs
      <3>3. input'.key = key BY <2>1, <3>1 DEF FormInputs
      <3> QED
        BY <2>2, <3>1, <3>2, <3>3, FormFills
        DEF Fill, Filled, BeforeAPI, BeforeName, BeforeValidate
    <2>3. CASE AgentForm
      <3>1. PICK name \in NameTexts, sync \in SyncOptions, scan \in ScanOptions :
                 /\ ValidateAgentName(name)
                 /\ input' = [input EXCEPT !.name = name, !.sync = sync, !.scan = scan]
        BY <2>3, Zenon DEF AgentForm
      <3> DEFINE named == [input EXCEPT !.name = name]
                 synced == [named EXCEPT !.sync = sync]
      <3>2. /\ named \in FormInputs
            /\ named.name = name /\ named.key = input.key
        BY <2>1 DEF FormInputs
      <3>3. input' = [synced EXCEPT !.scan = scan] BY <3>1
      <3> HIDE DEF named
      <3>4. /\ synced \in FormInputs
            /\ synced.name = name /\ synced.key = input.key
        <4>1. sync \in {60, 300, 1800} BY DEF SyncOptions
        <4> QED BY <3>2, <4>1 DEF FormInputs
      <3> HIDE DEF synced
      <3>5. /\ input' \in FormInputs
            /\ input'.name = name /\ input'.key = input.key
        <4>1. scan \in {30, 60, 300} BY DEF ScanOptions
        <4> QED BY <3>3, <3>4, <4>1 DEF FormInputs
      <3>6. ValidateAPIKey(input.key)
        BY <1>4, <2>3, FormFills DEF Fill, IInv, Filled, BeforeAPI
      <3> QED
        BY <2>3, <3>1, <3>5, <3>6, FormFills
        DEF Fill, Filled, BeforeAPI, BeforeName, BeforeValidate
    <2>4. CASE AdvancedForm
      <3>1. PICK metrics \in MetricsOptions, heartbeat \in HeartbeatOptions :
                 input' = [input EXCEPT !.metrics = metrics, !.heartbeat = heartbeat]
        BY <2>4, Zenon DEF AdvancedForm
      <3> DEFINE metered == [input EXCEPT !.metrics = metrics]
      <3>2. /\ metered \in FormInputs
            /\ metered.name = input.name /\ metered.key = input.key
        <4>1. metrics \in {0, 3000, 8080, 9090} BY DEF MetricsOptions
        <4> QED BY <2>1, <4>1 DEF FormInputs
      <3>3. input' = [metered EXCEPT !.heartbeat = heartbeat] BY <3>1
      <3> HIDE DEF metered
      <3>4. /\ input' \in FormInputs
            /\ input'.name = input.name /\ input'.key = input.key
        <4>1. heartbeat \in {0, 30, 300} BY DEF HeartbeatOptions
        <4> QED BY <3>2, <3>3, <4>1 DEF FormInputs
      <3>5. ValidateAPIKey(input.key) /\ ValidateAgentName(input.name)
        BY <1>4, <2>4, FormFills DEF Fill, IInv, Filled, BeforeAPI, BeforeName
      <3> QED
        BY <2>4, <3>4, <3>5, FormFills
        DEF Fill, Filled, BeforeAPI, BeforeName, BeforeValidate
    <2> QED BY <2>2, <2>3, <2>4
  <1> QED BY <1>2, <1>3, <1>4 DEF IInv

\* A certificate is appended
LEMMA CertificateStep ==
  ASSUME IInv, CertificateForm
  PROVE  IInv'
  <1> USE DEF IInv
  <1>1. PICK host \in HostTexts, port \in PortTexts, another \in BOOLEAN :
             /\ ValidateHostname(host) /\ ValidatePort(port)
             /\ input' = [input EXCEPT !.certificates =
                                         Append(@, [host |-> host, port |-> port])]
             /\ Fill("certificate", IF another THEN "certificate" ELSE "validate")
    BY DEF CertificateForm
  <1>2. [host |-> host, port |-> port] \in Entered
    BY <1>1 DEF Entered, ValidateHostname
  <1>3. Filled'
    <2> SUFFICES ASSUME forms' PROVE Filled' BY DEF Filled
    <2>1. forms /\ input \in FormInputs /\ stage = "certificate"
      BY <1>1 DEF Filled, Fill
    <2>2. input.certificates \in Seq(Entered) BY <2>1 DEF FormInputs
    <2>3. /\ input'.certificates \in Seq(Entered)
          /\ input'.certificates # <<>>
      BY <1>1, <1>2, <2>1, <2>2, AppendProperties DEF FormInputs
    <2>4. input' \in FormInputs
      <3>1. input' = [input EXCEPT !.certificates = input'.certificates]
        BY <1>1, <2>1 DEF FormInputs
      <3> QED BY <2>1, <2>3, <3>1 DEF FormInputs
    <2>5. input'.key = input.key /\ input'.name = input.name
      BY <1>1, <2>1 DEF FormInputs
    <2>6. ValidateAPIKey(input.key) /\ ValidateAgentName(input.name)
      BY <2>1 DEF Filled, BeforeAPI, BeforeName
    <2> QED
      BY <1>1, <2>3, <2>4, <2>5, <2>6 DEF Filled, Fill
  <1>4. Refused' BY <1>1 DEF Refused, Fill
  <1>5. Consented' BY <1>1 DEF Consented, Fill
  <1> QED BY <1>3, <1>4, <1>5

\* The environment is read without forms
LEMMA EnvironmentStep ==
  ASSUME IInv, ReadEnvironment
  PROVE  IInv'
  <1>1. stage = "environment" /\ UNCHANGED forms BY DEF ReadEnvironment
  <1>2. ~forms BY <1>1 DEF IInv, Filled
  <1>3. ~forms' BY <1>1, <1>2
  <1>4. stage' \notin {"write", "truncated"} BY DEF ReadEnvironment
  <1> QED BY <1>3, <1>4 DEF IInv, Filled, Refused, Consented

\* The check decides
LEMMA ValidateStep ==
  ASSUME IInv, Validate
  PROVE  IInv'
  <1>1. /\ stage = "validate"
        /\ UNCHANGED <<forms, input, existed, overwrite>>
        /\ stage' \in {"failed", "write", "rejected"}
    BY DEF Validate
  <1>2. ToConfig' = ToConfig BY <1>1 DEF ToConfig
  <1>3. /\ stage' = "write" => Valid(ToConfig)
        /\ stage' = "rejected" => ~Valid(ToConfig)
    BY DEF Validate
  <1>4. Filled' BY <1>1 DEF IInv, Filled, BeforeAPI, BeforeName, BeforeValidate
  <1>5. Refused' /\ Consented' BY <1>1, <1>2, <1>3 DEF IInv, Refused, Consented
  <1> QED BY <1>4, <1>5 DEF IInv

LEMMA NextIInv == IInv /\ [Next]_vars => IInv'
  <1> SUFFICES ASSUME IInv, [Next]_vars PROVE IInv' OBVIOUS
  <1>1. CASE \/ Welcome \/ CheckExisting \/ ConfirmOverwrite \/ OpenFails \/ Truncate
             \/ Write \/ WriteCut \/ Cancel \/ Appear \/ Ended \/ UNCHANGED vars
    BY <1>1, QuietStep DEF Ended
  <1>2. CASE APIForm \/ AgentForm \/ AdvancedForm BY <1>2, FormStep
  <1>3. CASE CertificateForm BY <1>3, CertificateStep
  <1>4. CASE ReadEnvironment BY <1>4, EnvironmentStep
  <1>5. CASE Validate BY <1>5, ValidateStep
  <1> QED BY <1>1, <1>2, <1>3, <1>4, <1>5 DEF Next

LEMMA AlwaysIInv == Spec => []IInv
  BY InitIInv, NextIInv, PTL DEF Spec

------------------------------------------------------------------------------
(* The theorems *)

\* Whatever is entered, a configuration that went through the forms is refused at
\* the end for a host and port entered twice or for their number, and for no
\* other reason.
THEOREM FormsAreSufficient == Spec => []FormsSuffice
  <1>1. IInv => FormsSuffice BY RefusedForms DEF IInv
  <1> QED BY <1>1, AlwaysIInv, PTL

\* The file is touched only for a configuration that was checked, and in place of
\* a file that was found only with the consent of the user.
THEOREM ChangesAreConsented == Spec => ChangedAfterConsent
  <1>1. ASSUME IInv, [Next]_vars
        PROVE  [file' # file /\ file' # Foreign =>
                  /\ Valid(ToConfig)
                  /\ forms /\ existed => overwrite]_vars
    <2> SUFFICES ASSUME Next, file' # file, file' # Foreign
                 PROVE  Valid(ToConfig) /\ (forms /\ existed => overwrite)
      BY <1>1
    <2>0. Next /\ file' # file /\ file' # Foreign OBVIOUS
    <2>1. Truncate \/ Write \/ WriteCut
      <3>1. Welcome \/ CheckExisting \/ ConfirmOverwrite => UNCHANGED file
        BY DEF Welcome, Fill, CheckExisting, ConfirmOverwrite
      <3>2. APIForm \/ AgentForm \/ AdvancedForm \/ CertificateForm => UNCHANGED file
        BY FormFills DEF Fill
      <3>3. ReadEnvironment => UNCHANGED file BY DEF ReadEnvironment
      <3>4. Validate => UNCHANGED file BY DEF Validate
      <3>5. OpenFails \/ Cancel \/ Ended => UNCHANGED file BY DEF OpenFails, Cancel, Ended, vars
      <3>6. Appear => file' = Foreign BY DEF Appear
      <3> QED BY <2>0, <3>1, <3>2, <3>3, <3>4, <3>5, <3>6 DEF Next
    <2>2. stage \in {"write", "truncated"} BY <2>1 DEF Truncate, Write, WriteCut
    <2> QED BY <1>1, <2>2 DEF IInv, Consented
  <1> QED BY <1>1, AlwaysIInv, PTL DEF Spec, ChangedAfterConsent

------------------------------------------------------------------------------
(* The file *)

\* A file up to the end of a section
ToAPI(a) == <<Line("api", a)>>
ToAgent(a, g) == <<Line("api", a), Line("agent", g)>>
ToCertificates(a, g, c) == <<Line("api", a), Line("agent", g), Line("certificates", c)>>

LEMMA YAMLSequence ==
  ASSUME NEW cfg
  PROVE  /\ Len(YAML(cfg)) = 3
         /\ YAML(cfg) \in Seq({Line("api", cfg.api), Line("agent", cfg.agent),
                               Line("certificates", cfg.certificates)})
  BY DEF YAML

\* The beginnings of three elements, and two with one more
LEMMA ThreeElements ==
  ASSUME NEW a, NEW b, NEW c
  PROVE  /\ SubSeq(<<a, b, c>>, 1, 0) = <<>>
         /\ SubSeq(<<a, b, c>>, 1, 1) = <<a>>
         /\ SubSeq(<<a, b, c>>, 1, 2) = <<a, b>>
         /\ SubSeq(<<a, b, c>>, 1, 3) = <<a, b, c>>
         /\ Append(<<a, b>>, c) = <<a, b, c>>
  <1> DEFINE S == {a, b, c}
             s == <<a, b, c>>
  <1>1. /\ s \in Seq(S) /\ <<a>> \in Seq(S) /\ <<a, b>> \in Seq(S)
        /\ Len(s) = 3 /\ Len(<<a>>) = 1 /\ Len(<<a, b>>) = 2
        /\ s[1] = a /\ s[2] = b /\ s[3] = c
        /\ <<a>>[1] = a /\ <<a, b>>[1] = a /\ <<a, b>>[2] = b
        /\ a \in S /\ b \in S /\ c \in S
    OBVIOUS
  <1> HIDE DEF s, S
  <1>2. \A i \in 1..3 : s[i] \in S BY <1>1
  <1>3. SubSeq(s, 1, 0) = <<>> /\ SubSeq(s, 1, 3) = s BY <1>1, SubSeqEmpty, SubSeqFull
  <1>4. SubSeq(s, 1, 1) = <<a>>
    <2>1. \A i \in 1..1 : s[i] \in S BY <1>2
    <2>2. SubSeq(s, 1, 1) \in Seq(S) /\ Len(SubSeq(s, 1, 1)) = 1
          /\ \A i \in 1..1 : SubSeq(s, 1, 1)[i] = s[1 + i - 1]
      BY <2>1, SubSeqProperties
    <2>3. \A i \in 1..1 : SubSeq(s, 1, 1)[i] = <<a>>[i] BY <1>1, <2>2
    <2> QED BY <1>1, <2>2, <2>3, SeqEqual
  <1>5. SubSeq(s, 1, 2) = <<a, b>>
    <2>1. \A i \in 1..2 : s[i] \in S BY <1>2
    <2>2. SubSeq(s, 1, 2) \in Seq(S) /\ Len(SubSeq(s, 1, 2)) = 2
          /\ \A i \in 1..2 : SubSeq(s, 1, 2)[i] = s[1 + i - 1]
      BY <2>1, SubSeqProperties
    <2>3. \A i \in 1..2 : SubSeq(s, 1, 2)[i] = <<a, b>>[i] BY <1>1, <2>2
    <2> QED BY <1>1, <2>2, <2>3, SeqEqual
  <1>6. Append(<<a, b>>, c) = s
    <2>1. /\ Append(<<a, b>>, c) \in Seq(S) /\ Len(Append(<<a, b>>, c)) = 3
          /\ \A i \in 1..2 : Append(<<a, b>>, c)[i] = <<a, b>>[i]
          /\ Append(<<a, b>>, c)[3] = c
      BY <1>1, AppendProperties
    <2>2. \A i \in 1..3 : Append(<<a, b>>, c)[i] = s[i] BY <1>1, <2>1
    <2> QED BY <1>1, <2>1, <2>2, SeqEqual
  <1> QED BY <1>3, <1>4, <1>5, <1>6 DEF s

\* Nothing, and the whole of a file, are beginnings of it
LEMMA LeastAndWhole ==
  ASSUME NEW cfg
  PROVE  <<>> \in Beginnings(YAML(cfg)) /\ YAML(cfg) \in Beginnings(YAML(cfg))
  <1> DEFINE y == YAML(cfg)
             S == {Line("api", cfg.api), Line("agent", cfg.agent),
                   Line("certificates", cfg.certificates)}
  <1>1. y \in Seq(S) /\ Len(y) = 3 BY YAMLSequence
  <1> HIDE DEF y, S
  <1>2. SubSeq(y, 1, 0) = <<>> /\ SubSeq(y, 1, 3) = y BY <1>1, SubSeqEmpty, SubSeqFull
  <1>3. {SubSeq(y, 1, n) : n \in 0..Len(y)} \subseteq Beginnings(y) BY DEF Beginnings
  <1>4. 0 \in 0..Len(y) /\ 3 \in 0..Len(y) BY <1>1
  <1>5. <<>> \in Beginnings(y) /\ y \in Beginnings(y) BY <1>2, <1>3, <1>4
  <1> QED BY <1>5 DEF y

\* The other beginnings end with a section, or in the certificates
LEMMA BeginningsOf ==
  ASSUME NEW S, NEW cfg, cfg.certificates \in Seq(S), NEW f \in Beginnings(YAML(cfg))
  PROVE  \/ f = <<>> \/ f = ToAPI(cfg.api) \/ f = ToAgent(cfg.api, cfg.agent)
         \/ \E c \in Cut(cfg.certificates) : f = ToCertificates(cfg.api, cfg.agent, c)
  <1> DEFINE A == Line("api", cfg.api)
             G == Line("agent", cfg.agent)
             C(c) == Line("certificates", c)
             y == YAML(cfg)
             T == {A, G, C(cfg.certificates)}
  <1>1. y = <<A, G, C(cfg.certificates)>> /\ Len(y) = 3 /\ y \in Seq(T)
    BY YAMLSequence DEF YAML
  <1>2. /\ A.section = "api" /\ G.section = "agent"
        /\ \A c : C(c).section = "certificates" /\ C(c).value = c
    BY DEF Line
  <1>3. f \in Beginnings(y) OBVIOUS
  <1> HIDE DEF A, G, C, y, T
  <1>4. \A n \in 0..3 :
          SubSeq(y, 1, n) \in {<<>>, <<A>>, <<A, G>>, <<A, G, C(cfg.certificates)>>}
    <2>1. /\ SubSeq(y, 1, 0) = <<>> /\ SubSeq(y, 1, 1) = <<A>>
          /\ SubSeq(y, 1, 2) = <<A, G>> /\ SubSeq(y, 1, 3) = y
      BY <1>1, ThreeElements
    <2>2. 0..3 = {0, 1, 2, 3} OBVIOUS
    <2> QED BY <1>1, <2>1, <2>2
  <1>5. cfg.certificates \in Cut(cfg.certificates)
    <2>1. SubSeq(cfg.certificates, 1, Len(cfg.certificates)) = cfg.certificates
      BY SubSeqFull
    <2>2. Len(cfg.certificates) \in 0..Len(cfg.certificates) BY LenProperties
    <2> QED BY <2>1, <2>2 DEF Cut
  <1>6. CASE f \in {SubSeq(y, 1, n) : n \in 0..Len(y)}
    <2>1. f \in {<<>>, <<A>>, <<A, G>>, <<A, G, C(cfg.certificates)>>} BY <1>1, <1>4, <1>6
    <2> QED BY <1>5, <2>1 DEF A, G, C, ToAPI, ToAgent, ToCertificates
  <1>7. CASE \E g \in {SubSeq(y, 1, n) : n \in 0..Len(y)} :
               /\ g # <<>> /\ Last(g).section = "certificates"
               /\ f \in {Append(Front(g), C(c)) : c \in Cut(Last(g).value)}
    <2>1. PICK g \in {<<>>, <<A>>, <<A, G>>, <<A, G, C(cfg.certificates)>>} :
               /\ g # <<>> /\ Last(g).section = "certificates"
               /\ f \in {Append(Front(g), C(c)) : c \in Cut(Last(g).value)}
      BY <1>1, <1>4, <1>7
    <2>2. Last(<<A>>) = A /\ Last(<<A, G>>) = G
          /\ Last(<<A, G, C(cfg.certificates)>>) = C(cfg.certificates)
      BY DEF Last
    <2>3. g = <<A, G, C(cfg.certificates)>> BY <1>2, <2>1, <2>2
    <2>4. Front(g) = <<A, G>>
      <3>1. Len(g) - 1 = 2 BY <2>3
      <3> QED BY <2>3, <3>1, ThreeElements DEF Front
    <2>5. PICK c \in Cut(cfg.certificates) : f = Append(<<A, G>>, C(c))
      BY <1>2, <2>1, <2>2, <2>3, <2>4
    <2>6. f = <<A, G, C(c)>> BY <2>5, ThreeElements
    <2> QED BY <2>6 DEF A, G, C, ToCertificates
  <1> QED BY <1>3, <1>6, <1>7 DEF Beginnings, C

\* What a command finds in them
LEMMA SectionOf ==
  ASSUME NEW a, NEW g, NEW c, NEW d
  PROVE  /\ Section(<<>>, "certificates", d) = d
         /\ Section(ToAPI(a), "certificates", d) = d
         /\ Section(ToAgent(a, g), "certificates", d) = d
         /\ Section(ToCertificates(a, g, c), "api", d) = a
         /\ Section(ToCertificates(a, g, c), "agent", d) = g
         /\ Section(ToCertificates(a, g, c), "certificates", d) = c
  <1> DEFINE f == ToCertificates(a, g, c)
             Found(s) == {i \in DOMAIN f : f[i].section = s}
  <1>1. Found("api") = {1} /\ Found("agent") = {2} /\ Found("certificates") = {3}
    BY DEF Line, ToCertificates
  <1>2. f[1].value = a /\ f[2].value = g /\ f[3].value = c BY DEF Line, ToCertificates
  <1>3. \A n : (CHOOSE i \in {n} : TRUE) = n OBVIOUS
  <1>4. /\ {i \in DOMAIN <<>> : <<>>[i].section = "certificates"} = {}
        /\ {i \in DOMAIN ToAPI(a) : ToAPI(a)[i].section = "certificates"} = {}
        /\ {i \in DOMAIN ToAgent(a, g) : ToAgent(a, g)[i].section = "certificates"} = {}
    BY DEF Line, ToAPI, ToAgent
  <1>5. \A s : Section(f, s, d) = IF Found(s) = {} THEN d
                                  ELSE f[CHOOSE i \in Found(s) : TRUE].value
    BY DEF Section
  <1>6. /\ Section(<<>>, "certificates", d) = d
        /\ Section(ToAPI(a), "certificates", d) = d
        /\ Section(ToAgent(a, g), "certificates", d) = d
    BY <1>4 DEF Section
  <1> HIDE DEF f, Found
  <1>7. /\ Section(f, "api", d) = a /\ Section(f, "agent", d) = g
        /\ Section(f, "certificates", d) = c
    BY <1>1, <1>2, <1>3, <1>5
  <1> QED BY <1>6, <1>7 DEF f

\* What a cut leaves of the certificates
LEMMA CutOf ==
  ASSUME NEW S, NEW s \in Seq(S), NEW c \in Cut(s)
  PROVE  /\ Len(c) \in Nat /\ Len(c) <= Len(s) /\ DOMAIN c = 1..Len(c)
         /\ \A i \in 1..Len(c) : i < Len(c) => c[i] = s[i]
         /\ \A i \in 1..Len(c) : c[i] = s[i] \/ \E d : c[i] = ShortPort(s[i], d)
  <1> DEFINE First == {SubSeq(s, 1, n) : n \in 0..Len(s)}
             Digits == {10, 100, 1000, 10000, 100000}
  <1>1. ASSUME NEW b \in First
        PROVE  /\ b \in Seq(S) /\ Len(b) \in Nat /\ Len(b) <= Len(s)
               /\ \A i \in 1..Len(b) : b[i] = s[i]
    <2>1. PICK n \in 0..Len(s) : b = SubSeq(s, 1, n) OBVIOUS
    <2>2. Len(s) \in Nat /\ \A i \in 1..n : s[i] \in S BY LenProperties, ElementOfSeq
    <2>3. /\ b \in Seq(S) /\ Len(b) = n
          /\ \A i \in 1..n : b[i] = s[i]
      BY <2>1, <2>2, SubSeqProperties
    <2> QED BY <2>2, <2>3
  <1>2. Len(s) \in Nat BY LenProperties
  <1>3. c \in First \/ \E b \in First \ {<<>>}, d \in Digits : c = [b EXCEPT ![Len(b)] = ShortPort(@, d)]
    <2>1. c \in First \cup {[b EXCEPT ![Len(b)] = ShortPort(@, d)] :
                             b \in First \ {<<>>}, d \in Digits}
      BY DEF Cut
    <2> HIDE DEF First, Digits
    <2> QED BY <2>1
  <1> HIDE DEF First, Digits
  <1>4. CASE c \in First BY <1>1, <1>4, LenProperties
  <1>5. ASSUME NEW b \in First, b # <<>>, NEW d,
               c = [b EXCEPT ![Len(b)] = ShortPort(@, d)]
        PROVE  /\ Len(c) \in Nat /\ Len(c) <= Len(s) /\ DOMAIN c = 1..Len(c)
               /\ \A i \in 1..Len(c) : i < Len(c) => c[i] = s[i]
               /\ \A i \in 1..Len(c) : c[i] = s[i] \/ \E x : c[i] = ShortPort(s[i], x)
    <2> DEFINE n == Len(b)
               e == ShortPort(s[n], d)
    <2>1. b \in Seq(S) /\ n <= Len(s) /\ \A i \in 1..n : b[i] = s[i] BY <1>1
    <2>2. n \in Nat \ {0} /\ n \in 1..n BY <1>5, <2>1, EmptySeq
    <2>3. c = [b EXCEPT ![n] = e] BY <1>5, <2>1, <2>2
    <2>4. b \in Seq(S \cup {e}) BY <2>1, SeqMonotonic
    <2> HIDE DEF e
    <2>5. /\ c \in Seq(S \cup {e}) /\ Len(c) = n
          /\ \A i \in 1..n : c[i] = IF i = n THEN e ELSE b[i]
      BY <2>2, <2>3, <2>4, ExceptSeq
    <2>6. DOMAIN c = 1..Len(c) BY <2>5, LenProperties
    <2> HIDE DEF n
    <2>7. \A i \in 1..n : i < n => c[i] = s[i] BY <2>1, <2>2, <2>5
    <2>8. \A i \in 1..n : c[i] = s[i] \/ \E x : c[i] = ShortPort(s[i], x)
      BY <2>1, <2>5 DEF e
    <2> QED BY <2>1, <2>2, <2>5, <2>6, <2>7, <2>8
  <1> QED BY <1>3, <1>4, <1>5

\* A file that ends before the certificates has none
LEMMA LoadedNone ==
  ASSUME NEW a, NEW g, NEW key, NEW f \in {<<>>, ToAPI(a), ToAgent(a, g)}
  PROVE  Loaded(f, key).certificates = <<>>
  <1>1. Section(f, "certificates", <<>>) = <<>> BY SectionOf
  <1>2. Loaded(f, key).certificates = [i \in DOMAIN <<>> |-> WithPort(<<>>[i])]
    BY <1>1 DEF Loaded
  <1>3. [i \in DOMAIN <<>> |-> WithPort(<<>>[i])] = <<>> OBVIOUS
  <1> QED BY <1>2, <1>3

LEMMA LoadedOf ==
  ASSUME NEW a, NEW g, NEW c, NEW key
  PROVE  Loaded(ToCertificates(a, g, c), key) =
           [api |-> [a EXCEPT !.key = IF key = NoKey THEN @ ELSE key],
            agent |-> g, certificates |-> [i \in DOMAIN c |-> WithPort(c[i])]]
  BY SectionOf DEF Loaded

LEMMA PrefixByElements ==
  ASSUME NEW S, NEW s \in Seq(S), NEW t \in Seq(S), Len(s) <= Len(t),
         \A i \in 1..Len(s) : s[i] = t[i]
  PROVE  IsPrefix(s, t)
  <1> DEFINE n == Len(s)
  <1>1. n \in Nat /\ Len(t) \in Nat BY LenProperties
  <1>2. /\ \A i \in 1..n : s[i] \in S
        /\ \A i \in 1..n : t[i] \in S
    BY <1>1, ElementOfSeq
  <1>3. /\ SubSeq(s, 1, n) \in Seq(S) /\ SubSeq(t, 1, n) \in Seq(S)
        /\ Len(SubSeq(s, 1, n)) = n /\ Len(SubSeq(t, 1, n)) = n
        /\ \A i \in 1..n : SubSeq(s, 1, n)[i] = s[i] /\ SubSeq(t, 1, n)[i] = t[i]
    BY <1>1, <1>2, SubSeqProperties
  <1>4. SubSeq(s, 1, n) = SubSeq(t, 1, n) BY <1>3, SeqEqual
  <1> QED BY <1>4 DEF IsPrefix

------------------------------------------------------------------------------
(* What was entered, and what is written of it *)

Certificate == [host : HostTexts, port : PortTexts]

LEMMA ToConfigCertificates ==
  ASSUME input.certificates \in Seq(Certificate)
  PROVE  ToConfig.certificates \in Seq(Certificate)
  <1> DEFINE certs == input.certificates
             Converted(c) == [c EXCEPT !.port = IF @ \in {Unset, NaN} THEN 443 ELSE @]
             converted == [i \in 1..Len(certs) |-> Converted(certs[i])]
  <1>1. certs \in [1..Len(certs) -> Certificate] /\ Len(certs) \in Nat
    BY LenProperties
  <1>2. ToConfig.certificates = converted BY <1>1 DEF ToConfig
  <1>3. ASSUME NEW c \in Certificate PROVE Converted(c) \in Certificate
    BY DEF Certificate, PortTexts
  <1> HIDE DEF Converted
  <1>4. converted \in [1..Len(certs) -> Certificate] BY <1>1, <1>3
  <1> QED BY <1>1, <1>2, <1>4, SeqDef

\* A certificate that Validate accepts is read as it was written, and one whose
\* port is cut keeps its host
LEMMA ReadCertificate ==
  ASSUME NEW c \in Certificate, c.port \in 1..MaxPort
  PROVE  /\ WithPort(c) = c
         /\ \A d : WithPort(ShortPort(c, d)).host = c.host
  <1>1. c.port # 0 BY PortBounds
  <1>2. WithPort(c) = c BY <1>1 DEF WithPort, Certificate
  <1>3. \A d : WithPort(ShortPort(c, d)).host = c.host
    BY DEF WithPort, ShortPort, Certificate
  <1> QED BY <1>2, <1>3

\* The whole file is read as it was written
LEMMA ReadsBack ==
  ASSUME ToConfig.certificates \in Seq(Certificate), Valid(ToConfig),
         NEW key
  PROVE  Loaded(YAML(ToConfig), key) =
           [api |-> [ToConfig.api EXCEPT !.key = IF key = NoKey THEN @ ELSE key],
            agent |-> ToConfig.agent, certificates |-> ToConfig.certificates]
  <1> DEFINE certs == ToConfig.certificates
             read == [i \in DOMAIN certs |-> WithPort(certs[i])]
  <1>1. DOMAIN certs = 1..Len(certs) /\ certs \in [1..Len(certs) -> Certificate]
        /\ Len(certs) \in Nat
    BY LenProperties
  <1>2. \A i \in DOMAIN certs : certs[i].port \in 1..MaxPort
    BY DEF Valid, ValidCertificates
  <1> HIDE DEF certs
  <1>3. \A i \in DOMAIN certs : WithPort(certs[i]) = certs[i]
    BY <1>1, <1>2, ReadCertificate
  <1>4. read = certs BY <1>1, <1>3
  <1>5. YAML(ToConfig) = ToCertificates(ToConfig.api, ToConfig.agent, certs)
    BY DEF YAML, ToCertificates, certs
  <1>6. Loaded(YAML(ToConfig), key) =
          [api |-> [ToConfig.api EXCEPT !.key = IF key = NoKey THEN @ ELSE key],
           agent |-> ToConfig.agent, certificates |-> read]
    BY <1>5, LoadedOf
  <1> QED BY <1>4, <1>6 DEF certs

\* What is accepted of a beginning of the file
LEMMA AcceptedBeginning ==
  ASSUME ToConfig.certificates \in Seq(Certificate), Valid(ToConfig),
         NEW f \in Beginnings(YAML(ToConfig)), NEW key, NEW list, Accepted(f, key, list)
  PROVE  LET got == Loaded(f, NoKey)
             hosts(cfg) == [i \in DOMAIN cfg.certificates |-> cfg.certificates[i].host]
         IN /\ got.api = ToConfig.api /\ got.agent = ToConfig.agent
            /\ IsPrefix(hosts(got), hosts(ToConfig))
            /\ IsPrefix(Front(got.certificates), ToConfig.certificates)
  <1> DEFINE certs == ToConfig.certificates
             got == Loaded(f, NoKey)
  <1>1. Len(Loaded(f, key).certificates) # 0
    <2>1. Len(Loaded(f, key).certificates) \in 1..MaxCertificates
      BY DEF Accepted, Valid, ValidCertificates
    <2> HIDE DEF got
    <2> QED BY <2>1
  <1>2. PICK c \in Cut(certs) : f = ToCertificates(ToConfig.api, ToConfig.agent, c)
    <2>1. Len(<<>>) = 0 OBVIOUS
    <2>2. f \notin {<<>>, ToAPI(ToConfig.api), ToAgent(ToConfig.api, ToConfig.agent)}
      BY <1>1, <2>1, LoadedNone
    <2> QED BY <2>2, BeginningsOf
  <1>3. /\ got.agent = ToConfig.agent
        /\ got.certificates = [i \in DOMAIN c |-> WithPort(c[i])]
        /\ got.api = [ToConfig.api EXCEPT !.key = ToConfig.api.key]
        /\ Loaded(f, key).certificates = [i \in DOMAIN c |-> WithPort(c[i])]
    BY <1>2, LoadedOf
  <1>4. got.api = ToConfig.api BY <1>3 DEF ToConfig
  <1> DEFINE n == Len(c)
             read == [i \in 1..n |-> WithPort(c[i])]
  <1>5. /\ n \in Nat /\ n <= Len(certs) /\ DOMAIN c = 1..n
        /\ \A i \in 1..n : i < n => c[i] = certs[i]
        /\ \A i \in 1..n : c[i] = certs[i] \/ \E d : c[i] = ShortPort(certs[i], d)
    BY CutOf
  <1>6. got.certificates = read /\ Loaded(f, key).certificates = read BY <1>3, <1>5
  <1>7. Len(certs) \in Nat /\ DOMAIN certs = 1..Len(certs)
        /\ \A i \in 1..Len(certs) : certs[i] \in Certificate /\ certs[i].port \in 1..MaxPort
    <2>1. Len(certs) \in Nat /\ DOMAIN certs = 1..Len(certs) BY LenProperties
    <2>2. \A i \in 1..Len(certs) : certs[i] \in Certificate BY ElementOfSeq
    <2> QED BY <2>1, <2>2 DEF Valid, ValidCertificates
  <1>8. certs \in Seq(Certificate) OBVIOUS
  <1> HIDE DEF certs, n, got
  <1>9. \A i \in 1..n : read[i].host = certs[i].host
    <2> SUFFICES ASSUME NEW i \in 1..n PROVE WithPort(c[i]).host = certs[i].host OBVIOUS
    <2>1. certs[i] \in Certificate /\ certs[i].port \in 1..MaxPort
      <3>1. i \in 1..Len(certs) BY <1>5, <1>7
      <3> QED BY <1>7, <3>1
    <2> QED BY <1>5, <2>1, ReadCertificate
  <1>10. \A i \in 1..n : i < n => read[i] = certs[i]
    <2> SUFFICES ASSUME NEW i \in 1..n, i < n PROVE WithPort(c[i]) = certs[i] OBVIOUS
    <2>1. certs[i] \in Certificate /\ certs[i].port \in 1..MaxPort
      <3>1. i \in 1..Len(certs) BY <1>5, <1>7
      <3> QED BY <1>7, <3>1
    <2> QED BY <1>5, <2>1, ReadCertificate
  <1>11. DOMAIN read = 1..n OBVIOUS
  <1> HIDE DEF read
  <1>12. IsPrefix([i \in 1..n |-> read[i].host], [i \in 1..Len(certs) |-> certs[i].host])
    <2> DEFINE H == {certs[i].host : i \in 1..Len(certs)}
               s == [i \in 1..n |-> read[i].host]
               t == [i \in 1..Len(certs) |-> certs[i].host]
    <2>1. \A i \in 1..n : i \in 1..Len(certs) BY <1>5, <1>7
    <2>2. s \in [1..n -> H] /\ t \in [1..Len(certs) -> H] BY <1>9, <2>1
    <2>3. \A i \in 1..n : s[i] = t[i] BY <1>9, <2>1
    <2> HIDE DEF H, s, t
    <2>4. s \in Seq(H) /\ t \in Seq(H)
      <3>1. s \in Seq(H) BY <1>5, <2>2, SeqDef
      <3>2. t \in Seq(H) BY <1>7, <2>2, SeqDef
      <3> QED BY <3>1, <3>2
    <2>5. Len(s) = n /\ Len(t) = Len(certs) BY <1>5, <1>7, <2>2, <2>4, LenProperties
    <2>6. IsPrefix(s, t) BY <1>5, <2>3, <2>4, <2>5, PrefixByElements
    <2> QED BY <2>6 DEF s, t
  <1>13. IsPrefix(Front(read), certs)
    <2> DEFINE S == Certificate \cup {read[i] : i \in 1..n}
    <2>1. certs \in Seq(S) BY <1>8, SeqMonotonic
    <2>2. read \in [1..n -> S]
      <3>1. read = [i \in 1..n |-> WithPort(c[i])] BY DEF read
      <3>2. \A i \in 1..n : read[i] \in S OBVIOUS
      <3> HIDE DEF S
      <3> QED BY <3>1, <3>2
    <2> HIDE DEF S
    <2>3. read \in Seq(S) BY <1>5, <2>2, SeqDef
    <2>4. Len(read) = n BY <1>5, <2>2, <2>3, LenProperties
    <2>5. n # 0
      <3> SUFFICES ASSUME n = 0 PROVE FALSE OBVIOUS
      <3> QED BY <1>1, <1>6, <2>4
    <2>6. n - 1 \in Nat /\ n - 1 <= Len(certs) BY <1>5, <1>7, <2>5
    <2>7. \A i \in 1..(n - 1) : i \in 1..n /\ i < n /\ read[i] \in S
      BY <1>5, <2>2, <2>6
    <2>8. /\ Front(read) \in Seq(S) /\ Len(Front(read)) = n - 1
          /\ \A i \in 1..(n - 1) : Front(read)[i] = read[i]
      <3>1. Front(read) = SubSeq(read, 1, n - 1) BY <2>4 DEF Front
      <3> QED BY <2>6, <2>7, <3>1, SubSeqProperties
    <2>9. \A i \in 1..(n - 1) : Front(read)[i] = certs[i] BY <1>10, <2>7, <2>8
    <2> QED BY <2>1, <2>6, <2>8, <2>9, PrefixByElements
  <1> QED BY <1>3, <1>4, <1>6, <1>7, <1>11, <1>12, <1>13 DEF got, certs

------------------------------------------------------------------------------
(* Types, and what is written *)

\* What the environment can have filled in
EnvironmentCertificate == [host : Hosts \cup {Odd}, port : {443}]

EnvironmentInputs ==
    [key : KeyTexts, scheme : {"https", "ftp"}, name : {0, 1, DefaultName, 101},
     sync : {NaN, 29, 300}, scan : {9, 60}, logLevel : {"info", "trace"},
     metrics : {NaN, 8080, 65536}, heartbeat : {NaN, 0, 9, 30},
     certificates : Seq(EnvironmentCertificate)]

FromEnvironment ==
    ~forms => stage \notin Forms \cup {"existing"} /\ input \in EnvironmentInputs

Typed ==
    /\ stage \in Forms \cup Steps \cup Ends
    /\ forms \in BOOLEAN /\ existed \in BOOLEAN /\ overwrite \in BOOLEAN
    /\ envKey \in KeyTexts /\ envList \in BOOLEAN

\* A file that the wizard has touched is a beginning of what it writes, all of it
\* where it reports success, and is touched in the last step before an end only.
FileWritten ==
    /\ stage \notin {"truncated"} \cup Ends => file \in {Absent, Foreign}
    /\ \/ file \in {Absent, Foreign}
       \/ Valid(ToConfig) /\ file \in Beginnings(YAML(ToConfig))
    /\ stage = "success" => Valid(ToConfig) /\ file = YAML(ToConfig)

WInv == IInv /\ FromEnvironment /\ Typed /\ FileWritten

USE DEF Forms, Steps, Ends

LEMMA InitWInv == Init => WInv
  <1> SUFFICES ASSUME Init PROVE WInv OBVIOUS
  <1>1. NewInput \in EnvironmentInputs
    <2>1. <<>> \in Seq(EnvironmentCertificate) BY EmptySeq
    <2> QED BY <2>1 DEF NewInput, EnvironmentInputs, KeyTexts
  <1>2. FromEnvironment BY <1>1 DEF Init, FromEnvironment
  <1>3. Typed /\ FileWritten BY DEF Init, Typed, FileWritten
  <1> QED BY <1>2, <1>3, InitIInv DEF WInv

LEMMA EnvironmentRead ==
  ASSUME WInv, ReadEnvironment
  PROVE  input' \in EnvironmentInputs /\ stage' \in {"failed", "validate"}
  <1>1. input \in EnvironmentInputs /\ envKey \in KeyTexts
    BY DEF ReadEnvironment, WInv, IInv, Filled, FromEnvironment, Typed
  <1>2. PICK env \in Environments :
          input' =
            [key |-> envKey, scheme |-> Or(env.scheme, input.scheme),
             name |-> Or(env.name, DefaultName),
             sync |-> Or(env.sync, input.sync), scan |-> Or(env.scan, input.scan),
             logLevel |-> Or(env.logLevel, input.logLevel),
             metrics |-> Or(env.metrics, input.metrics),
             heartbeat |-> Or(env.heartbeat, input.heartbeat),
             certificates |-> OnDefaultPort(env.hosts)]
    BY Zenon DEF ReadEnvironment
  <1>3. OnDefaultPort(env.hosts) \in Seq(EnvironmentCertificate)
    <2>1. env.hosts \in SeqOf(Hosts \cup {Odd}, MaxCertificates) BY DEF Environments
    <2>2. PICK n \in 0..MaxCertificates : env.hosts \in [1..n -> Hosts \cup {Odd}]
      BY <2>1 DEF SeqOf
    <2>3. n \in Nat BY MaxAssumption
    <2>4. OnDefaultPort(env.hosts) \in [1..n -> EnvironmentCertificate]
      BY <2>2 DEF OnDefaultPort, EnvironmentCertificate
    <2> QED BY <2>3, <2>4, SeqDef
  <1>4. /\ Or(env.scheme, input.scheme) \in {"https", "ftp"}
        /\ Or(env.name, DefaultName) \in {0, 1, DefaultName, 101}
        /\ Or(env.sync, input.sync) \in {NaN, 29, 300}
    BY <1>1 DEF Or, Environments, EnvironmentInputs
  <1>5. /\ Or(env.scan, input.scan) \in {9, 60}
        /\ Or(env.logLevel, input.logLevel) \in {"info", "trace"}
        /\ Or(env.metrics, input.metrics) \in {NaN, 8080, 65536}
        /\ Or(env.heartbeat, input.heartbeat) \in {NaN, 0, 9, 30}
    BY <1>1 DEF Or, Environments, EnvironmentInputs
  <1>6. input' \in EnvironmentInputs
    BY <1>1, <1>2, <1>3, <1>4, <1>5 DEF EnvironmentInputs
  <1>7. stage' \in {"failed", "validate"} BY Zenon DEF ReadEnvironment
  <1> QED BY <1>6, <1>7

LEMMA FromEnvironmentStep ==
  ASSUME WInv, [Next]_vars
  PROVE  FromEnvironment'
  <1> SUFFICES ASSUME ~forms' PROVE FromEnvironment' BY DEF FromEnvironment
  <1>1. CASE ReadEnvironment
    BY <1>1, EnvironmentRead DEF FromEnvironment
  <1>2. CASE \/ Welcome \/ CheckExisting \/ ConfirmOverwrite
             \/ APIForm \/ AgentForm \/ AdvancedForm \/ CertificateForm
    <2>1. stage \in Forms \cup {"existing"} /\ forms' = forms
      BY <1>2, FormFills DEF Welcome, Fill, CheckExisting, ConfirmOverwrite
    <2> QED BY <2>1 DEF WInv, FromEnvironment
  <1>3. CASE Validate \/ OpenFails \/ Truncate \/ Write \/ WriteCut
    <2>1. /\ stage' \in {"failed", "write", "rejected", "truncated", "success"}
          /\ forms' = forms /\ input' = input
      BY <1>3 DEF Validate, OpenFails, Truncate, Write, WriteCut
    <2> QED BY <2>1 DEF WInv, FromEnvironment
  <1>4. CASE Cancel BY <1>4 DEF Cancel, WInv, FromEnvironment
  <1>5. CASE Appear \/ Ended \/ UNCHANGED vars
    BY <1>5 DEF Appear, Ended, vars, WInv, FromEnvironment
  <1> QED BY <1>1, <1>2, <1>3, <1>4, <1>5 DEF Next

LEMMA TypedStep ==
  ASSUME WInv, [Next]_vars
  PROVE  Typed'
  <1> USE DEF WInv, Typed
  <1>1. CASE APIForm \/ AgentForm \/ AdvancedForm \/ CertificateForm
    BY <1>1, FormFills DEF Fill
  <1>2. CASE Welcome BY <1>2 DEF Welcome, Fill
  <1>3. CASE CheckExisting BY <1>3 DEF CheckExisting
  <1>4. CASE ConfirmOverwrite BY <1>4 DEF ConfirmOverwrite
  <1>5. CASE ReadEnvironment
    <2>1. UNCHANGED <<forms, envKey, envList, existed, overwrite>> BY <1>5 DEF ReadEnvironment
    <2> QED BY <1>5, <2>1, EnvironmentRead
  <1>6. CASE Validate BY <1>6 DEF Validate
  <1>7. CASE OpenFails \/ Truncate \/ Write \/ WriteCut
    BY <1>7 DEF OpenFails, Truncate, Write, WriteCut
  <1>8. CASE Cancel \/ Appear \/ Ended \/ UNCHANGED vars
    BY <1>8 DEF Cancel, Appear, Ended, vars
  <1> QED BY <1>1, <1>2, <1>3, <1>4, <1>5, <1>6, <1>7, <1>8 DEF Next

LEMMA FileWrittenStep ==
  ASSUME WInv, [Next]_vars
  PROVE  FileWritten'
  <1>1. ASSUME file' = file, stage \notin {"truncated"} \cup Ends,
               stage' # "success"
        PROVE  FileWritten'
    BY <1>1 DEF WInv, FileWritten
  <1>2. input' = input => ToConfig' = ToConfig BY DEF ToConfig
  <1>3. CASE APIForm \/ AgentForm \/ AdvancedForm \/ CertificateForm
    BY <1>1, <1>3, FormFills DEF Fill
  <1>4. CASE Welcome \/ CheckExisting \/ ConfirmOverwrite
    BY <1>1, <1>4 DEF Welcome, Fill, CheckExisting, ConfirmOverwrite
  <1>5. CASE ReadEnvironment BY <1>1, <1>5 DEF ReadEnvironment
  <1>6. CASE Validate \/ OpenFails BY <1>1, <1>6 DEF Validate, OpenFails
  <1>7. CASE Truncate
    <2>1. Valid(ToConfig) BY <1>7 DEF Truncate, WInv, IInv, Consented
    <2>2. ToConfig' = ToConfig /\ file' = <<>> /\ stage' = "truncated"
      BY <1>2, <1>7 DEF Truncate
    <2> QED BY <2>1, <2>2, LeastAndWhole DEF FileWritten
  <1>8. CASE Write
    <2>1. Valid(ToConfig) BY <1>8 DEF Write, WInv, IInv, Consented
    <2>2. ToConfig' = ToConfig /\ file' = YAML(ToConfig) /\ stage' = "success"
      BY <1>2, <1>8 DEF Write
    <2> QED BY <2>1, <2>2, LeastAndWhole DEF FileWritten
  <1>9. CASE WriteCut
    <2>1. Valid(ToConfig) BY <1>9 DEF WriteCut, WInv, IInv, Consented
    <2>2. /\ ToConfig' = ToConfig /\ file' \in Beginnings(YAML(ToConfig))
          /\ stage' = "failed"
      BY <1>2, <1>9 DEF WriteCut
    <2> QED BY <2>1, <2>2 DEF FileWritten
  <1>10. CASE Cancel
    <2>1. ToConfig' = ToConfig /\ file' = file /\ stage' = "canceled"
      BY <1>2, <1>10 DEF Cancel
    <2> QED BY <2>1 DEF WInv, FileWritten
  <1>11. CASE Appear
    <2>1. file' = Foreign /\ stage' # "success" BY <1>11 DEF Appear
    <2> QED BY <2>1 DEF FileWritten
  <1>12. CASE Ended \/ UNCHANGED vars
    <2>1. ToConfig' = ToConfig /\ file' = file /\ stage' = stage
      BY <1>2, <1>12 DEF Ended, vars
    <2> QED BY <2>1 DEF WInv, FileWritten
  <1> QED BY <1>3, <1>4, <1>5, <1>6, <1>7, <1>8, <1>9, <1>10, <1>11, <1>12 DEF Next

LEMMA AlwaysWInv == Spec => []WInv
  <1>1. WInv /\ [Next]_vars => WInv'
    BY NextIInv, FromEnvironmentStep, TypedStep, FileWrittenStep DEF WInv
  <1> QED BY <1>1, InitWInv, PTL DEF Spec

\* What is entered, by either way
LEMMA InputTyped ==
  ASSUME WInv
  PROVE  /\ input.key \in KeyTexts
         /\ {input.name, input.sync, input.scan, input.metrics, input.heartbeat}
              \subseteq Nat \cup {NaN}
         /\ input.certificates \in Seq(Certificate)
  <1>1. CASE forms
    <2>1. input \in FormInputs BY <1>1 DEF WInv, IInv, Filled
    <2>2. Entered \subseteq Certificate BY DEF Entered, Certificate, HostTexts
    <2>3. input.certificates \in Seq(Certificate)
      BY <2>1, <2>2, SeqMonotonic DEF FormInputs
    <2>4. /\ input.name \in NameTexts /\ input.sync \in {60, 300, 1800}
          /\ input.scan \in {30, 60, 300} /\ input.metrics \in {0, 3000, 8080, 9090}
          /\ input.heartbeat \in {0, 30, 300} /\ input.key \in KeyTexts
      BY <2>1 DEF FormInputs
    <2> QED BY <2>3, <2>4 DEF NameTexts
  <1>2. CASE ~forms
    <2>1. input \in EnvironmentInputs BY <1>2 DEF WInv, FromEnvironment
    <2>2. EnvironmentCertificate \subseteq Certificate
      BY DEF EnvironmentCertificate, Certificate, HostTexts, PortTexts
    <2>3. input.certificates \in Seq(Certificate)
      BY <2>1, <2>2, SeqMonotonic DEF EnvironmentInputs
    <2>4. /\ input.name \in {0, 1, DefaultName, 101} /\ input.sync \in {NaN, 29, 300}
          /\ input.scan \in {9, 60} /\ input.metrics \in {NaN, 8080, 65536}
          /\ input.heartbeat \in {NaN, 0, 9, 30} /\ input.key \in KeyTexts
      BY <2>1 DEF EnvironmentInputs
    <2> QED BY <2>3, <2>4 DEF DefaultName
  <1> QED BY <1>1, <1>2

\* Every variable keeps its type, over every form and every environment.
THEOREM TypeCorrect == Spec => []TypeOK
  <1> SUFFICES ASSUME WInv PROVE TypeOK BY AlwaysWInv, PTL
  <1>1. \A i \in DOMAIN input.certificates : input.certificates[i].port \in PortTexts
    <2>1. input.certificates \in Seq(Certificate) BY InputTyped
    <2>2. \A i \in DOMAIN input.certificates : input.certificates[i] \in Certificate
      BY <2>1, LenProperties, ElementOfSeq
    <2> QED BY <2>2 DEF Certificate
  <1>2. file \in {Absent, Foreign} \/ \A i \in DOMAIN file : file[i].section \in
                                         {"api", "agent", "certificates"}
    <2> SUFFICES ASSUME file \notin {Absent, Foreign}
                 PROVE  \A i \in DOMAIN file : file[i].section \in
                                         {"api", "agent", "certificates"}
      OBVIOUS
    <2>1. ToConfig.certificates \in Seq(Certificate) BY InputTyped, ToConfigCertificates
    <2>2. file \in Beginnings(YAML(ToConfig)) BY DEF WInv, FileWritten
    <2>3. \/ file = <<>> \/ file = ToAPI(ToConfig.api)
          \/ file = ToAgent(ToConfig.api, ToConfig.agent)
          \/ \E c \in Cut(ToConfig.certificates) :
               file = ToCertificates(ToConfig.api, ToConfig.agent, c)
      BY <2>1, <2>2, BeginningsOf
    <2> QED BY <2>3 DEF ToAPI, ToAgent, ToCertificates, Line
  <1> QED BY <1>1, <1>2, InputTyped DEF WInv, Typed, TypeOK

\* What init reports as written is what a command reads, default for default, for
\* any number of certificates, and a command accepts it, a CW_API_KEY that is
\* another key by then, and bad, apart, exactly where CW_CERTIFICATES is not set.
THEOREM SuccessIsAccepted == Spec => []SuccessMeansAccepted
  <1> SUFFICES ASSUME WInv PROVE SuccessMeansAccepted BY AlwaysWInv, PTL
  <1> SUFFICES ASSUME stage = "success"
               PROVE  /\ Loaded(file, NoKey) = ToConfig
                      /\ envKey = NoKey \/ envKey.prefix =>
                           (Accepted(file, envKey, envList) <=> ~envList)
    BY DEF SuccessMeansAccepted
  <1>1. Valid(ToConfig) /\ file = YAML(ToConfig) BY DEF WInv, FileWritten
  <1>2. ToConfig.certificates \in Seq(Certificate) BY InputTyped, ToConfigCertificates
  <1>3. Loaded(file, NoKey) = ToConfig
    <2>1. Loaded(file, NoKey) =
            [api |-> [ToConfig.api EXCEPT !.key = ToConfig.api.key],
             agent |-> ToConfig.agent, certificates |-> ToConfig.certificates]
      BY <1>1, <1>2, ReadsBack
    <2>2. [ToConfig.api EXCEPT !.key = ToConfig.api.key] = ToConfig.api BY DEF ToConfig
    <2>3. ToConfig = [api |-> ToConfig.api, agent |-> ToConfig.agent,
                      certificates |-> ToConfig.certificates]
      BY DEF ToConfig
    <2> QED BY <2>1, <2>2, <2>3
  <1>4. ASSUME envKey # NoKey, envKey.prefix PROVE Valid(Loaded(file, envKey))
    <2> DEFINE api == [ToConfig.api EXCEPT !.key = envKey]
               read == [api |-> api, agent |-> ToConfig.agent,
                        certificates |-> ToConfig.certificates]
    <2>1. Loaded(file, envKey) = read BY <1>1, <1>2, <1>4, ReadsBack
    <2>2. api.scheme = ToConfig.api.scheme /\ api.timeout = 30 /\ api.key = envKey
      BY DEF ToConfig
    <2>3. envKey.length > 0 BY <1>4 DEF WInv, Typed, KeyTexts, Key, NoKey
    <2>4. ValidAPI(ToConfig.api) BY <1>1 DEF Valid
    <2> HIDE DEF api
    <2>5. ValidAPI(api) BY <1>4, <2>2, <2>3, <2>4 DEF ValidAPI
    <2> QED BY <1>1, <2>1, <2>5 DEF Valid
  <1>5. Loads(file, envList) <=> ~envList
    <2>1. 3 \in DOMAIN file /\ file[3].section = "certificates"
      BY <1>1 DEF YAML, Line
    <2>2. envList \in BOOLEAN BY DEF WInv, Typed
    <2> QED BY <2>1, <2>2 DEF Loads
  <1>6. ASSUME envKey = NoKey \/ envKey.prefix PROVE Valid(Loaded(file, envKey))
    BY <1>1, <1>3, <1>4, <1>6
  <1> QED BY <1>3, <1>5, <1>6 DEF Accepted

\* Wherever the writing of the file ends, what a command accepts of it has the
\* settings that were chosen and the first of the certificates that were entered,
\* of which the last alone may have lost digits of its port.
THEOREM AcceptedIsWhatWasChosen == Spec => []AcceptedIsChosen
  <1> SUFFICES ASSUME WInv PROVE AcceptedIsChosen BY AlwaysWInv, PTL
  <1>1. ASSUME Written, Accepted(file, envKey, envList)
        PROVE  /\ Valid(ToConfig) /\ file \in Beginnings(YAML(ToConfig))
               /\ ToConfig.certificates \in Seq(Certificate)
    BY <1>1, InputTyped, ToConfigCertificates DEF Written, WInv, FileWritten
  <1> QED BY <1>1, AcceptedBeginning DEF AcceptedIsChosen

==============================================================================
