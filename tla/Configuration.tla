----------------------------- MODULE Configuration -----------------------------
(****************************************************************************)
(* The configuration of cw-agent: what the file that `init` writes says     *)
(* (generateYAML in internal/cmd/initcmd/writer.go), what a command makes   *)
(* of a file, also of the beginning of one (initConfig in internal/cmd/     *)
(* root.go, Load in internal/config/config.go), and what it accepts         *)
(* (Validate). Durations are seconds. Of a text the module has what is      *)
(* asked of it: an API key is whether it has the prefix and how long it is, *)
(* a name how long it is. Tags and notes are left out.                      *)
(****************************************************************************)
EXTENDS Integers, Sequences, SequencesExt

CONSTANTS
    Hosts,              \* the host names that can be entered
    MaxCertificates,    \* 1000 in the code
    NoHost              \* the empty text

ASSUME MaxAssumption == MaxCertificates \in Nat \ {0}
ASSUME NoHostAssumption == NoHost \notin Hosts

Key(prefix, length) == [prefix |-> prefix, length |-> length]
NoKey == Key(FALSE, 0)
DefaultName == 13       \* the length of "default-agent"
MaxPort == 65535

LogLevels == {"debug", "info", "warn", "error"}
Schemes == {"http", "https"}

Distinct(s) == \A i, j \in DOMAIN s : s[i] = s[j] => i = j

------------------------------------------------------------------------------
(* Validate *)

ValidAPI(api) ==
    /\ api.scheme \in Schemes
    /\ api.key.length > 0 /\ api.key.prefix
    /\ api.timeout >= 1

ValidAgent(agent) ==
    /\ agent.name \in 1..100
    /\ agent.sync >= 30 /\ agent.scan >= 10
    /\ agent.concurrency \in 1..50
    /\ agent.logLevel \in LogLevels
    /\ agent.heartbeat = 0 \/ agent.heartbeat >= 10
    /\ agent.metrics \in 0..MaxPort

ValidCertificates(certificates) ==
    /\ Len(certificates) \in 1..MaxCertificates
    /\ \A i \in DOMAIN certificates :
         certificates[i].host # NoHost /\ certificates[i].port \in 1..MaxPort
    /\ Distinct(certificates)

Valid(cfg) ==
    ValidAPI(cfg.api) /\ ValidAgent(cfg.agent) /\ ValidCertificates(cfg.certificates)

------------------------------------------------------------------------------
(* The file *)

\* A section of the file
Line(section, value) == [section |-> section, value |-> value]

\* Fault: the settings come after the certificates
YAMLFault(cfg) ==
    <<Line("certificates", cfg.certificates), Line("api", cfg.api), Line("agent", cfg.agent)>>

\* generateYAML
YAML(cfg) ==
    <<Line("api", cfg.api), Line("agent", cfg.agent), Line("certificates", cfg.certificates)>>

\* A port of which the last digits are cut
ShortPort(certificate, d) == [certificate EXCEPT !.port = @ \div d]

\* What is left of a list of certificates that is cut: the first of them, and of
\* the port of the last all digits, some of them or none.
Cut(certificates) ==
    LET first == {SubSeq(certificates, 1, n) : n \in 0..Len(certificates)}
    IN first \cup {[c EXCEPT ![Len(c)] = ShortPort(@, d)] :
                     c \in first \ {<<>>}, d \in {10, 100, 1000, 10000, 100000}}

\* The beginnings of a file that a command does not refuse for their syntax: whole
\* sections, the certificates also in part. (What is cut elsewhere is a syntax
\* error, has no certificate yet, or leaves the last one without a host.)
Beginnings(file) ==
    LET whole == {SubSeq(file, 1, n) : n \in 0..Len(file)}
        ends == {f \in whole : f # <<>> /\ Last(f).section = "certificates"}
    IN whole \cup UNION {{Append(Front(f), Line("certificates", c)) : c \in Cut(Last(f).value)} :
                           f \in ends}

------------------------------------------------------------------------------
(* Load *)

DefaultAPI == [scheme |-> "https", key |-> NoKey, timeout |-> 30]
DefaultAgent ==
    [name |-> DefaultName, sync |-> 300, scan |-> 60, heartbeat |-> 30,
     concurrency |-> 10, logLevel |-> "info", metrics |-> 8080]

\* A section of the file, or the defaults when the file does not have it
Section(file, section, default) ==
    LET found == {i \in DOMAIN file : file[i].section = section}
    IN IF found = {} THEN default ELSE file[CHOOSE i \in found : TRUE].value

\* A certificate without a port has the port 443
WithPort(certificate) ==
    [certificate EXCEPT !.port = IF @ = 0 THEN 443 ELSE @]

\* Fault: a setting that is zero is taken for one that is missing
LoadedFault(file, envKey) ==
    LET agent == Section(file, "agent", DefaultAgent)
        certificates == Section(file, "certificates", <<>>)
    IN [api |-> [Section(file, "api", DefaultAPI) EXCEPT
                   !.key = IF envKey = NoKey THEN @ ELSE envKey],
        agent |-> [agent EXCEPT !.heartbeat = IF @ = 0 THEN 30 ELSE @],
        certificates |-> [i \in DOMAIN certificates |-> WithPort(certificates[i])]]

\* What a command makes of the file; CW_API_KEY stands before its key. A file
\* that cannot be read is an empty one
Loaded(file, envKey) ==
    LET certificates == Section(file, "certificates", <<>>)
    IN [api |-> [Section(file, "api", DefaultAPI) EXCEPT
                   !.key = IF envKey = NoKey THEN @ ELSE envKey],
        agent |-> Section(file, "agent", DefaultAgent),
        certificates |-> [i \in DOMAIN certificates |-> WithPort(certificates[i])]]

\* AutomaticEnv looks for CW_CERTIFICATES when it is asked for the certificates
\* of the file: a text in their place, which Unmarshal refuses. (The other names
\* AutomaticEnv builds have a dot in them, such as CW_AGENT.NAME.)
Loads(file, envList) ==
    envList => \A i \in DOMAIN file : file[i].section # "certificates"

\* `validate` succeeds and `start` goes on
Accepted(file, envKey, envList) ==
    Loads(file, envList) /\ Valid(Loaded(file, envKey))

==============================================================================
