--------------------------------- MODULE Show ---------------------------------
(***************************************************************************)
(* `labdns show <fqdn> --dns-server`: inspector.details of internal/cli/    *)
(* inspect.go and lookupDNS of internal/cli/dns.go.  The command lists the  *)
(* records of the name once and then, record by record, reads the provider  *)
(* and the source and asks a DNS server, while the DNSEndpoints and the     *)
(* server's zone change, replies are lost or truncated, and the timeout     *)
(* that all requests share runs out.                                        *)
(***************************************************************************)
EXTENDS Naturals, Sequences, SequencesExt

CONSTANTS Addresses,
          MaxShowChanges,   \* bound: changes of DNSEndpoints and of the server
          MaxRecords        \* bound: records of the name

ASSUME ShowAssumption == {MaxShowChanges, MaxRecords} \subseteq Nat

RecordTypes == {"A", "AAAA", "other"}

Supported == {"A", "AAAA"}

\* A record of a DNSEndpoint: users may have written another type.
Record == [type : RecordTypes, targets : (SUBSET Addresses) \ {{}}]

\* What the server answers: the addresses for each type, or a failure.
Zone == [rcode : {"success"}, A : SUBSET Addresses, AAAA : SUBSET Addresses]

Failing == [rcode |-> "failure", A |-> {}, AAAA |-> {}]

NameError == [rcode |-> "nxdomain", A |-> {}, AAAA |-> {}]

VARIABLES endpoints,  \* the records of the name, as listed by the API server
          zone,       \* what the DNS server answers for the name
          expired,    \* the request timeout has run out
          pc,         \* the next request of the command
          list,       \* the records it has listed
          verdict,    \* the DNS states of the records done
          result,     \* "ok", or "failed": a non-zero exit status
          zones,      \* the zones since the current lookup began
          showChanges \* changes so far

showVars == <<endpoints, zone, expired, pc, list, verdict, result, zones, showChanges>>

Current == list[Len(verdict) + 1]

Expected == Current.targets

\* The addresses of the type that is asked for.
AnswersIn(z, type) == IF type = "A" THEN z.A ELSE z.AAAA

-----------------------------------------------------------------------------
Stop(how) == pc' = "done" /\ result' = how

\* Mutant: the last lookup decides.
FinishLast(states) ==
    Stop(IF Last(states) \in {"error", "unsupported"} THEN "failed" ELSE "ok")

\* The table is printed after the last record; a lookup with an error fails
\* the command then.
Finish(states) ==
    Stop(IF \E n \in DOMAIN states : states[n] \in {"error", "unsupported"} THEN "failed" ELSE "ok")

\* records: no record of the name is an error.
List ==
    /\ pc = "list"
    /\ \/ /\ ~expired /\ endpoints # <<>>
          /\ list' = endpoints /\ pc' = "provider" /\ UNCHANGED result
       \/ /\ expired \/ endpoints = <<>>
          /\ Stop("failed") /\ UNCHANGED list
    /\ UNCHANGED <<verdict, zones>>

\* providerDetail, sourceDetail: an object that is not there is no error.
Detail(from, to) ==
    /\ pc = from
    /\ IF expired THEN Stop("failed") ELSE pc' = to /\ UNCHANGED result
    /\ UNCHANGED <<list, verdict>>

GetProvider == Detail("provider", "source") /\ UNCHANGED zones

GetSource == Detail("source", "udp") /\ zones' = {zone}

Conclude(state) ==
    /\ verdict' = Append(verdict, state)
    /\ IF Len(verdict') < Len(list) THEN pc' = "provider" /\ UNCHANGED result ELSE Finish(verdict')
    /\ UNCHANGED <<list, zones>>

\* The verdict on a reply: answers of other types are skipped.
Compare(rcode, answers) ==
    CASE rcode = "nxdomain" -> "nxdomain"
      [] rcode = "failure"  -> "error"
      [] rcode = "success" /\ answers = Expected -> "match"
      [] rcode = "success" /\ answers # Expected -> "mismatch"

\* Mutant: a truncated reply is compared as it is.
AskUDPOnly ==
    /\ pc = "udp"
    /\ \/ Current.type \notin Supported /\ Conclude("unsupported")
       \/ Current.type \in Supported /\ Conclude("error")
       \/ /\ Current.type \in Supported /\ ~expired
          /\ \E part \in SUBSET AnswersIn(zone, Current.type) : Conclude(Compare(zone.rcode, part))

\* A record type that is not supported is not asked for; a request may get no
\* reply, and a reply over UDP may be truncated, which asks again over TCP.
AskUDP ==
    /\ pc = "udp"
    /\ \/ Current.type \notin Supported /\ Conclude("unsupported")
       \/ Current.type \in Supported /\ Conclude("error")
       \/ /\ Current.type \in Supported /\ ~expired
          /\ Conclude(Compare(zone.rcode, AnswersIn(zone, Current.type)))
       \/ /\ Current.type \in Supported /\ ~expired
          /\ AnswersIn(zone, Current.type) # {}
          /\ pc' = "tcp" /\ UNCHANGED <<list, verdict, result, zones>>

AskTCP ==
    /\ pc = "tcp"
    /\ \/ Conclude("error")
       \/ ~expired /\ Conclude(Compare(zone.rcode, AnswersIn(zone, Current.type)))

Command ==
    /\ List \/ GetProvider \/ GetSource \/ AskUDP \/ AskTCP
    /\ UNCHANGED <<endpoints, zone, expired, showChanges>>

-----------------------------------------------------------------------------
\* controllers and ExternalDNS
Edit(n, r) ==
    /\ showChanges < MaxShowChanges /\ showChanges' = showChanges + 1
    /\ endpoints' = [endpoints EXCEPT ![n] = r]
    /\ UNCHANGED <<zone, expired, pc, list, verdict, result, zones>>

Publish(z) ==
    /\ showChanges < MaxShowChanges /\ showChanges' = showChanges + 1
    /\ zone' = z /\ zones' = zones \cup {z}
    /\ UNCHANGED <<endpoints, expired, pc, list, verdict, result>>

\* The context of all requests ends.
Timeout ==
    /\ ~expired /\ pc # "done"
    /\ expired' = TRUE
    /\ UNCHANGED <<endpoints, zone, pc, list, verdict, result, zones, showChanges>>

\* The command is given while the cluster has some records and the server some zone.
Given(records, z) ==
    /\ endpoints = records
    /\ zone = z
    /\ expired = FALSE /\ pc = "list" /\ list = <<>> /\ verdict = <<>>
    /\ result = "ok" /\ zones = {} /\ showChanges = 0

ShowInit == \E n \in 0 .. MaxRecords : \E records \in [1 .. n -> Record], z \in Zone \cup {NameError} :
            Given(records, z)

ShowNext ==
    \/ Command
    \/ \E n \in DOMAIN endpoints, r \in Record : Edit(n, r)
    \/ \E z \in Zone \cup {Failing, NameError} : Publish(z)
    \/ Timeout

ShowSpec == ShowInit /\ [][ShowNext]_showVars

-----------------------------------------------------------------------------
Conclusions == {"match", "mismatch", "nxdomain"}

\* Every variable has its type.
ShowTypeOK ==
    /\ endpoints \in Seq(Record)
    /\ zone \in Zone \cup {Failing, NameError}
    /\ expired \in BOOLEAN
    /\ pc \in {"list", "provider", "source", "udp", "tcp", "done"}
    /\ list \in Seq(Record)
    /\ verdict \in Seq(Conclusions \cup {"error", "unsupported"})
    /\ result \in {"ok", "failed"}
    /\ zones \subseteq Zone \cup {Failing, NameError}
    /\ showChanges \in Nat

\* What a lookup concludes was true of the server while it ran: "match" and
\* "mismatch" compare the listed targets with the complete answer of one
\* moment (a truncated reply, or one mixed from two moments, decides nothing),
\* and "nxdomain" was the server's answer.
TrueVerdict ==
    \A n \in DOMAIN verdict' \ DOMAIN verdict :
        LET answers == {AnswersIn(z, list[n].type) : z \in {z \in zones : z.rcode = "success"}}
        IN  /\ verdict'[n] = "match" => list[n].targets \in answers
            /\ verdict'[n] = "mismatch" => answers \ {list[n].targets} # {}
            /\ verdict'[n] = "nxdomain" => NameError \in zones

VerdictWasTrue == [][TrueVerdict]_showVars

\* A zero exit status means that every record of the name was listed and
\* compared: no request failed and no lookup ended with an error.
SuccessIsComplete ==
    pc = "done" /\ result = "ok" =>
        /\ list # <<>> /\ Len(verdict) = Len(list)
        /\ \A n \in DOMAIN verdict : verdict[n] \in Conclusions

\* The inductive invariant behind both: a record is worked on while there is
\* one left, and a lookup has seen the zone as it is.
ShowInv ==
    /\ pc = "list" => list = <<>> /\ verdict = <<>>
    /\ pc \in {"provider", "source", "udp", "tcp"} => Len(verdict) < Len(list)
    /\ pc \in {"udp", "tcp"} => zone \in zones
    /\ SuccessIsComplete
=============================================================================
