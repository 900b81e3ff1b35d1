------------------------------ MODULE ShowProofs ------------------------------
(***************************************************************************)
(* Proofs about `labdns show`, for any number of records and addresses and  *)
(* any changes of the cluster and of the DNS server while it runs.          *)
(***************************************************************************)
EXTENDS Show, SequenceTheorems, TLAPS

States == Conclusions \cup {"error", "unsupported"}

Zones == Zone \cup {Failing, NameError}

\* A record's lookup ends with one more verdict; the command goes on while
\* there are records, and ends with "ok" only if every verdict is a conclusion.
LEMMA ConcludeEffect ==
    ASSUME ShowTypeOK, Len(verdict) < Len(list), NEW state \in States, Conclude(state)
    PROVE  /\ verdict' = Append(verdict, state) /\ verdict' \in Seq(States)
           /\ Len(verdict') = Len(verdict) + 1
           /\ UNCHANGED <<list, zones>>
           /\ \/ pc' = "provider" /\ result' = result /\ Len(verdict') < Len(list')
              \/ /\ pc' = "done" /\ result' \in {"ok", "failed"} /\ Len(verdict') = Len(list')
                 /\ result' = "ok" => \A n \in DOMAIN verdict' : verdict'[n] \in Conclusions
<1>1. verdict \in Seq(States) /\ Len(verdict) \in Nat /\ Len(list) \in Nat
  BY LenProperties DEF ShowTypeOK, States
<1>2. /\ verdict' = Append(verdict, state) /\ verdict' \in Seq(States)
      /\ Len(verdict') = Len(verdict) + 1
  BY <1>1, AppendProperties DEF Conclude
<1>3. UNCHANGED <<list, zones>>
  BY DEF Conclude
<1>4. CASE Len(verdict') < Len(list)
  BY <1>2, <1>3, <1>4 DEF Conclude
<1>5. CASE ~(Len(verdict') < Len(list))
  <2>1. Finish(verdict') /\ Len(verdict') = Len(list)
    BY <1>1, <1>2, <1>5 DEF Conclude
  <2>2. \A n \in DOMAIN verdict' : verdict'[n] \in States
    BY <1>2, ElementOfSeq, LenProperties
  <2>3. /\ pc' = "done"
        /\ result' = IF \E n \in DOMAIN verdict' : verdict'[n] \in {"error", "unsupported"}
                     THEN "failed" ELSE "ok"
    BY <2>1 DEF Finish, Stop
  <2>4. QED BY <1>2, <1>3, <2>1, <2>2, <2>3 DEF States
<1>6. QED BY <1>4, <1>5

\* A reply's verdict is a state.
LEMMA CompareType ==
    ASSUME NEW z \in Zones, NEW answers
    PROVE  Compare(z.rcode, answers) \in States
<1>1. z.rcode \in {"success", "failure", "nxdomain"}
  BY DEF Zones, Zone, Failing, NameError
<1>2. QED BY <1>1 DEF Compare, States, Conclusions

\* AskUDP and AskTCP end the lookup, or go on over TCP.
LEMMA AskEffect ==
    ASSUME ShowTypeOK, AskUDP \/ AskTCP
    PROVE  /\ pc \in {"udp", "tcp"}
           /\ \/ \E state \in {"error", "unsupported"} : Conclude(state)
              \/ Conclude(Compare(zone.rcode, AnswersIn(zone, Current.type)))
              \/ pc' = "tcp" /\ UNCHANGED <<list, verdict, result, zones>>
BY DEF AskUDP, AskTCP

\* One step of the command, of the cluster or of the server.
LEMMA ShowStep ==
    ASSUME ShowTypeOK, ShowInv, [ShowNext]_showVars
    PROVE  ShowTypeOK' /\ ShowInv'
<1>1. CASE List /\ UNCHANGED <<endpoints, zone, expired, showChanges>>
  <2>1. CASE list' = endpoints /\ pc' = "provider" /\ UNCHANGED result /\ endpoints # <<>>
    <3>1. Len(endpoints) \in Nat /\ Len(endpoints) # 0 /\ Len(<<>>) = 0
      BY <2>1, EmptySeq, LenProperties DEF ShowTypeOK
    <3>2. verdict = <<>> /\ verdict' = verdict /\ zones' = zones
      BY <1>1 DEF List, ShowInv
    <3>3. Len(verdict') < Len(list')
      BY <2>1, <3>1, <3>2
    <3>4. QED BY <1>1, <2>1, <3>2, <3>3 DEF ShowTypeOK, ShowInv, SuccessIsComplete
  <2>2. CASE pc' = "done" /\ result' = "failed" /\ UNCHANGED list
    BY <1>1, <2>2 DEF List, ShowTypeOK, ShowInv, SuccessIsComplete
  <2>3. QED BY <1>1, <2>1, <2>2 DEF List, Stop
<1>2. CASE (GetProvider \/ GetSource) /\ UNCHANGED <<endpoints, zone, expired, showChanges>>
  <2>1. /\ UNCHANGED <<list, verdict>> /\ pc \in {"provider", "source"}
        /\ zones' = zones \/ zones' = {zone}
        /\ \/ pc' = "done" /\ result' = "failed"
           \/ pc' = "source" /\ result' = result
           \/ pc' = "udp" /\ result' = result /\ zones' = {zone}
    BY <1>2 DEF GetProvider, GetSource, Detail, Stop
  <2>2. ShowTypeOK'
    BY <1>2, <2>1 DEF ShowTypeOK
  <2>3. ShowInv'
    BY <1>2, <2>1 DEF ShowInv, SuccessIsComplete
  <2>4. QED BY <2>2, <2>3
<1>3. CASE (AskUDP \/ AskTCP) /\ UNCHANGED <<endpoints, zone, expired, showChanges>>
  <2>1. Len(verdict) < Len(list) /\ zone \in zones
    BY <1>3, AskEffect DEF ShowInv
  <2>2. ASSUME NEW state \in States, Conclude(state)
        PROVE  ShowTypeOK' /\ ShowInv'
    <3>1. /\ verdict' \in Seq(States) /\ UNCHANGED <<list, zones>>
          /\ pc' \in {"provider", "done"} /\ result' \in {"ok", "failed"}
      BY <2>1, <2>2, ConcludeEffect DEF ShowTypeOK
    <3>2. ShowTypeOK'
      BY <1>3, <3>1 DEF ShowTypeOK, States
    <3>3. list # <<>>
      <4>1. Len(<<>>) = 0 /\ Len(verdict) \in Nat
        BY LenProperties DEF ShowTypeOK
      <4>2. QED BY <2>1, <4>1
    <3>4. SuccessIsComplete'
      BY <2>1, <2>2, <3>1, <3>3, ConcludeEffect DEF SuccessIsComplete
    <3>5. pc' = "provider" => Len(verdict') < Len(list')
      BY <2>1, <2>2, ConcludeEffect
    <3>6. QED BY <3>1, <3>2, <3>4, <3>5 DEF ShowInv
  <2>3. CASE pc' = "tcp" /\ UNCHANGED <<list, verdict, result, zones>>
    BY <1>3, <2>1, <2>3 DEF ShowTypeOK, ShowInv, SuccessIsComplete
  <2>4. Compare(zone.rcode, AnswersIn(zone, Current.type)) \in States
    BY CompareType DEF ShowTypeOK, Zones
  <2>5. {"error", "unsupported"} \subseteq States
    BY DEF States
  <2>6. QED BY <1>3, <2>2, <2>3, <2>4, <2>5, AskEffect
<1>4. ASSUME NEW n \in DOMAIN endpoints, NEW r \in Record, Edit(n, r)
      PROVE  ShowTypeOK' /\ ShowInv'
  <2>1. endpoints' \in Seq(Record)
    BY <1>4, ExceptSeq, LenProperties DEF Edit, ShowTypeOK
  <2>2. QED BY <1>4, <2>1 DEF Edit, ShowTypeOK, ShowInv, SuccessIsComplete
<1>5. ASSUME NEW z \in Zone \cup {Failing, NameError}, Publish(z)
      PROVE  ShowTypeOK' /\ ShowInv'
  BY <1>5 DEF Publish, ShowTypeOK, ShowInv, SuccessIsComplete
<1>6. CASE Timeout
  BY <1>6 DEF Timeout, ShowTypeOK, ShowInv, SuccessIsComplete
<1>7. CASE UNCHANGED showVars
  BY <1>7 DEF showVars, ShowTypeOK, ShowInv, SuccessIsComplete
<1>8. QED BY <1>1, <1>2, <1>3, <1>4, <1>5, <1>6, <1>7 DEF ShowNext, Command

LEMMA ShowInvariant == ShowSpec => [](ShowTypeOK /\ ShowInv)
<1>1. ShowInit => ShowTypeOK /\ ShowInv
  <2> SUFFICES ASSUME ShowInit PROVE ShowTypeOK /\ ShowInv
    OBVIOUS
  <2> PICK n \in 0 .. MaxRecords : \E records \in [1 .. n -> Record], z \in Zone \cup {NameError} :
             Given(records, z)
    BY DEF ShowInit
  <2> PICK records \in [1 .. n -> Record], z \in Zone \cup {NameError} : Given(records, z)
    OBVIOUS
  <2>1. records \in Seq(Record) /\ z \in Zone \cup {Failing, NameError}
    OBVIOUS
  <2>2. /\ endpoints = records /\ zone = z /\ expired = FALSE /\ pc = "list" /\ list = <<>>
        /\ verdict = <<>> /\ result = "ok" /\ zones = {} /\ showChanges = 0
    BY DEF Given
  <2>3. list \in Seq(Record) /\ verdict \in Seq(Conclusions \cup {"error", "unsupported"})
    BY <2>2, EmptySeq
  <2>4. ShowTypeOK
    BY <2>1, <2>2, <2>3 DEF ShowTypeOK
  <2>5. ShowInv
    BY <2>2 DEF ShowInv, SuccessIsComplete
  <2>6. QED BY <2>4, <2>5
<1>2. ShowTypeOK /\ ShowInv /\ [ShowNext]_showVars => (ShowTypeOK /\ ShowInv)'
  BY ShowStep
<1>3. QED BY <1>1, <1>2, PTL DEF ShowSpec

\* A zero exit status of `show` means that every listed record was compared:
\* the timeout, a failing read or a failing lookup never ends in success.
THEOREM SuccessComplete == ShowSpec => []SuccessIsComplete
BY ShowInvariant, PTL DEF ShowInv

\* The verdict on a record was true of the server at some moment of its lookup,
\* however the zone changes and whatever reply is lost or truncated.
THEOREM VerdictsTrue == ShowSpec => VerdictWasTrue
<1>1. ASSUME ShowTypeOK, ShowInv, [ShowNext]_showVars, NEW n \in DOMAIN verdict' \ DOMAIN verdict
      PROVE  LET answers == {AnswersIn(z, list[n].type) : z \in {z \in zones : z.rcode = "success"}}
             IN  /\ verdict'[n] = "match" => list[n].targets \in answers
                 /\ verdict'[n] = "mismatch" => answers \ {list[n].targets} # {}
                 /\ verdict'[n] = "nxdomain" => NameError \in zones
  <2> DEFINE answers == {AnswersIn(z, list[n].type) : z \in {z \in zones : z.rcode = "success"}}
  <2>1. verdict' # verdict
    BY <1>1
  <2>2. AskUDP \/ AskTCP
    BY <1>1, <2>1 DEF ShowNext, showVars, Command, List, GetProvider, GetSource, Detail, Edit, Publish,
       Timeout
  <2>3. Len(verdict) < Len(list) /\ zone \in zones
    BY <1>1, <2>2, AskEffect DEF ShowInv
  <2>4. zone \in Zones
    BY <1>1 DEF ShowTypeOK, Zones
  <2>5. PICK state \in States : /\ Conclude(state)
                                /\ \/ state \in {"error", "unsupported"}
                                   \/ state = Compare(zone.rcode, AnswersIn(zone, Current.type))
    BY <1>1, <2>1, <2>2, <2>4, AskEffect, CompareType DEF States
  <2>6. n = Len(verdict) + 1 /\ verdict'[n] = state
    <3>1. verdict \in Seq(States) /\ Len(verdict) \in Nat
      BY <1>1, LenProperties DEF ShowTypeOK, States
    <3>2. verdict' = Append(verdict, state)
      BY <2>5 DEF Conclude
    <3>3. QED BY <1>1, <3>1, <3>2, AppendProperties, LenProperties
  <2>7. list[n] = Current
    BY <2>6 DEF Current
  <2>8. CASE state \in {"error", "unsupported"}
    BY <2>6, <2>8
  <2>9. CASE state = Compare(zone.rcode, AnswersIn(zone, Current.type))
    <3>1. CASE zone = NameError
      <4>1. zone.rcode = "nxdomain"
        BY <3>1 DEF NameError
      <4>2. state = "nxdomain"
        BY <2>9, <4>1 DEF Compare
      <4>3. QED BY <2>3, <2>6, <3>1, <4>2
    <3>2. CASE zone = Failing
      <4>1. zone.rcode = "failure"
        BY <3>2 DEF Failing
      <4>2. state = "error"
        BY <2>9, <4>1 DEF Compare
      <4>3. QED BY <2>6, <4>2
    <3>3. CASE zone \in Zone
      <4>1. zone.rcode = "success"
        BY <3>3 DEF Zone
      <4>2. AnswersIn(zone, list[n].type) \in answers
        BY <2>3, <4>1
      <4>3. state = IF AnswersIn(zone, list[n].type) = list[n].targets THEN "match" ELSE "mismatch"
        BY <2>7, <2>9, <4>1 DEF Compare, Expected
      <4> HIDE DEF answers
      <4>4. /\ verdict'[n] = "match" => list[n].targets \in answers
            /\ verdict'[n] = "mismatch" => answers \ {list[n].targets} # {}
            /\ verdict'[n] # "nxdomain"
        BY <2>6, <4>2, <4>3
      <4>5. QED BY <4>4 DEF answers
    <3>4. QED BY <2>4, <3>1, <3>2, <3>3 DEF Zones
  <2>10. QED BY <2>5, <2>8, <2>9
<1>2. ShowTypeOK /\ ShowInv /\ [ShowNext]_showVars => [TrueVerdict]_showVars
  BY <1>1 DEF TrueVerdict
<1>3. QED BY <1>2, ShowInvariant, PTL DEF ShowSpec, VerdictWasTrue
===============================================================================
