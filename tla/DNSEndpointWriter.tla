-------------------------- MODULE DNSEndpointWriter --------------------------
(***************************************************************************)
(* The pure part of internal/dnsendpoint/writer.go: what one generated      *)
(* DNSEndpoint holds and how Apply and Advance compute its next version.    *)
(*                                                                          *)
(* A target stands for a targetKey (name, record type, target).  Both the   *)
(* spec and the lifecycle annotation of an object are sets of target keys,  *)
(* so an object is the set it publishes, a deadline for each pending        *)
(* target, the deletion delay stored on it and the UID of the source that   *)
(* wrote it.  The external-dns annotations are rewritten under the same     *)
(* condition as the stored delay and carry no state of their own.  The      *)
(* rest of the metadata is either what labdns wrote or it is flawed.        *)
(***************************************************************************)
EXTENDS Integers

CONSTANT Targets

\* No deadline: the target is not pending.
NotPending == -1

\* Labels that are not what labdns wrote.
LabelFlaws == {"managed-by", "source-key", "provider"}

\* "identity": an annotation that names the source's kind, namespace or name is
\* changed or gone.  "lifecycle", "delay": the annotation does not parse.
AnnotationFlaws == {"identity", "lifecycle", "delay"}

Flaws == LabelFlaws \cup AnnotationFlaws

\* uid is 0 when the annotation is empty.
Object == [exists : {TRUE},
           flaws : SUBSET Flaws,
           spec : SUBSET Targets,
           deadline : [Targets -> Nat \cup {NotPending}],
           delay : Nat,
           uid : Nat]

\* A Get answers NotFound.
Absent == [exists |-> FALSE,
           flaws |-> {},
           spec |-> {},
           deadline |-> [t \in Targets |-> NotPending],
           delay |-> 0,
           uid |-> 0]

ObjectOrAbsent == Object \cup {Absent}

Exists(o) == o.exists

Pending(o) == {t \in Targets : o.deadline[t] # NotPending}

Managed(o) == Exists(o) /\ "managed-by" \notin o.flaws

\* Objects the List of Apply returns: the managed-by and source-key labels match.
Listed(o) == Managed(o) /\ "source-key" \notin o.flaws

\* parseLifecycle accepts the annotation, the stored delay parses and every
\* pending target is published by the spec.
Valid(o) == o.flaws \cap {"lifecycle", "delay"} = {} /\ Pending(o) \subseteq o.spec

\* What a source asks of one provider; selected is FALSE when the source does
\* not name the provider, and then records and delay are Go's zero values.
Publication == [selected : BOOLEAN, targets : SUBSET Targets, delay : Nat]

NoPublication == [selected |-> FALSE, targets |-> {}, delay |-> 0]

-----------------------------------------------------------------------------
(***************************************************************************)
(* Writer.build.  A target in the spec that is no longer desired keeps its  *)
(* deadline or receives one from the delay stored on the current object; a  *)
(* desired target loses its deadline; a deadline that is not after time is  *)
(* dropped together with its target.  Labels and the annotations that name  *)
(* the source are written anew, whatever they were.                         *)
(***************************************************************************)
\* Mutant: the publication's delay instead of the stored one.
RequestedDelay(o, pub) == pub.delay

StoredDelay(o, pub) == IF Exists(o) THEN o.delay ELSE pub.delay

RetireAt(o, pub, time, t) ==
    IF o.deadline[t] # NotPending THEN o.deadline[t]
                                  ELSE time + StoredDelay(o, pub)

Kept(o, pub, time, t) == /\ t \in o.spec
                         /\ t \notin pub.targets
                         /\ RetireAt(o, pub, time, t) > time

Build(o, pub, uid, time) ==
    LET kept == {t \in Targets : Kept(o, pub, time, t)}
    IN  IF pub.targets \cup kept = {}
        THEN Absent
        ELSE [exists |-> TRUE,
              flaws |-> {},
              spec |-> pub.targets \cup kept,
              deadline |-> [t \in Targets |->
                               IF t \in kept THEN RetireAt(o, pub, time, t)
                                             ELSE NotPending],
              delay |-> IF pub.targets # {} THEN pub.delay ELSE o.delay,
              uid |-> IF uid # 0 THEN uid ELSE o.uid]

(***************************************************************************)
(* Writer.Advance: the targets whose deadline has passed leave the spec and *)
(* the lifecycle annotation; an object without targets is deleted.  Labels  *)
(* and the other annotations stay as they are.                              *)
(***************************************************************************)
Expired(o, time) == {t \in Pending(o) : o.deadline[t] <= time}

\* Mutant: an object without targets is updated, not deleted.
AdvancedInPlace(o, time) ==
    [o EXCEPT !.spec = @ \ Expired(o, time),
              !.deadline = [t \in Targets |->
                  IF t \in Expired(o, time) THEN NotPending ELSE @[t]]]

Advanced(o, time) ==
    IF o.spec \subseteq Expired(o, time)
    THEN Absent
    ELSE [o EXCEPT !.spec = @ \ Expired(o, time),
                   !.deadline = [t \in Targets |->
                       IF t \in Expired(o, time) THEN NotPending ELSE @[t]]]

\* Mutant: the expired targets count too.
RemainingOfAll(o, time) == {o.deadline[t] - time : t \in Pending(o)}

\* The delays until the next deadline that one call of Advance may return:
\* the remaining times seen, and the value a conflicting attempt left behind.
\* 0 means that nothing was seen.
Remaining(o, time) == {o.deadline[t] - time : t \in Pending(o) \ Expired(o, time)}

NextWake(o, time, next) ==
    LET seen == Remaining(o, time) \cup ({next} \ {0})
    IN  {m \in seen \cup {0} : IF seen = {} THEN m = 0
                               ELSE m \in seen /\ \A k \in seen : m <= k}
=============================================================================
