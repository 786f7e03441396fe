------------------------------ MODULE Resources -----------------------------
(***************************************************************************)
(* StreamConfig and ConsumerConfig on their way to the server and back:    *)
(* what create_stream and create_consumer put into their request, and how  *)
(* the configuration is read from the reply.  A JSON object is the set of   *)
(* its fields, pairs of a name and a value.  The server, which checks the  *)
(* request and completes the configuration, is external.                   *)
(***************************************************************************)
EXTENDS Integers, Sequences

CONSTANTS
    Consumers, Streams,     \* the configurations to create
    MaxSigned,              \* the largest value of the signed type of a field
    MaxNanos,               \* the largest duration of u64 nanoseconds
    DefaultPending,         \* max_ack_pending when the request has none
    Absent                  \* an Option without value

VARIABLES
    config,         \* the configuration of the caller
    request,        \* the subject's filter token and the body, once sent
    stored,         \* what the server stored
    resource        \* none, the error or panic, or the configuration read back

resourcesVars == <<config, request, stored, resource>>

IsStream == "subjects" \in DOMAIN config

-----------------------------------------------------------------------------
(***************************************************************************)
(* The configurations that the types of the program allow; by_start_time,  *)
(* which is left out, goes the way of by_start_sequence.                   *)
(***************************************************************************)
Option(S) == S \cup {Absent}

Delivers == [policy : {"by_start_sequence"}, start : Nat]
            \cup [policy : {"all", "last", "last_per_subject", "new"}, start : {Absent}]
Acks == [policy : {"explicit", "all"}, wait : Nat, max_pending : Option(Nat)]
        \cup [policy : {"none"}]
Specs == [kind : {"pull"}, max_waiting : Option(Int), max_expires : Nat]
         \cup [kind : {"push"}, deliver_subject : STRING, deliver_group : Option(STRING),
               flow_control : BOOLEAN, idle_heartbeat : Nat]
ConsumerConfigs ==
    [durable : BOOLEAN, name : STRING, deliver : Delivers, ack : Acks,
     max_deliver : Option(Nat), filters : Seq(STRING), specs : Specs,
     replicas : Option(Nat \ {0}), storage : {"disk", "memory"}]
StreamConfigs ==
    [name : STRING, subjects : Seq(STRING), max_messages : Option(Nat), max_age : Nat,
     compression : Option({"s2"}), sealed : BOOLEAN,
     allow_delete : BOOLEAN, allow_purge : BOOLEAN]

\* The numbers fit their types, and None is neither a number nor a string.
ASSUME ResourcesAssumption ==
    /\ MaxSigned \in Nat /\ DefaultPending \in 0..MaxSigned
    /\ MaxNanos \in Nat /\ MaxSigned <= MaxNanos
    /\ Absent \notin Int /\ Absent \notin STRING
    /\ Consumers \subseteq ConsumerConfigs /\ Streams \subseteq StreamConfigs

-----------------------------------------------------------------------------
(***************************************************************************)
(* Fields.                                                                 *)
(***************************************************************************)
\* skip_serializing_if and default.
FieldUnless(skip, name, value) == IF skip THEN {} ELSE {<<name, value>>}
Field(name, value) == {<<name, value>>}
OptionField(name, value) == FieldUnless(value = Absent, name, value)

FieldNames(json) == {field[1] : field \in json}
ValueOf(json, name) == (CHOOSE field \in json : field[1] = name)[2]
Get(json, name, default) ==
    IF name \in FieldNames(json) THEN ValueOf(json, name) ELSE default

\* nullable_number: -1 stands for None.
NullValue == -1
ToSigned(n) == IF n = Absent THEN NullValue ELSE n
FromSigned(n) == IF n = NullValue THEN Absent ELSE n

\* Mutant of IsSigned: a number is cast to the signed type.
IsSignedCast(n) == TRUE

\* try_into, when a number is serialized.
IsSigned(n) == n = Absent \/ n <= MaxSigned

\* option_nonzero: 0 stands for None.
ToZero(n) == IF n = Absent THEN 0 ELSE n
FromZero(n) == IF n = 0 THEN Absent ELSE n

\* Durations are written as nanoseconds of 128 bits, and read as ones of 64.
DurationFields == IF IsStream THEN {"max_age"}
                  ELSE {"ack_wait", "max_expires", "idle_heartbeat"}
DurationsUpTo(json, n) ==
    \A f \in DurationFields \cap FieldNames(json) : ValueOf(json, f) <= n

-----------------------------------------------------------------------------
(***************************************************************************)
(* ConsumerConfig.                                                         *)
(***************************************************************************)
\* Mutant of FilterFields: the plural field is used for any number of filters.
FilterFieldsPlural(filters) ==
    FieldUnless(filters = <<>>, "filter_subjects", filters)

FilterFields(filters) ==
    IF Len(filters) = 1 THEN Field("filter_subject", filters[1])
    ELSE FieldUnless(filters = <<>>, "filter_subjects", filters)

\* DeliverPolicy and AckPolicy, which are flattened into the object.
DeliverFields(d) ==
    Field("deliver_policy", d.policy)
    \cup OptionField("opt_start_seq",
                     IF d.policy = "by_start_sequence" THEN d.start ELSE Absent)

AckFields(a) ==
    Field("ack_policy", a.policy)
    \cup IF a.policy = "none" THEN {}
         ELSE Field("ack_wait", a.wait) \cup OptionField("max_ack_pending", a.max_pending)

SpecsFields(s) ==
    IF s.kind = "pull"
    THEN OptionField("max_waiting", s.max_waiting)
         \cup FieldUnless(s.max_expires = 0, "max_expires", s.max_expires)
    ELSE Field("deliver_subject", s.deliver_subject)
         \cup OptionField("deliver_group", s.deliver_group)
         \cup FieldUnless(~s.flow_control, "flow_control", s.flow_control)
         \cup FieldUnless(s.idle_heartbeat = 0, "idle_heartbeat", s.idle_heartbeat)

DurableName(c) == IF c.durable THEN c.name ELSE ""
InMemory(storage) == storage = "memory"

ConsumerToJson(c) ==
    Field("name", c.name)
    \cup Field("durable_name", DurableName(c))
    \cup DeliverFields(c.deliver) \cup AckFields(c.ack)
    \cup OptionField("max_deliver", c.max_deliver)
    \cup FilterFields(c.filters)
    \cup SpecsFields(c.specs)
    \cup Field("num_replicas", ToZero(c.replicas))
    \cup Field("mem_storage", InMemory(c.storage))

FiltersFrom(j) ==
    IF "filter_subject" \in FieldNames(j) THEN <<ValueOf(j, "filter_subject")>>
    ELSE Get(j, "filter_subjects", <<>>)

DeliverFrom(j) ==
    [policy |-> ValueOf(j, "deliver_policy"), start |-> Get(j, "opt_start_seq", Absent)]

AckFrom(j) ==
    IF ValueOf(j, "ack_policy") = "none" THEN [policy |-> "none"]
    ELSE [policy |-> ValueOf(j, "ack_policy"), wait |-> ValueOf(j, "ack_wait"),
          max_pending |-> FromSigned(ValueOf(j, "max_ack_pending"))]

SpecsFrom(j) ==
    IF "deliver_subject" \in FieldNames(j)
    THEN [kind |-> "push", deliver_subject |-> ValueOf(j, "deliver_subject"),
          deliver_group |-> Get(j, "deliver_group", Absent),
          flow_control |-> Get(j, "flow_control", FALSE),
          idle_heartbeat |-> Get(j, "idle_heartbeat", 0)]
    ELSE [kind |-> "pull", max_waiting |-> Get(j, "max_waiting", Absent),
          max_expires |-> Get(j, "max_expires", 0)]

\* Mutant of IsDurable: a consumer with a name is taken for ephemeral.
IsDurableUnnamed(j) == ValueOf(j, "durable_name") # "" /\ ValueOf(j, "name") = ""

IsDurable(j) == ValueOf(j, "durable_name") # ""

\* What has no default must be there, the numbers and filters must be sound.
ConsumerReads(j) ==
    /\ "max_deliver" \in FieldNames(j) /\ ValueOf(j, "max_deliver") >= NullValue
    /\ ValueOf(j, "ack_policy") # "none" =>
            {"ack_wait", "max_ack_pending"} \subseteq FieldNames(j)
    /\ ~({"filter_subject", "filter_subjects"} \subseteq FieldNames(j))
    /\ ValueOf(j, "name") # "" \/ ValueOf(j, "durable_name") # ""
    /\ DurationsUpTo(j, MaxNanos)

ConsumerFromJson(j) ==
    [durable |-> IsDurable(j),
     name |-> IF IsDurable(j) THEN ValueOf(j, "durable_name") ELSE ValueOf(j, "name"),
     deliver |-> DeliverFrom(j), ack |-> AckFrom(j),
     max_deliver |-> FromSigned(ValueOf(j, "max_deliver")),
     filters |-> FiltersFrom(j), specs |-> SpecsFrom(j),
     replicas |-> FromZero(ValueOf(j, "num_replicas")),
     storage |-> IF ValueOf(j, "mem_storage") THEN "memory" ELSE "disk"]

ConsumerDurations(c) ==
    (IF c.ack.policy = "none" THEN {} ELSE {c.ack.wait})
    \cup {IF c.specs.kind = "pull" THEN c.specs.max_expires ELSE c.specs.idle_heartbeat}

\* The numbers that to_value can take: those of a nullable_number field, and
\* the nanoseconds, which have 64 bits in a Value.
ConsumerFits(c) ==
    /\ IsSigned(c.max_deliver)
    /\ c.ack.policy # "none" => IsSigned(c.ack.max_pending)
    /\ \A d \in ConsumerDurations(c) : d <= MaxNanos

-----------------------------------------------------------------------------
(***************************************************************************)
(* StreamConfig.                                                           *)
(***************************************************************************)
\* Mutant of Opposite: allow_delete goes to the server as deny_delete.
OppositeSame(b) == b

Opposite(b) == ~b

StreamToJson(c) ==
    Field("name", c.name) \cup Field("subjects", c.subjects)
    \cup Field("max_msgs", ToSigned(c.max_messages))
    \cup Field("max_age", c.max_age)
    \cup Field("compression", IF c.compression = Absent THEN "none" ELSE c.compression)
    \cup Field("sealed", c.sealed)
    \cup Field("deny_delete", Opposite(c.allow_delete))
    \cup Field("deny_purge", Opposite(c.allow_purge))

StreamFromJson(j) ==
    [name |-> ValueOf(j, "name"), subjects |-> ValueOf(j, "subjects"),
     max_messages |-> FromSigned(ValueOf(j, "max_msgs")), max_age |-> ValueOf(j, "max_age"),
     compression |-> IF ValueOf(j, "compression") = "none" THEN Absent
                     ELSE ValueOf(j, "compression"),
     sealed |-> ValueOf(j, "sealed"),
     allow_delete |-> Opposite(ValueOf(j, "deny_delete")),
     allow_purge |-> Opposite(ValueOf(j, "deny_purge"))]

StreamReads(j) == ValueOf(j, "max_msgs") >= NullValue /\ DurationsUpTo(j, MaxNanos)

-----------------------------------------------------------------------------
(***************************************************************************)
(* The calls.                                                              *)
(***************************************************************************)
ResourcesInit ==
    /\ config \in Consumers \cup Streams
    /\ request = Absent
    /\ stored = Absent
    /\ resource = Absent

\* The subject of the request, which has the only filter as its last token.
FilterToken == IF ~IsStream /\ Len(config.filters) = 1 THEN config.filters[1] ELSE Absent

Fits == IF IsStream THEN IsSigned(config.max_messages) ELSE ConsumerFits(config)

Refuse(err) ==
    /\ resource' = [err |-> err]
    /\ UNCHANGED <<config, request, stored>>

\* create_stream and create_consumer up to the request.  create_stream returns
\* what to_vec says of a number that does not fit; create_consumer makes a
\* Value with json!, which unwraps what to_value says, and panics.
CreateResource ==
    /\ request = Absent /\ resource = Absent
    /\ IF config.name = "" THEN Refuse("Subject")
       ELSE IF ~Fits THEN Refuse(IF IsStream THEN "Json" ELSE "Panic")
       ELSE /\ request' = [token |-> FilterToken,
                           body |-> IF IsStream THEN StreamToJson(config)
                                    ELSE ConsumerToJson(config)]
            /\ UNCHANGED <<config, stored, resource>>

\* The server's durations are signed.  It takes no filter_subjects with a filter
\* in the subject, no other filter than that, and no settings of a push consumer
\* for a pull consumer.
Sound(r) ==
    /\ DurationsUpTo(r.body, MaxSigned)
    /\ \/ IsStream
       \/ /\ r.token # Absent => /\ "filter_subjects" \notin FieldNames(r.body)
                                 /\ Get(r.body, "filter_subject", Absent) = r.token
          /\ "deliver_subject" \notin FieldNames(r.body) =>
               {"deliver_group", "flow_control", "idle_heartbeat"} \cap FieldNames(r.body) = {}
          /\ "deliver_subject" \in FieldNames(r.body) =>
               {"max_waiting", "max_expires"} \cap FieldNames(r.body) = {}

Defaults(body) ==
    IF IsStream THEN body
    ELSE body
         \cup FieldUnless("max_deliver" \in FieldNames(body), "max_deliver", NullValue)
         \cup FieldUnless(\/ ValueOf(body, "ack_policy") = "none"
                          \/ "max_ack_pending" \in FieldNames(body),
                          "max_ack_pending", DefaultPending)

ServerStores ==
    /\ request # Absent /\ stored = Absent /\ resource = Absent
    /\ IF Sound(request) THEN stored' = Defaults(request.body) /\ UNCHANGED resource
       ELSE resource' = [err |-> "Api"] /\ UNCHANGED stored
    /\ UNCHANGED <<config, request>>

\* The reply to the request, or to a later stream, consumer or listing.
Read ==
    /\ stored # Absent /\ resource = Absent
    /\ resource' = IF IsStream /\ StreamReads(stored) THEN StreamFromJson(stored)
                  ELSE IF ~IsStream /\ ConsumerReads(stored) THEN ConsumerFromJson(stored)
                  ELSE [err |-> "Json"]
    /\ UNCHANGED <<config, request, stored>>

ResourcesNext == CreateResource \/ ServerStores \/ Read

ResourcesSpec == ResourcesInit /\ [][ResourcesNext]_resourcesVars

-----------------------------------------------------------------------------
(***************************************************************************)
(* Properties.                                                             *)
(***************************************************************************)
NotCreated == resource # Absent /\ "err" \in DOMAIN resource
SignedFields == {"max_deliver", "max_ack_pending", "max_msgs"}

\* Every variable has its type: no number leaves the range of its field.
ResourcesTypeOK ==
    /\ config \in Consumers \cup Streams
    /\ request # Absent => \A f \in SignedFields \cap FieldNames(request.body) :
            ValueOf(request.body, f) \in NullValue..MaxSigned
    /\ NotCreated => resource.err \in {"Subject", "Json", "Panic", "Api"}

\* The configuration as the server completes it.
Completed(c) ==
    IF IsStream \/ c.ack.policy = "none" \/ c.ack.max_pending # Absent THEN c
    ELSE [c EXCEPT !.ack.max_pending = DefaultPending]

\* What is read back is what was created, whatever way the fields take
\* through their optional, singular, renamed and inverted forms.
ReadsBack == resource # Absent /\ ~NotCreated => resource = Completed(config)

\* The server understands a stream as the caller means it.
MeansTheSame ==
    stored # Absent /\ IsStream =>
        /\ ValueOf(stored, "deny_delete") # config.allow_delete
        /\ ValueOf(stored, "deny_purge") # config.allow_purge
        /\ (ValueOf(stored, "max_msgs") = NullValue) <=> (config.max_messages = Absent)

\* The server has no such duration, whatever the rest of the configuration is.
IsTooLong ==
    \E d \in IF IsStream THEN {config.max_age} ELSE ConsumerDurations(config) : d > MaxSigned

\* A configuration that has a name and whose numbers fit is accepted, unless a
\* duration is beyond the server's type; the error says what is wrong, but a
\* number of a consumer that does not fit is a panic and no error.
GoodIsAccepted ==
    NotCreated =>
        \/ resource.err = "Subject" /\ config.name = ""
        \/ resource.err = (IF IsStream THEN "Json" ELSE "Panic") /\ ~Fits
        \/ resource.err = "Api" /\ IsTooLong

\* resources/: a configuration means to the server what it means to the caller,
\* is accepted, and reads back as it was.
ResourcesInv == ResourcesTypeOK /\ ReadsBack /\ MeansTheSame /\ GoodIsAccepted
=============================================================================
