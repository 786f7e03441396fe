----------------------------- MODULE Publishing -----------------------------
(***************************************************************************)
(* Publishing to a stream: do_publish makes headers of what the caller     *)
(* expects of the stream, sends the message as a request and reads the     *)
(* PubAck.  Callers try again when they do not know what became of the     *)
(* message.  Module Requests has the request.  The server, which takes     *)
(* requests in any order and after their callers gave up, is external.     *)
(***************************************************************************)
EXTENDS Naturals, SequencesExt, FiniteSetsExt

CONSTANTS
    Publishers,     \* tasks that publish a message each
    Options,        \* what they may set: subject, id and expectations
    MaxAttempts,    \* bound: publishes of a caller
    MaxLog,         \* messages the stream takes
    MaxLosses,      \* bound: requests and replies lost or late
    Unset           \* an Option without value

Failure(e) == [err |-> e]
Failures == {Failure(e) : e \in {"HeaderValue", "ClientClosed", "Api", "NoStreamMatches",
                                 "PublishStatus", "ResponseError", "Json"}}
\* Those that do not say what became of the message: there was no response, or
\* one that could not be read.
Doubtful == {Failure("ResponseError"), Failure("Json")}

ASSUME PublishingAssumption ==
    /\ MaxAttempts \in Nat \ {0} /\ MaxLog \in Nat /\ MaxLosses \in Nat
    /\ Unset \notin Failures \cup [sequence : 1..MaxLog]
    /\ Unset \notin [kind : {"none", "status", "garbled"}] \cup [kind : {"json"}, sequence : 1..MaxLog]
                      \cup [kind : {"json"}, sequence : {0}, error : {"err"}]

VARIABLES
    opts,           \* what each caller set
    pc,             \* ready, waiting for the response, or done
    attempts,       \* publishes so far
    outcome,        \* what the last one returned
    net,            \* requests on their way
    response,       \* the response to the last publish
    exists,         \* a stream takes the subjects
    log,            \* what it stored
    losses          \* number of those so far

publishVars == <<opts, pc, attempts, outcome, net, response, exists, log, losses>>

\* The name of the stream.
This == "S"

PublishInit ==
    /\ opts \in [Publishers -> Options]
    /\ pc = [c \in Publishers |-> "ready"]
    /\ attempts = [c \in Publishers |-> 0]
    /\ outcome = [c \in Publishers |-> Unset]
    /\ net = {}
    /\ response = [c \in Publishers |-> Unset]
    /\ exists \in BOOLEAN
    /\ log = <<>>
    /\ losses = 0

Loss == losses < MaxLosses /\ losses' = losses + 1

-----------------------------------------------------------------------------
(***************************************************************************)
(* build_headers.  stream and ttl, which change none of this, are left out.*)
(***************************************************************************)
\* Mutant of Names: the sequence of the subject is expected of the stream.
NamesSwapped ==
    [expected_stream |-> "Nats-Expected-Stream",
     last_sequence |-> "Nats-Expected-Last-Subject-Sequence",
     last_subject_sequence |-> "Nats-Expected-Last-Sequence",
     last_id |-> "Nats-Expected-Last-Msg-Id",
     id |-> "Nats-Msg-Id"]

\* Mutant of Names: the name of the id's header is misspelt.
NamesMisspelt ==
    [expected_stream |-> "Nats-Expected-Stream",
     last_sequence |-> "Nats-Expected-Last-Sequence",
     last_subject_sequence |-> "Nats-Expected-Last-Subject-Sequence",
     last_id |-> "Nats-Expected-Last-Msg-Id",
     id |-> "Nats-Message-Id"]

\* The header of each option.
Names ==
    [expected_stream |-> "Nats-Expected-Stream",
     last_sequence |-> "Nats-Expected-Last-Sequence",
     last_subject_sequence |-> "Nats-Expected-Last-Subject-Sequence",
     last_id |-> "Nats-Expected-Last-Msg-Id",
     id |-> "Nats-Msg-Id"]

Given(o) == {k \in DOMAIN Names : o[k] # Unset}
Headers(o) == [h \in {Names[k] : k \in Given(o)} |->
                    o[CHOOSE k \in Given(o) : Names[k] = h]]

\* A text that is no header value; numbers always are one.
Invalid == "line\nbreak"
HeadersAreValid(o) ==
    \A k \in Given(o) \cap {"expected_stream", "last_id", "id"} : o[k] # Invalid

-----------------------------------------------------------------------------
(***************************************************************************)
(* do_publish.                                                             *)
(***************************************************************************)
PublishReturns(c, r) ==
    /\ outcome' = [outcome EXCEPT ![c] = r]
    /\ pc' = [pc EXCEPT ![c] = "done"]

Publish(c) ==
    /\ pc[c] = "ready"
    /\ attempts' = [attempts EXCEPT ![c] = @ + 1]
    /\ response' = [response EXCEPT ![c] = Unset]
    /\ IF HeadersAreValid(opts[c])
       THEN /\ net' = net \cup {[from |-> c, attempt |-> attempts'[c],
                                 subject |-> opts[c].subject,
                                 headers |-> Headers(opts[c])]}
            /\ pc' = [pc EXCEPT ![c] = "waiting"]
            /\ UNCHANGED outcome
       ELSE PublishReturns(c, Failure("HeaderValue")) /\ UNCHANGED net
    /\ UNCHANGED <<opts, exists, log, losses>>

\* The client is closed: the request is not sent.
PublishClosed(c) ==
    /\ pc[c] = "ready" /\ HeadersAreValid(opts[c]) /\ Loss
    /\ attempts' = [attempts EXCEPT ![c] = @ + 1]
    /\ PublishReturns(c, Failure("ClientClosed"))
    /\ UNCHANGED <<opts, net, response, exists, log>>

\* Mutant of Parsed: the successful variant of Response comes first.
ParsedAckFirst(r) == IF "sequence" \in DOMAIN r THEN [sequence |-> r.sequence]
                     ELSE Failure("Api")

\* Response<PubAck>: an error may have the fields of a PubAck, too.
Parsed(r) == IF "error" \in DOMAIN r THEN Failure("Api") ELSE [sequence |-> r.sequence]

\* Mutant of ResponseFailed: a response that did not come means no stream.
ResponseFailedAnyhow(err) == "NoStreamMatches"

\* Mutant of Unreadable: what cannot be read is taken for an error of the server.
UnreadableIsApi == "Api"

\* What do_publish makes of a payload that is no Response<PubAck>.
Unreadable == "Json"

\* What do_publish makes of a ResponseError.
ResponseFailed(err) == IF err = "NoResponders" THEN "NoStreamMatches" ELSE "ResponseError"

Responded(c) ==
    /\ pc[c] = "waiting" /\ response[c] # Unset
    /\ PublishReturns(c,
            CASE response[c].kind = "none" -> Failure(ResponseFailed("NoResponders"))
              [] response[c].kind = "status" -> Failure("PublishStatus")
              [] response[c].kind = "garbled" -> Failure(Unreadable)
              [] OTHER -> Parsed(response[c]))
    /\ UNCHANGED <<opts, attempts, net, response, exists, log, losses>>

\* TimedOut, or SubscriptionClosed by a reconnect: the request may be lost or
\* on its way, the reply may be lost.
GivesUp(c) ==
    /\ pc[c] = "waiting" /\ Loss
    /\ PublishReturns(c, Failure(ResponseFailed("TimedOut")))
    /\ \/ net' = {q \in net : q.from # c \/ q.attempt # attempts[c]}
       \/ UNCHANGED net
    /\ UNCHANGED <<opts, attempts, response, exists, log>>

\* The application publishes the same message again.
TriesAgain(c) ==
    /\ pc[c] = "done" /\ attempts[c] < MaxAttempts
    /\ outcome[c] \in Doubtful
    /\ pc' = [pc EXCEPT ![c] = "ready"]
    /\ UNCHANGED <<opts, attempts, outcome, net, response, exists, log, losses>>

-----------------------------------------------------------------------------
(***************************************************************************)
(* The server.                                                             *)
(***************************************************************************)
Header(q, name) == IF name \in DOMAIN q.headers THEN q.headers[name] ELSE Unset

LastSequenceOf(subject) == Max({0} \cup {k \in DOMAIN log : log[k].subject = subject})
LastId == IF log = <<>> THEN Unset ELSE Last(log).id

\* The sequence of the message with this id, in the window of duplicates.
Duplicates(q) == {k \in DOMAIN log : Header(q, "Nats-Msg-Id") # Unset
                                     /\ log[k].id = Header(q, "Nats-Msg-Id")}

Meets(q) ==
    /\ Header(q, "Nats-Expected-Last-Sequence") \in {Unset, Len(log)}
    /\ Header(q, "Nats-Expected-Last-Subject-Sequence") \in {Unset, LastSequenceOf(q.subject)}
    /\ Header(q, "Nats-Expected-Last-Msg-Id") \in {Unset, LastId}

RightStream(q) == Header(q, "Nats-Expected-Stream") \in {Unset, This}

Ack(k) == [kind |-> "json", sequence |-> k]
\* An error of a publish has a sequence, of 0.
Refusal == [kind |-> "json", sequence |-> 0, error |-> "err"]

\* What was to be a PubAck or an error, but cannot be read.
Garbled == [kind |-> "garbled"]

Answers(q, r) ==
    response' = IF pc[q.from] = "waiting" /\ attempts[q.from] = q.attempt
                THEN [response EXCEPT ![q.from] = r] ELSE response

\* The answer r, as it was meant or unreadable.
AnswersWith(q, r) == Answers(q, r) \/ Answers(q, Garbled)

Serve(q) ==
    /\ net' = net \ {q}
    /\ IF ~exists
       THEN /\ \E k \in {"none", "status"} : AnswersWith(q, [kind |-> k])
            /\ UNCHANGED log
       ELSE IF RightStream(q) /\ Duplicates(q) # {}
       THEN AnswersWith(q, Ack(Max(Duplicates(q)))) /\ UNCHANGED log
       ELSE IF RightStream(q) /\ Meets(q) /\ Len(log) < MaxLog
       THEN /\ log' = Append(log, [from |-> q.from, subject |-> q.subject,
                                   id |-> Header(q, "Nats-Msg-Id")])
            /\ AnswersWith(q, Ack(Len(log) + 1))
       ELSE AnswersWith(q, Refusal) /\ UNCHANGED log
    /\ UNCHANGED <<opts, pc, attempts, outcome, exists, losses>>

PublishNext ==
    \/ \E c \in Publishers : Publish(c) \/ PublishClosed(c) \/ Responded(c)
                          \/ GivesUp(c) \/ TriesAgain(c)
    \/ \E q \in net : Serve(q)

PublishSpec == PublishInit /\ [][PublishNext]_publishVars

-----------------------------------------------------------------------------
(***************************************************************************)
(* Properties.                                                             *)
(***************************************************************************)
\* Every variable has its type: a PubAck has a sequence of the stream.
PublishingTypeOK ==
    /\ opts \in [Publishers -> Options]
    /\ pc \in [Publishers -> {"ready", "waiting", "done"}]
    /\ attempts \in [Publishers -> 0..MaxAttempts]
    /\ outcome \in [Publishers -> {Unset} \cup Failures \cup [sequence : 1..MaxLog]]
    /\ \A q \in net : q.from \in Publishers /\ q.attempt \in 1..attempts[q.from]
    /\ log \in Seq([from : Publishers, subject : {o.subject : o \in Options},
                    id : {o.id : o \in Options}])
    /\ Len(log) <= MaxLog
    /\ losses \in 0..MaxLosses

Stored(c) == {k \in DOMAIN log : log[k].from = c}

\* A PubAck is of a message that is stored at its sequence: that of the
\* caller, or the one with its id.
AckMeansStored ==
    \A c \in Publishers : outcome[c] # Unset /\ "sequence" \in DOMAIN outcome[c] =>
        /\ outcome[c].sequence \in DOMAIN log
        /\ \/ outcome[c].sequence \in Stored(c)
           \/ opts[c].id # Unset /\ log[outcome[c].sequence].id = opts[c].id

\* A first publish that failed with anything but a ResponseError or Json is
\* not stored and never will be, so that it is safe to publish something else.
\* Of those two it may be stored, or be so later.
RefusedIsNotStored ==
    \A c \in Publishers :
        attempts[c] = 1 /\ outcome[c] \in Failures \ Doubtful =>
            Stored(c) = {} /\ \A q \in net : q.from # c

\* A message with an id is stored once, however often it is published.
StoredOnce ==
    \A c \in Publishers : opts[c].id # Unset => Cardinality(Stored(c)) <= 1

\* What a caller expects of the stream is so where its message is stored,
\* whoever else publishes and whatever is delayed.
ExpectationsHold ==
    \A c \in Publishers : \A k \in Stored(c) :
        /\ opts[c].expected_stream \in {Unset, This}
        /\ opts[c].last_sequence \in {Unset, k - 1}
        /\ opts[c].last_subject_sequence \in
            {Unset, Max({0} \cup {j \in 1..(k - 1) : log[j].subject = log[k].subject})}
        /\ opts[c].last_id \in {Unset} \cup {log[j].id : j \in {k - 1} \ {0}}

\* publish.rs: what a PubAck, an error and an expectation mean, when publishes
\* are lost and tried again.
PublishingInv ==
    /\ PublishingTypeOK
    /\ AckMeansStored /\ RefusedIsNotStored /\ StoredOnce /\ ExpectationsHold
=============================================================================
