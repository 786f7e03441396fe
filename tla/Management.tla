----------------------------- MODULE Management -----------------------------
(***************************************************************************)
(* The calls of JetstreamClient that create, look up and delete a stream   *)
(* and a consumer of it.  A call is one request: it is sent with a timeout *)
(* and its reply is an error of the API or the answer.  Module Requests    *)
(* has the request, module Resources what is in the configurations.  The   *)
(* server, which may take a request after its caller gave up, is external. *)
(***************************************************************************)
EXTENDS Naturals

CONSTANTS
    Callers,        \* tasks that make calls
    Configs,        \* configurations of the stream and of the consumer
    MaxCalls,       \* bound: calls of all of them
    MaxFaults,      \* bound: requests lost, broken replies, busy servers
    None            \* absent

Creates == {"create_stream", "create_consumer"}
Lookups == {"stream", "consumer"}
Deletes == {"delete_consumer"}

\* Errors of the API, of the request and of the reply.
Errors == {"StreamNotFound", "ConsumerNotFound", "NameInUse", "Busy", "ClientClosed",
           "Json", "ResponseError"}
Values == Configs \cup {"Ok", "Absent"}
Requested == [op : Creates, config : Configs] \cup [op : Lookups \cup Deletes, config : {None}]

ASSUME ManagementAssumption ==
    /\ MaxCalls \in Nat /\ MaxFaults \in Nat
    /\ None \notin Requested \cup Values \cup Errors
    /\ Configs \cap (Errors \cup {"Ok", "Absent"}) = {}

VARIABLES
    call,           \* the call of each caller: its op and configuration
    reply,          \* what the server answered
    result,         \* what the last call returned
    calls,          \* number of calls made
    stream,         \* the configuration of the stream, None when absent
    consumer,       \* that of the consumer
    late,           \* requests whose callers gave up before the server took them
    seen,           \* ghost: states of the server since the call was made
    faults          \* number of faults so far

vars == <<call, reply, result, calls, stream, consumer, late, seen, faults>>

State == [stream |-> stream, consumer |-> consumer]
Calling(c) == call[c] # None

Init ==
    /\ call = [c \in Callers |-> None]
    /\ reply = [c \in Callers |-> None]
    /\ result = [c \in Callers |-> None]
    /\ calls = 0
    /\ stream \in Configs \cup {None}
    /\ consumer \in IF stream = None THEN {None} ELSE Configs \cup {None}
    /\ late = {}
    /\ seen = [c \in Callers |-> {}]
    /\ faults = 0

Fault == faults < MaxFaults /\ faults' = faults + 1

-----------------------------------------------------------------------------
(***************************************************************************)
(* The client.                                                             *)
(***************************************************************************)
Call(c) == \E q \in Requested :
    /\ ~Calling(c) /\ calls < MaxCalls
    /\ calls' = calls + 1
    /\ call' = [call EXCEPT ![c] = q]
    /\ reply' = [reply EXCEPT ![c] = None]
    /\ result' = [result EXCEPT ![c] = None]
    /\ seen' = [seen EXCEPT ![c] = {State}]
    /\ UNCHANGED <<stream, consumer, late, faults>>

Returns(c, r) ==
    /\ Calling(c)
    /\ result' = [result EXCEPT ![c] = [call |-> call[c], is |-> r]]
    /\ call' = [call EXCEPT ![c] = None]
    /\ UNCHANGED <<calls, stream, consumer, seen>>

\* Mutant of NotFound: whatever the server refuses with is taken for absence.
NotFoundAnyhow(op) == {"StreamNotFound", "ConsumerNotFound", "NameInUse", "Busy"}

\* The code that makes a lookup return None.
NotFound(op) == CASE op = "stream" -> {"StreamNotFound"}
                  [] op = "consumer" -> {"ConsumerNotFound"}
                  [] OTHER -> {}

\* Mutant of Interpreted: the reply to a call that returns no value is not
\* looked into.
InterpretedBlindly(op, r) ==
    IF op = "delete_consumer" THEN "Ok"
    ELSE IF r.err \in NotFound(op) THEN "Absent" ELSE IF r.err # None THEN r.err ELSE r.ok

Interpreted(op, r) == IF r.err \in NotFound(op) THEN "Absent"
                      ELSE IF r.err # None THEN r.err ELSE r.ok

Replied(c) ==
    /\ Calling(c) /\ reply[c] # None
    /\ Returns(c, Interpreted(call[c].op, reply[c]))
    /\ UNCHANGED <<reply, late, faults>>

\* The request is not sent, or the reply cannot be read.
Fails(c) ==
    /\ Fault
    /\ Returns(c, IF reply[c] = None THEN "ClientClosed" ELSE "Json")
    /\ UNCHANGED <<reply, late>>

\* The timeout of make_request.  The request is lost, or still on its way.
TimesOut(c) ==
    /\ Fault
    /\ Returns(c, "ResponseError")
    /\ \/ reply[c] = None /\ late' = late \cup {call[c]}
       \/ UNCHANGED late
    /\ UNCHANGED reply

-----------------------------------------------------------------------------
(***************************************************************************)
(* The server.                                                             *)
(***************************************************************************)
Ok(v) == [ok |-> v, err |-> None]
Err(e) == [ok |-> None, err |-> e]

Made(old, new) == IF old \in {None, new} THEN new ELSE old
Creating(old, new) == IF old \in {None, new} THEN Ok(new) ELSE Err("NameInUse")

\* What a request leaves behind and what it is answered with.
After(q) ==
    IF q.op = "create_stream" THEN [State EXCEPT !.stream = Made(stream, q.config)]
    ELSE IF q.op = "create_consumer" /\ stream # None
         THEN [State EXCEPT !.consumer = Made(consumer, q.config)]
    ELSE IF q.op = "delete_consumer" THEN [State EXCEPT !.consumer = None]
    ELSE State

Answer(q) ==
    IF q.op = "create_stream" THEN Creating(stream, q.config)
    ELSE IF stream = None THEN Err("StreamNotFound")
    ELSE IF q.op = "stream" THEN Ok(stream)
    ELSE IF q.op = "create_consumer" THEN Creating(consumer, q.config)
    ELSE IF consumer = None THEN Err("ConsumerNotFound")
    ELSE Ok(IF q.op = "consumer" THEN consumer ELSE "Ok")

Becomes(s) ==
    /\ stream' = s.stream /\ consumer' = s.consumer
    /\ seen' = [c \in Callers |-> IF Calling(c) THEN seen[c] \cup {s} ELSE seen[c]]
    /\ UNCHANGED <<call, result, calls>>

Serves(c) ==
    /\ Calling(c) /\ reply[c] = None
    /\ Becomes(After(call[c]))
    /\ reply' = [reply EXCEPT ![c] = Answer(call[c])]
    /\ UNCHANGED <<late, faults>>

Refuses(c) ==
    /\ Calling(c) /\ reply[c] = None /\ Fault
    /\ reply' = [reply EXCEPT ![c] = Err("Busy")]
    /\ UNCHANGED <<call, result, calls, stream, consumer, late, seen>>

ServesLate == \E q \in late :
    /\ Becomes(After(q))
    /\ late' = late \ {q}
    /\ UNCHANGED <<reply, faults>>

\* Somebody else deletes the stream, and its consumer with it.
LosesStream ==
    /\ Fault /\ stream # None
    /\ Becomes([stream |-> None, consumer |-> None])
    /\ UNCHANGED <<reply, late>>

Next ==
    \/ \E c \in Callers : Call(c) \/ Replied(c) \/ Fails(c) \/ TimesOut(c)
                          \/ Serves(c) \/ Refuses(c)
    \/ ServesLate \/ LosesStream

Spec == Init /\ [][Next]_vars

-----------------------------------------------------------------------------
(***************************************************************************)
(* Properties.                                                             *)
(***************************************************************************)
Returned(ops, values) ==
    {c \in Callers : result[c] # None /\ result[c].call.op \in ops /\ result[c].is \in values}

\* Every variable has its type: only a lookup returns an Option.
ManagementTypeOK ==
    /\ call \in [Callers -> Requested \cup {None}]
    /\ result \in [Callers -> [call : Requested, is : Errors \cup Values] \cup {None}]
    /\ Returned(Creates \cup Deletes, {"Absent"}) = {}
    /\ calls \in 0..MaxCalls
    /\ {stream, consumer} \subseteq Configs \cup {None}
    /\ late \subseteq Requested
    /\ faults \in 0..MaxFaults

\* A lookup that found something, or found nothing, was right at some time
\* between its call and its return, whatever others do to the stream and
\* whatever the server refuses meanwhile.
LookupsWereTrue ==
    \A op \in Lookups :
        /\ \A c \in Returned({op}, Configs) : \E s \in seen[c] : s[op] = result[c].is
        /\ \A c \in Returned({op}, {"Absent"}) : \E s \in seen[c] : s[op] = None

\* A create that returned had its configuration in place, and a delete that
\* returned had the consumer gone, at some time before it returned.
ChangesWereMade ==
    /\ \A c \in Returned({"create_stream"}, Configs) :
            \E s \in seen[c] : s.stream = result[c].call.config
    /\ \A c \in Returned({"create_consumer"}, Configs) :
            \E s \in seen[c] : s.consumer = result[c].call.config
    /\ \A c \in Returned({"delete_consumer"}, {"Ok"}) :
            \E s \in seen[c] : s.consumer = None

\* What a call returned is of its type, and was so.
ManagementInv == ManagementTypeOK /\ LookupsWereTrue /\ ChangesWereMade
=============================================================================
