-------------------------- MODULE JetstreamProofs ---------------------------
(***************************************************************************)
(* Proofs about Management, Publishing, Listing and Resources, for any     *)
(* callers, configurations, options and items and any number of calls,     *)
(* attempts, changes and faults.  Each part starts with its invariant.     *)
(*                                                                         *)
(* Management.  What a call returned is known from what it was answered    *)
(* with, and the answer was true of a state the server was in since the    *)
(* call was made: Witnessed says so of the reply before it is interpreted, *)
(* and Current that a call in progress has seen the state there is now.    *)
(***************************************************************************)
EXTENDS Management, Publishing, Listing, Resources, FiniteSetTheorems, SequenceTheorems,
        WellFoundedInduction, TLAPS

States == [stream : Configs \cup {None}, consumer : Configs \cup {None}]
Replies == [ok : Configs \cup {"Ok", None}, err : Errors \cup {None}]
Results == [call : Requested, is : Errors \cup Values]

\* The replies that have an answer have no error, and the others the error.
Formed(q, r) ==
    /\ r.err = None <=> r.ok # None
    /\ r.ok = "Ok" => q.op = "delete_consumer"

\* What the reply r to the request q says of a state s of the server.
Shows(q, r, s) ==
    /\ q.op = "stream" /\ r.ok # None => s.stream = r.ok
    /\ q.op = "stream" /\ r.err = "StreamNotFound" => s.stream = None
    /\ q.op = "consumer" /\ r.ok # None => s.consumer = r.ok
    /\ q.op = "consumer" /\ r.err = "ConsumerNotFound" => s.consumer = None
    /\ q.op = "create_stream" /\ r.ok # None => s.stream = q.config
    /\ q.op = "create_consumer" /\ r.ok # None => s.consumer = q.config
    /\ q.op = "delete_consumer" /\ r.ok # None => s.consumer = None

\* What the value v returned by the call q says of a state s of the server.
Tells(q, v, s) ==
    /\ q.op = "stream" /\ v \in Configs => s.stream = v
    /\ q.op = "stream" /\ v = "Absent" => s.stream = None
    /\ q.op = "consumer" /\ v \in Configs => s.consumer = v
    /\ q.op = "consumer" /\ v = "Absent" => s.consumer = None
    /\ q.op = "create_stream" /\ v \in Configs => s.stream = q.config
    /\ q.op = "create_consumer" /\ v \in Configs => s.consumer = q.config
    /\ q.op = "delete_consumer" /\ v = "Ok" => s.consumer = None

Tables ==
    /\ call \in [Callers -> Requested \cup {None}]
    /\ reply \in [Callers -> Replies \cup {None}]
    /\ result \in [Callers -> Results \cup {None}]
    /\ stream \in Configs \cup {None}
    /\ consumer \in Configs \cup {None}
    /\ late \subseteq Requested
    /\ seen \in [Callers -> SUBSET States]

Counts == calls \in 0..MaxCalls /\ faults \in 0..MaxFaults

\* Only a lookup returns Absent.
OnlyLookups == \A c \in Callers :
    result[c] # None /\ result[c].is = "Absent" => result[c].call.op \in Lookups

Current == \A c \in Callers : Calling(c) => State \in seen[c]

Witnessed == \A c \in Callers :
    Calling(c) /\ reply[c] # None =>
        /\ Formed(call[c], reply[c])
        /\ \E s \in seen[c] : Shows(call[c], reply[c], s)

Told == \A c \in Callers :
    result[c] # None => \E s \in seen[c] : Tells(result[c].call, result[c].is, s)

Inv == Tables /\ Counts /\ OnlyLookups /\ Current /\ Witnessed /\ Told

-----------------------------------------------------------------------------
\* Inv says what ManagementInv says, which is about Told and OnlyLookups.
LEMMA InvImplies == Inv => ManagementInv
<1> SUFFICES ASSUME Inv PROVE ManagementInv
  OBVIOUS
<1>1. ManagementTypeOK
  BY DEF Inv, Tables, Counts, OnlyLookups, Results, Returned, ManagementTypeOK,
     Requested, Creates, Lookups, Deletes
<1>2. ASSUME NEW c \in Callers, result[c] # None
      PROVE \E s \in seen[c] : Tells(result[c].call, result[c].is, s)
  BY <1>2 DEF Inv, Told
<1>3. LookupsWereTrue
  <2>1. ASSUME NEW c \in Returned({"stream"}, Configs \cup {"Absent"})
        PROVE \E s \in seen[c] : /\ result[c].is \in Configs => s.stream = result[c].is
                                 /\ result[c].is = "Absent" => s.stream = None
    BY <1>2 DEF Returned, Tells
  <2>2. ASSUME NEW c \in Returned({"consumer"}, Configs \cup {"Absent"})
        PROVE \E s \in seen[c] : /\ result[c].is \in Configs => s.consumer = result[c].is
                                 /\ result[c].is = "Absent" => s.consumer = None
    BY <1>2 DEF Returned, Tells
  <2> QED
    BY <2>1, <2>2 DEF LookupsWereTrue, Lookups, Returned
<1>4. ChangesWereMade
  BY <1>2 DEF ChangesWereMade, Returned, Tells
<1> QED
  BY <1>1, <1>3, <1>4 DEF ManagementInv

\* What the server answers is of its type, and true of the state it leaves.
LEMMA AnswersAreTrue ==
    ASSUME Tables, NEW q \in Requested
    PROVE  /\ After(q) \in States
           /\ Answer(q) \in Replies
           /\ Formed(q, Answer(q))
           /\ Shows(q, Answer(q), After(q))
<1> USE ManagementAssumption DEF Tables, States, Replies, Requested, Creates,
        Lookups, Deletes, Values, Errors, Formed, Shows, After, Answer, Ok, Err,
        Made, Creating, State
<1>1. CASE q.op = "create_stream"
  BY <1>1
<1>2. CASE q.op = "create_consumer"
  BY <1>2
<1>3. CASE q.op = "stream"
  BY <1>3
<1>4. CASE q.op = "consumer"
  BY <1>4
<1>5. CASE q.op = "delete_consumer"
  BY <1>5
<1> QED
  BY <1>1, <1>2, <1>3, <1>4, <1>5

\* What a call returns for a reply is of its type and says what the reply shows.
LEMMA InterpretedIsTrue ==
    ASSUME NEW q \in Requested, NEW r \in Replies, Formed(q, r)
    PROVE  LET v == Interpreted(q.op, r) IN
           /\ v \in Errors \cup Values
           /\ v = "Absent" => q.op \in Lookups
           /\ \A s \in States : Shows(q, r, s) => Tells(q, v, s)
<1> USE ManagementAssumption DEF States, Replies, Requested, Creates, Lookups,
        Deletes, Values, Errors, Formed, Shows, Tells, Interpreted, NotFound
<1>1. CASE q.op \in {"create_stream", "create_consumer"}
  BY <1>1
<1>2. CASE q.op = "stream"
  BY <1>2
<1>3. CASE q.op = "consumer"
  BY <1>3
<1>4. CASE q.op = "delete_consumer"
  BY <1>4
<1> QED
  BY <1>1, <1>2, <1>3, <1>4

-----------------------------------------------------------------------------
\* Inv holds before the first call.
LEMMA InitInv == Init => Inv
<1> SUFFICES ASSUME Init PROVE Inv
  OBVIOUS
<1>1. Tables
  BY DEF Init, Tables
<1>2. Counts
  BY ManagementAssumption DEF Init, Counts
<1>3. OnlyLookups /\ Current /\ Witnessed /\ Told
  BY DEF Init, OnlyLookups, Current, Witnessed, Told, Calling
<1> QED
  BY <1>1, <1>2, <1>3 DEF Inv

\* A caller that has its result has what Told and OnlyLookups say of it.
LEMMA ReturnsTheTruth ==
    ASSUME Inv, NEW c \in Callers, NEW r \in Errors \cup Values, Returns(c, r),
           r = "Absent" => call[c].op \in Lookups,
           \E s \in seen[c] : Tells(call[c], r, s)
    PROVE  /\ result' \in [Callers -> Results \cup {None}]
           /\ call' \in [Callers -> Requested \cup {None}]
           /\ OnlyLookups' /\ Told'
<1> USE ManagementAssumption DEF Inv, Tables, Returns, Calling
<1>1. call[c] \in Requested
  OBVIOUS
<1>2. result' = [result EXCEPT ![c] = [call |-> call[c], is |-> r]]
  OBVIOUS
<1>3. [call |-> call[c], is |-> r] \in Results
  BY <1>1 DEF Results
<1>4. result' \in [Callers -> Results \cup {None}] /\ call' \in [Callers -> Requested \cup {None}]
  BY <1>2, <1>3
<1>5. OnlyLookups'
  BY <1>2 DEF OnlyLookups
<1>6. Told'
  BY <1>2 DEF Told
<1> QED
  BY <1>4, <1>5, <1>6

\* A step that leaves every call as it is and takes the server to the state s,
\* which the calls in progress see, keeps what is known of them.
LEMMA BecomesKeeps ==
    ASSUME Inv, NEW s \in States, Becomes(s)
    PROVE  /\ stream' \in Configs \cup {None} /\ consumer' \in Configs \cup {None}
           /\ seen' \in [Callers -> SUBSET States]
           /\ \A c \in Callers : seen[c] \subseteq seen'[c]
           /\ \A c \in Callers : Calling(c) => s \in seen'[c]
           /\ OnlyLookups' /\ Current' /\ Told'
<1> USE DEF Inv, Tables, Becomes
<1>1. stream' \in Configs \cup {None} /\ consumer' \in Configs \cup {None}
  BY DEF States
<1>2. State' = s
  BY DEF State, States
<1>3. seen' \in [Callers -> SUBSET States]
  OBVIOUS
<1>4. \A c \in Callers : seen[c] \subseteq seen'[c]
  OBVIOUS
<1>5. \A c \in Callers : Calling(c) => s \in seen'[c]
  OBVIOUS
<1>6. OnlyLookups' /\ Told'
  BY <1>4 DEF OnlyLookups, Told
<1>7. Current'
  BY <1>2, <1>5 DEF Current, Calling
<1> QED
  BY <1>1, <1>3, <1>4, <1>5, <1>6, <1>7

-----------------------------------------------------------------------------
\* Every step of a caller keeps Inv.
LEMMA CallerInv ==
    ASSUME Inv, NEW c \in Callers, Call(c) \/ Replied(c) \/ Fails(c) \/ TimesOut(c)
    PROVE  Inv'
<1> USE ManagementAssumption
<1>1. State \in States
  BY DEF Inv, Tables, State, States
<1>2. CASE Call(c)
  <2>1. PICK q \in Requested : /\ call' = [call EXCEPT ![c] = q]
                               /\ reply' = [reply EXCEPT ![c] = None]
                               /\ result' = [result EXCEPT ![c] = None]
                               /\ seen' = [seen EXCEPT ![c] = {State}]
    BY <1>2 DEF Call
  <2>2. UNCHANGED <<stream, consumer, late, faults>> /\ calls < MaxCalls /\ calls' = calls + 1
    BY <1>2 DEF Call
  <2>3. Tables'
    BY <2>1, <2>2, <1>1 DEF Inv, Tables
  <2>4. Counts'
    BY <2>2 DEF Inv, Counts
  <2>5. OnlyLookups' /\ Told'
    BY <2>1 DEF Inv, Tables, OnlyLookups, Told
  <2>6. Current' /\ Witnessed'
    BY <2>1, <2>2 DEF Inv, Tables, Current, Witnessed, Calling, State
  <2> QED
    BY <2>3, <2>4, <2>5, <2>6 DEF Inv
<1>3. ASSUME NEW r \in Errors \cup Values, Returns(c, r),
             r = "Absent" => call[c].op \in Lookups,
             \E s \in seen[c] : Tells(call[c], r, s),
             UNCHANGED reply, late' \subseteq Requested, faults' \in 0..MaxFaults
      PROVE  Inv'
  <2>1. /\ result' \in [Callers -> Results \cup {None}]
        /\ call' \in [Callers -> Requested \cup {None}]
        /\ OnlyLookups' /\ Told'
    BY <1>3, ReturnsTheTruth
  <2>2. call' = [call EXCEPT ![c] = None] /\ UNCHANGED <<reply, calls, stream, consumer, seen>>
    BY <1>3 DEF Returns
  <2>3. Tables' /\ Counts'
    BY <1>3, <2>1, <2>2 DEF Inv, Tables, Counts
  <2>4. Current' /\ Witnessed'
    BY <2>2 DEF Inv, Tables, Current, Witnessed, Calling, State
  <2> QED
    BY <2>1, <2>3, <2>4 DEF Inv
<1>4. ASSUME Calling(c) PROVE call[c] \in Requested /\ State \in seen[c]
  BY <1>4 DEF Inv, Tables, Calling, Current
<1>5. CASE Replied(c)
  <2> DEFINE v == Interpreted(call[c].op, reply[c])
  <2>1. Calling(c) /\ reply[c] \in Replies /\ Formed(call[c], reply[c])
    BY <1>5 DEF Replied, Inv, Tables, Witnessed
  <2>2. PICK s \in seen[c] : Shows(call[c], reply[c], s)
    BY <1>5 DEF Replied, Inv, Witnessed
  <2>3. s \in States
    BY <2>2 DEF Inv, Tables
  <2>4. v \in Errors \cup Values /\ (v = "Absent" => call[c].op \in Lookups)
    BY <1>4, <2>1, InterpretedIsTrue
  <2>5. Tells(call[c], v, s)
    BY <1>4, <2>1, <2>2, <2>3, InterpretedIsTrue
  <2>6. Returns(c, v) /\ UNCHANGED <<reply, late, faults>>
    BY <1>5 DEF Replied
  <2>7. late' \subseteq Requested /\ faults' \in 0..MaxFaults
    BY <2>6 DEF Inv, Tables, Counts
  <2> QED
    BY <1>3, <2>4, <2>5, <2>6, <2>7
<1>6. CASE Fails(c)
  <2>1. PICK r \in {"ClientClosed", "Json"} : Returns(c, r)
    BY <1>6 DEF Fails
  <2>2. r \in Errors /\ r # "Absent" /\ r # "Ok" /\ r \notin Configs
    BY DEF Errors
  <2>3. Tells(call[c], r, State)
    BY <2>2 DEF Tells
  <2>4. UNCHANGED <<reply, late>> /\ faults' \in 0..MaxFaults
    BY <1>6 DEF Fails, Fault, Inv, Counts
  <2>5. late' \subseteq Requested /\ Calling(c)
    BY <2>1, <2>4 DEF Inv, Tables, Returns
  <2> QED
    BY <1>3, <1>4, <2>1, <2>2, <2>3, <2>4, <2>5
<1>7. CASE TimesOut(c)
  <2>1. Returns(c, "ResponseError") /\ Calling(c) /\ UNCHANGED reply
    BY <1>7 DEF TimesOut, Returns
  <2>2. "ResponseError" \in Errors /\ "ResponseError" \notin Configs
    BY DEF Errors
  <2>3. Tells(call[c], "ResponseError", State)
    BY <2>2 DEF Tells
  <2>4. late' \subseteq Requested
    BY <1>4, <1>7, <2>1 DEF TimesOut, Inv, Tables
  <2>5. faults' \in 0..MaxFaults
    BY <1>7 DEF TimesOut, Fault, Inv, Counts
  <2> QED
    BY <1>3, <1>4, <2>1, <2>2, <2>3, <2>4, <2>5
<1> QED
  BY <1>2, <1>5, <1>6, <1>7

-----------------------------------------------------------------------------
\* Every step of the server keeps Inv.
LEMMA ServerInv ==
    ASSUME Inv, (\E c \in Callers : Serves(c) \/ Refuses(c)) \/ ServesLate \/ LosesStream
    PROVE  Inv'
<1> USE ManagementAssumption
<1>1. ASSUME NEW s \in States, Becomes(s), UNCHANGED reply, late' \subseteq Requested,
             faults' \in 0..MaxFaults
      PROVE  Inv'
  <2>1. UNCHANGED <<call, result, calls>>
    BY <1>1 DEF Becomes
  <2>2. Tables' /\ Counts'
    BY <1>1, <2>1, BecomesKeeps DEF Inv, Tables, Counts
  <2>3. Witnessed'
    BY <1>1, <2>1, BecomesKeeps DEF Inv, Witnessed, Calling
  <2> QED
    BY <1>1, <2>2, <2>3, BecomesKeeps DEF Inv
<1>2. ASSUME NEW c \in Callers, Serves(c) PROVE Inv'
  <2>1. Calling(c) /\ call[c] \in Requested
    BY <1>2 DEF Serves, Calling, Inv, Tables
  <2>2. /\ After(call[c]) \in States
        /\ Answer(call[c]) \in Replies
        /\ Formed(call[c], Answer(call[c]))
        /\ Shows(call[c], Answer(call[c]), After(call[c]))
    BY <2>1, AnswersAreTrue DEF Inv
  <2>3. Becomes(After(call[c])) /\ UNCHANGED <<late, faults>>
        /\ reply' = [reply EXCEPT ![c] = Answer(call[c])]
    BY <1>2 DEF Serves
  <2>4. UNCHANGED <<call, result, calls>>
    BY <2>3 DEF Becomes
  <2>5. Tables' /\ Counts'
    BY <2>2, <2>3, <2>4, BecomesKeeps DEF Inv, Tables, Counts
  <2>6. ASSUME NEW d \in Callers, Calling(d), reply'[d] # None
        PROVE  /\ Formed(call[d], reply'[d])
               /\ \E s \in seen'[d] : Shows(call[d], reply'[d], s)
    <3>1. CASE d = c
      BY <2>1, <2>2, <2>3, <3>1, BecomesKeeps DEF Inv, Tables
    <3>2. CASE d # c
      BY <2>2, <2>3, <2>6, <3>2, BecomesKeeps DEF Inv, Tables, Witnessed
    <3> QED
      BY <3>1, <3>2
  <2>7. Witnessed'
    BY <2>4, <2>6 DEF Witnessed, Calling
  <2> QED
    BY <2>2, <2>3, <2>5, <2>7, BecomesKeeps DEF Inv
<1>3. ASSUME NEW c \in Callers, Refuses(c) PROVE Inv'
  <2>1. UNCHANGED <<call, result, calls, stream, consumer, late, seen>>
        /\ reply' = [reply EXCEPT ![c] = Err("Busy")] /\ Calling(c) /\ faults' \in 0..MaxFaults
    BY <1>3 DEF Refuses, Fault, Inv, Counts
  <2>2. Err("Busy") \in Replies /\ Formed(call[c], Err("Busy"))
        /\ Shows(call[c], Err("Busy"), State)
    BY DEF Err, Replies, Errors, Values, Formed, Shows
  <2>3. Tables' /\ Counts'
    BY <2>1, <2>2 DEF Inv, Tables, Counts
  <2>4. State \in seen[c]
    BY <2>1 DEF Inv, Current
  <2>5. Witnessed'
    BY <2>1, <2>2, <2>4 DEF Inv, Tables, Witnessed, Calling
  <2>6. OnlyLookups' /\ Current' /\ Told'
    BY <2>1 DEF Inv, OnlyLookups, Current, Told, Calling, State
  <2> QED
    BY <2>3, <2>5, <2>6 DEF Inv
<1>4. CASE ServesLate
  <2>1. PICK q \in late : Becomes(After(q)) /\ late' = late \ {q} /\ UNCHANGED <<reply, faults>>
    BY <1>4 DEF ServesLate
  <2>2. After(q) \in States
    BY AnswersAreTrue DEF Inv, Tables
  <2> QED
    BY <1>1, <2>1, <2>2 DEF Inv, Tables, Counts
<1>5. CASE LosesStream
  <2>1. [stream |-> None, consumer |-> None] \in States
    BY DEF States
  <2>2. UNCHANGED <<reply, late>> /\ faults' \in 0..MaxFaults
        /\ Becomes([stream |-> None, consumer |-> None])
    BY <1>5 DEF LosesStream, Fault, Inv, Counts
  <2> QED
    BY <1>1, <2>1, <2>2 DEF Inv, Tables
<1> QED
  BY <1>2, <1>3, <1>4, <1>5

\* Every step keeps Inv.
LEMMA NextInv == Inv /\ [Next]_vars => Inv'
<1> SUFFICES ASSUME Inv, [Next]_vars PROVE Inv'
  OBVIOUS
<1>1. CASE Next
  BY <1>1, CallerInv, ServerInv DEF Next
<1>2. CASE UNCHANGED vars
  BY <1>2 DEF vars, Inv, Tables, Counts, OnlyLookups, Current, Witnessed, Told,
     Calling, State
<1> QED
  BY <1>1, <1>2

-----------------------------------------------------------------------------
\* JetstreamClient::stream (client/jetstream/mod.rs:147) and the calls beside it:
\* whatever other callers and the server do meanwhile, a lookup, a create or a
\* delete that returned was true at some time between its call and its return.
THEOREM CallsReturnTheTruth == Spec => []ManagementInv
<1>1. Spec => []Inv
  BY InitInv, NextInv, PTL DEF Spec
<1> QED
  BY <1>1, InvImplies, PTL

-----------------------------------------------------------------------------
(***************************************************************************)
(* Publishing.  A request is known by who sent it and in which attempt, and*)
(* the server takes each of them once: as long as the first one of a caller*)
(* is on its way nothing of the caller is stored, and the answer to it says*)
(* whether anything is.                                                    *)
(***************************************************************************)
Request(c, n) == [from |-> c, attempt |-> n, subject |-> opts[c].subject,
                  headers |-> Headers(opts[c])]

Positive == [kind : {"json"}, sequence : 1..MaxLog]
Negative == [kind : {"none", "status"}] \cup [kind : {"json"}, sequence : {0}, error : {"err"}]
Entry == [from : Publishers, subject : {o.subject : o \in Options}, id : {o.id : o \in Options}]
Certain == Failures \ Doubtful

PublishTypes ==
    /\ opts \in [Publishers -> Options]
    /\ pc \in [Publishers -> {"ready", "waiting", "done"}]
    /\ attempts \in [Publishers -> 0..MaxAttempts]
    /\ \A c \in Publishers : pc[c] = "ready" => attempts[c] < MaxAttempts
    /\ outcome \in [Publishers -> {Unset} \cup Failures \cup [sequence : 1..MaxLog]]
    /\ response \in [Publishers -> {Unset, Garbled} \cup Positive \cup Negative]
    /\ log \in Seq(Entry) /\ Len(log) <= MaxLog
    /\ losses \in 0..MaxLosses

Sent == \A q \in net : /\ q.from \in Publishers /\ q.attempt \in 1..attempts[q.from]
                       /\ q = Request(q.from, q.attempt)

\* Nothing was published, or one request is on its way.
Untried == \A c \in Publishers :
    attempts[c] = 0 => pc[c] = "ready" /\ outcome[c] = Unset /\ Stored(c) = {}
FirstIsOpen == \A q \in net : attempts[q.from] = 1 => Stored(q.from) = {}

\* The only attempt was refused.
Refused(c) ==
    /\ attempts[c] = 1
    /\ outcome[c] \in Certain \/ (pc[c] = "waiting" /\ response[c] \in Negative)
RefusedLeavesNothing ==
    \A c \in Publishers : Refused(c) => Stored(c) = {} /\ \A q \in net : q.from # c

\* Where the message of a caller is, or the one with its id.
Found(c) == {k \in DOMAIN log : \/ log[k].from = c
                                \/ opts[c].id # Unset /\ log[k].id = opts[c].id}
Acknowledged ==
    \A c \in Publishers :
        /\ response[c] \in Positive => response[c].sequence \in Found(c)
        /\ outcome[c] \in [sequence : 1..MaxLog] => outcome[c].sequence \in Found(c)

IdsAreTheirs == \A k \in DOMAIN log : log[k].id = opts[log[k].from].id
IdsAreUnique == \A j, k \in DOMAIN log : log[j].id # Unset /\ log[j].id = log[k].id => j = k

\* What is expected of a message stored at k is so in the log s.
Meant(o, s, k) ==
    /\ o.expected_stream \in {Unset, This}
    /\ o.last_sequence \in {Unset, k - 1}
    /\ o.last_subject_sequence \in
            {Unset, Max({0} \cup {j \in 1..(k - 1) : s[j].subject = s[k].subject})}
    /\ o.last_id \in {Unset} \cup {s[j].id : j \in {k - 1} \ {0}}
AllAreMeant == \A k \in DOMAIN log : Meant(opts[log[k].from], log, k)

PublishIInv ==
    /\ PublishTypes /\ Sent /\ Untried /\ FirstIsOpen /\ RefusedLeavesNothing
    /\ Acknowledged /\ IdsAreTheirs /\ IdsAreUnique /\ AllAreMeant

\* Each option is in the header of its name, and there is no other.
LEMMA HeadersAre ==
    ASSUME NEW c \in Publishers, NEW n
    PROVE  LET r == Request(c, n) IN
           /\ Header(r, "Nats-Expected-Stream") = opts[c].expected_stream
           /\ Header(r, "Nats-Expected-Last-Sequence") = opts[c].last_sequence
           /\ Header(r, "Nats-Expected-Last-Subject-Sequence") = opts[c].last_subject_sequence
           /\ Header(r, "Nats-Expected-Last-Msg-Id") = opts[c].last_id
           /\ Header(r, "Nats-Msg-Id") = opts[c].id
<1> DEFINE o == opts[c]
           given == Given(o)
           r == Request(c, n)
<1>1. /\ DOMAIN Names = {"expected_stream", "last_sequence", "last_subject_sequence",
                         "last_id", "id"}
      /\ \A j, k \in DOMAIN Names : Names[j] = Names[k] => j = k
  BY DEF Names
<1>2. /\ r.headers = [h \in {Names[k] : k \in given} |-> o[CHOOSE k \in given : Names[k] = h]]
      /\ given \subseteq DOMAIN Names
      /\ \A k \in DOMAIN Names : k \in given <=> o[k] # Unset
  BY DEF Request, Headers, Given
<1> HIDE DEF r, given, o
<1>3. ASSUME NEW k \in DOMAIN Names
      PROVE  Header(r, Names[k]) = o[k]
  <2>1. CASE k \in given
    <3>1. Names[k] \in DOMAIN r.headers
      BY <1>2, <2>1
    <3>2. (CHOOSE j \in given : Names[j] = Names[k]) = k
      BY <1>1, <1>2, <2>1
    <3>3. r.headers[Names[k]] = o[CHOOSE j \in given : Names[j] = Names[k]]
      BY <1>2, <2>1
    <3> QED
      BY <3>1, <3>2, <3>3 DEF Header
  <2>2. CASE k \notin given
    <3>1. Names[k] \notin DOMAIN r.headers
      BY <1>1, <1>2, <2>2
    <3> QED
      BY <1>2, <2>2, <3>1 DEF Header
  <2> QED
    BY <2>1, <2>2
<1>4. /\ Header(r, "Nats-Expected-Stream") = o.expected_stream
      /\ Header(r, "Nats-Expected-Last-Sequence") = o.last_sequence
      /\ Header(r, "Nats-Expected-Last-Subject-Sequence") = o.last_subject_sequence
      /\ Header(r, "Nats-Expected-Last-Msg-Id") = o.last_id
      /\ Header(r, "Nats-Msg-Id") = o.id
  <2>1. /\ Names["expected_stream"] = "Nats-Expected-Stream"
        /\ Names["last_sequence"] = "Nats-Expected-Last-Sequence"
        /\ Names["last_subject_sequence"] = "Nats-Expected-Last-Subject-Sequence"
        /\ Names["last_id"] = "Nats-Expected-Last-Msg-Id"
        /\ Names["id"] = "Nats-Msg-Id"
    BY DEF Names
  <2>2. /\ Header(r, Names["expected_stream"]) = o["expected_stream"]
        /\ Header(r, Names["last_sequence"]) = o["last_sequence"]
        /\ Header(r, Names["last_subject_sequence"]) = o["last_subject_sequence"]
        /\ Header(r, Names["last_id"]) = o["last_id"]
        /\ Header(r, Names["id"]) = o["id"]
    BY <1>1, <1>3
  <2> QED
    BY <2>1, <2>2
<1> QED
  BY <1>4 DEF o, r

\* The largest of some numbers up to n is one of them.
LEMMA MaxIsOne ==
    ASSUME NEW n \in Nat, NEW S, S \subseteq 1..n, S # {}
    PROVE  Max(S) \in S
<1> DEFINE T == {n - x : x \in S}
           R == OpToRel(<, Nat)
<1>1. T \subseteq Nat /\ T # {}
  <2>1. \A x \in S : x \in 1..n /\ n - x \in Nat
    OBVIOUS
  <2> QED
    BY <2>1
<1>2. IsWellFoundedOn(R, Nat)
  BY NatLessThanWellFounded
<1>3. \A y, x \in Nat : y < x => <<y, x>> \in R
  BY DEF OpToRel
<1> HIDE DEF R, T
<1>4. PICK t \in T : \A y \in T : <<y, t>> \notin R
  BY <1>1, <1>2, WFMin
<1>5. PICK x \in S : t = n - x
  BY DEF T
<1>6. ASSUME NEW y \in S PROVE x >= y
  <2>1. n - y \in T
    BY DEF T
  <2>2. ~(n - y < n - x)
    BY <1>1, <1>3, <1>4, <1>5, <2>1
  <2> QED
    BY <2>2
<1>7. \E m \in S : \A y \in S : m >= y
  BY <1>6
<1> QED
  BY <1>7 DEF Max

\* What is meant of a message does not depend on later ones.
LEMMA MeantOfPrefix ==
    ASSUME NEW o, NEW s, NEW t, NEW n \in Nat, NEW k \in 1..n,
           \A j \in 1..n : s[j] = t[j], Meant(o, s, k)
    PROVE  Meant(o, t, k)
<1> DEFINE old == {j \in 1..(k - 1) : s[j].subject = s[k].subject}
           new == {j \in 1..(k - 1) : t[j].subject = t[k].subject}
           before == {s[j].id : j \in {k - 1} \ {0}}
           now == {t[j].id : j \in {k - 1} \ {0}}
<1>1. \A j \in 1..(k - 1) : j \in 1..n
  OBVIOUS
<1>2. old = new
  BY <1>1
<1>3. \A j \in {k - 1} \ {0} : j \in 1..n
  OBVIOUS
<1>4. before = now
  BY <1>3
<1>5. Meant(o, s, k) <=> /\ o.expected_stream \in {Unset, This}
                         /\ o.last_sequence \in {Unset, k - 1}
                         /\ o.last_subject_sequence \in {Unset, Max({0} \cup old)}
                         /\ o.last_id \in {Unset} \cup before
  BY DEF Meant
<1>6. Meant(o, t, k) <=> /\ o.expected_stream \in {Unset, This}
                         /\ o.last_sequence \in {Unset, k - 1}
                         /\ o.last_subject_sequence \in {Unset, Max({0} \cup new)}
                         /\ o.last_id \in {Unset} \cup now
  BY DEF Meant
<1> QED
  BY <1>2, <1>4, <1>5, <1>6

\* What do_publish makes of a response.
LEMMA ReturnedIs ==
    ASSUME NEW r \in Positive \cup Negative \cup {Garbled}
    PROVE  LET v == CASE r.kind = "none" -> Failure(ResponseFailed("NoResponders"))
                      [] r.kind = "status" -> Failure("PublishStatus")
                      [] r.kind = "garbled" -> Failure(Unreadable)
                      [] OTHER -> Parsed(r)
           IN /\ r \in Positive => v = [sequence |-> r.sequence] /\ r.sequence \in 1..MaxLog
              /\ r \in Negative => v \in Certain
              /\ r = Garbled => v = Failure("Json")
<1> DEFINE v == CASE r.kind = "none" -> Failure(ResponseFailed("NoResponders"))
                  [] r.kind = "status" -> Failure("PublishStatus")
                  [] r.kind = "garbled" -> Failure(Unreadable)
                  [] OTHER -> Parsed(r)
<1>0. Garbled.kind = "garbled" /\ Garbled \notin Positive /\ Garbled \notin Negative
  BY DEF Garbled, Positive, Negative
<1>1. \A e \in {"HeaderValue", "ClientClosed", "Api", "NoStreamMatches", "PublishStatus"} :
         Failure(e) \in Certain
  BY DEF Certain, Failures, Failure, Doubtful
<1>2. CASE r \in Positive
  <2>1. r.kind = "json" /\ "error" \notin DOMAIN r /\ r.sequence \in 1..MaxLog
    BY <1>2 DEF Positive
  <2>2. r \notin Negative /\ r # Garbled
    BY <1>0, <1>2 DEF Positive, Negative
  <2> QED
    BY <2>1, <2>2 DEF Parsed
<1>3. CASE r \in Negative
  <2>1. r \notin Positive /\ r # Garbled
    BY <1>0, <1>3 DEF Positive, Negative
  <2>2. CASE r \in [kind : {"none", "status"}]
    BY <1>1, <2>1, <2>2 DEF ResponseFailed
  <2>3. CASE r \in [kind : {"json"}, sequence : {0}, error : {"err"}]
    <3>1. r.kind = "json" /\ "error" \in DOMAIN r
      BY <2>3
    <3> QED
      BY <1>1, <2>1, <3>1 DEF Parsed
  <2> QED
    BY <1>3, <2>2, <2>3 DEF Negative
<1>4. CASE r = Garbled
  BY <1>0, <1>4 DEF Unreadable
<1> QED
  BY <1>0, <1>2, <1>3, <1>4

LEMMA PublishImplies == PublishIInv => PublishingInv
<1> SUFFICES ASSUME PublishIInv PROVE PublishingInv
  OBVIOUS
<1>1. PublishingTypeOK
  <2>1. \A q \in net : q.from \in Publishers /\ q.attempt \in 1..attempts[q.from]
    BY DEF PublishIInv, Sent
  <2> QED
    BY <2>1 DEF PublishIInv, PublishTypes, PublishingTypeOK, Entry
<1>2. AckMeansStored
  <2> SUFFICES ASSUME NEW c \in Publishers, outcome[c] # Unset, "sequence" \in DOMAIN outcome[c]
               PROVE  outcome[c].sequence \in Found(c)
    BY DEF AckMeansStored, Found, Stored
  <2>1. outcome[c] \in Failures \cup [sequence : 1..MaxLog]
    BY DEF PublishIInv, PublishTypes
  <2>2. outcome[c] \notin Failures
    BY DEF Failures, Failure
  <2> QED
    BY <2>1, <2>2 DEF PublishIInv, Acknowledged
<1>3. RefusedIsNotStored
  BY DEF PublishIInv, RefusedLeavesNothing, Refused, Certain, RefusedIsNotStored
<1>4. StoredOnce
  <2> SUFFICES ASSUME NEW c \in Publishers, opts[c].id # Unset
               PROVE  Cardinality(Stored(c)) <= 1
    BY DEF StoredOnce
  <2>1. \A j, k \in Stored(c) : j = k
    BY DEF PublishIInv, IdsAreTheirs, IdsAreUnique, Stored
  <2>2. Stored(c) = {} \/ \E k : Stored(c) = {k}
    BY <2>1
  <2>3. CASE Stored(c) = {}
    <3>1. Cardinality(Stored(c)) = 0
      BY <2>3, FS_EmptySet
    <3> QED
      BY <3>1
  <2>4. ASSUME NEW k, Stored(c) = {k} PROVE Cardinality(Stored(c)) <= 1
    <3>1. Cardinality(Stored(c)) = 1
      BY <2>4, FS_Singleton
    <3> QED
      BY <3>1
  <2> QED
    BY <2>2, <2>3, <2>4
<1>5. ExpectationsHold
  <2> SUFFICES ASSUME NEW c \in Publishers, NEW k \in Stored(c)
               PROVE  Meant(opts[c], log, k)
    BY DEF ExpectationsHold, Meant
  <2> QED
    BY DEF PublishIInv, AllAreMeant, Stored
<1> QED
  BY <1>1, <1>2, <1>3, <1>4, <1>5 DEF PublishingInv

LEMMA PublishInitInv == PublishInit => PublishIInv
<1> SUFFICES ASSUME PublishInit PROVE PublishIInv
  OBVIOUS
<1> USE DEF PublishInit
<1>1. PublishTypes
  <2>1. 0 \in 0..MaxAttempts /\ 0 < MaxAttempts /\ 0 \in 0..MaxLosses
    BY PublishingAssumption
  <2>2. log \in Seq(Entry) /\ Len(log) <= MaxLog
    BY PublishingAssumption
  <2> QED
    BY <2>1, <2>2 DEF PublishTypes
<1>2. \A c \in Publishers : Stored(c) = {} /\ ~Refused(c)
  BY DEF Stored, Refused
<1>3. \A c \in Publishers : response[c] \notin Positive /\ outcome[c] \notin [sequence : 1..MaxLog]
  BY PublishingAssumption DEF Positive
<1> QED
  BY <1>1, <1>2, <1>3 DEF PublishIInv, Sent, Untried, FirstIsOpen, RefusedLeavesNothing,
     Acknowledged, IdsAreTheirs, IdsAreUnique, AllAreMeant

\* What a step that stores nothing keeps of what is stored.
LEMMA SameLog ==
    ASSUME PublishIInv, UNCHANGED <<opts, log>>
    PROVE  /\ IdsAreTheirs' /\ IdsAreUnique' /\ AllAreMeant'
           /\ log' \in Seq(Entry) /\ Len(log') <= MaxLog
           /\ \A c \in Publishers : Stored(c)' = Stored(c) /\ Found(c)' = Found(c)
  BY DEF PublishIInv, PublishTypes, IdsAreTheirs, IdsAreUnique, AllAreMeant, Stored, Found

\* A step of a caller: it has the requests it had, or some of them, or a new one.
LEMMA CallerStep ==
    ASSUME PublishIInv, NEW c \in Publishers, PublishTypes', UNCHANGED <<opts, log>>,
           \A d \in Publishers \ {c} :
                UNCHANGED <<pc[d], attempts[d], outcome[d], response[d]>>,
           attempts'[c] >= attempts[c], attempts'[c] # 0,
           \A q \in net' : q \in net \/ (q = Request(c, attempts'[c]) /\ attempts'[c] # attempts[c]),
           Refused(c)' => Refused(c) \/ (attempts[c] = 0 /\ net' = net),
           response'[c] \in {response[c], Unset},
           outcome'[c] \in [sequence : 1..MaxLog] =>
                \/ outcome'[c] = outcome[c]
                \/ response[c] \in Positive /\ outcome'[c].sequence = response[c].sequence
    PROVE  PublishIInv'
<1>1. /\ IdsAreTheirs' /\ IdsAreUnique' /\ AllAreMeant'
      /\ \A d \in Publishers : Stored(d)' = Stored(d) /\ Found(d)' = Found(d)
  BY SameLog
<1>2. Sent'
  <2> SUFFICES ASSUME NEW q \in net'
               PROVE  /\ q.from \in Publishers /\ q.attempt \in 1..attempts'[q.from]
                      /\ q = Request(q.from, q.attempt)'
    BY DEF Sent
  <2>1. \A d, n : Request(d, n)' = Request(d, n)
    BY DEF Request
  <2>2. CASE q \in net
    <3>1. q.from \in Publishers /\ q.attempt \in 1..attempts[q.from] /\ q = Request(q.from, q.attempt)
      BY <2>2 DEF PublishIInv, Sent
    <3>2. \A n \in 0..MaxAttempts : n \in Nat
      BY PublishingAssumption
    <3>3. attempts[q.from] \in Nat
      BY <3>1, <3>2 DEF PublishIInv, PublishTypes
    <3>4. attempts'[q.from] \in Nat
      BY <3>1, <3>2 DEF PublishTypes
    <3>5. attempts'[q.from] >= attempts[q.from]
      <4>1. CASE q.from = c
        BY <4>1
      <4>2. CASE q.from # c
        BY <3>1, <3>3, <4>2
      <4> QED
        BY <4>1, <4>2
    <3>6. q.attempt \in 1..attempts'[q.from]
      BY <3>1, <3>3, <3>4, <3>5
    <3> QED
      BY <2>1, <3>1, <3>6
  <2>3. CASE q = Request(c, attempts'[c])
    <3>1. q.from = c /\ q.attempt = attempts'[c]
      BY <2>3 DEF Request
    <3>2. attempts'[c] \in 1..attempts'[c]
      BY PublishingAssumption DEF PublishTypes
    <3> QED
      BY <2>1, <2>3, <3>1, <3>2
  <2> QED
    BY <2>2, <2>3
<1>3. Untried'
  BY <1>1 DEF PublishIInv, Untried
<1>4. FirstIsOpen'
  <2> SUFFICES ASSUME NEW q \in net', attempts'[q.from] = 1 PROVE Stored(q.from)' = {}
    BY DEF FirstIsOpen
  <2>1. q.from \in Publishers
    BY <1>2 DEF Sent
  <2>2. CASE q.from # c
    <3>1. q \in net
      BY <2>2 DEF Request
    <3> QED
      BY <1>1, <2>1, <2>2, <3>1 DEF PublishIInv, FirstIsOpen
  <2>3. CASE q.from = c
    <3>1. attempts[c] = 0 \/ attempts[c] = 1
      BY <2>3, PublishingAssumption DEF PublishIInv, PublishTypes
    <3>2. CASE attempts[c] = 0
      BY <1>1, <2>3, <3>2 DEF PublishIInv, Untried
    <3>3. CASE attempts[c] = 1
      BY <1>1, <2>3, <3>3 DEF PublishIInv, FirstIsOpen
    <3> QED
      BY <3>1, <3>2, <3>3
  <2> QED
    BY <2>2, <2>3
<1>5. RefusedLeavesNothing'
  <2> SUFFICES ASSUME NEW d \in Publishers, Refused(d)'
               PROVE  Stored(d)' = {} /\ \A q \in net' : q.from # d
    BY DEF RefusedLeavesNothing
  <2>1. CASE d # c
    <3>1. Refused(d)
      BY <2>1 DEF Refused
    <3>2. Stored(d) = {} /\ \A q \in net : q.from # d
      BY <3>1 DEF PublishIInv, RefusedLeavesNothing
    <3> QED
      BY <1>1, <2>1, <3>2 DEF Request
  <2>2. CASE d = c /\ Refused(c)
    <3>1. Stored(c) = {} /\ (\A q \in net : q.from # c) /\ attempts[c] = 1
      BY <2>2 DEF PublishIInv, RefusedLeavesNothing, Refused
    <3>2. attempts'[c] = 1
      BY <2>2 DEF Refused
    <3>3. \A q \in net' : q \in net
      BY <3>1, <3>2
    <3> QED
      BY <1>1, <2>2, <3>1, <3>3
  <2>3. CASE d = c /\ attempts[c] = 0 /\ net' = net
    <3>1. Stored(c) = {}
      BY <2>3 DEF PublishIInv, Untried
    <3>2. \A q \in net : q.from # c
      BY <2>3 DEF PublishIInv, Sent
    <3> QED
      BY <1>1, <2>3, <3>1, <3>2
  <2> QED
    BY <2>1, <2>2, <2>3
<1>6. Acknowledged'
  <2>1. Unset \notin Positive
    BY PublishingAssumption DEF Positive
  <2> QED
    BY <1>1, <2>1 DEF PublishIInv, Acknowledged
<1> QED
  BY <1>1, <1>2, <1>3, <1>4, <1>5, <1>6 DEF PublishIInv

\* The types of what a caller changes.
LEMMA CallerTypes ==
    ASSUME PublishIInv, NEW c \in Publishers, NEW p \in {"ready", "waiting", "done"},
           NEW n \in 0..MaxAttempts, p = "ready" => n < MaxAttempts,
           NEW o \in {Unset} \cup Failures \cup [sequence : 1..MaxLog],
           NEW r \in {Unset, Garbled} \cup Positive \cup Negative,
           UNCHANGED <<opts, log>>, losses' \in 0..MaxLosses,
           pc' = [pc EXCEPT ![c] = p], attempts' = [attempts EXCEPT ![c] = n],
           outcome' = [outcome EXCEPT ![c] = o], response' = [response EXCEPT ![c] = r]
    PROVE  /\ PublishTypes'
           /\ pc'[c] = p /\ attempts'[c] = n /\ outcome'[c] = o /\ response'[c] = r
           /\ \A d \in Publishers \ {c} :
                UNCHANGED <<pc[d], attempts[d], outcome[d], response[d]>>
<1>1. PublishTypes
  BY DEF PublishIInv
<1>2. /\ pc'[c] = p /\ attempts'[c] = n /\ outcome'[c] = o /\ response'[c] = r
      /\ \A d \in Publishers \ {c} :
            UNCHANGED <<pc[d], attempts[d], outcome[d], response[d]>>
  BY <1>1 DEF PublishTypes
<1>3. /\ pc' \in [Publishers -> {"ready", "waiting", "done"}]
      /\ attempts' \in [Publishers -> 0..MaxAttempts]
      /\ outcome' \in [Publishers -> {Unset} \cup Failures \cup [sequence : 1..MaxLog]]
      /\ response' \in [Publishers -> {Unset, Garbled} \cup Positive \cup Negative]
  BY <1>1 DEF PublishTypes
<1>4. \A d \in Publishers : pc'[d] = "ready" => attempts'[d] < MaxAttempts
  <2> SUFFICES ASSUME NEW d \in Publishers, pc'[d] = "ready" PROVE attempts'[d] < MaxAttempts
    OBVIOUS
  <2>1. CASE d = c
    BY <1>2, <2>1
  <2>2. CASE d # c
    BY <1>1, <1>2, <2>2 DEF PublishTypes
  <2> QED
    BY <2>1, <2>2
<1> QED
  BY <1>1, <1>2, <1>3, <1>4 DEF PublishTypes

\* What is known where a caller publishes.
LEMMA NextAttempt ==
    ASSUME PublishIInv, NEW c \in Publishers, pc[c] = "ready"
    PROVE  /\ attempts[c] + 1 \in 1..MaxAttempts /\ attempts[c] + 1 > attempts[c]
           /\ attempts[c] + 1 = 1 => attempts[c] = 0
<1>1. attempts[c] \in 0..MaxAttempts /\ attempts[c] < MaxAttempts
  BY DEF PublishIInv, PublishTypes
<1> QED
  BY <1>1, PublishingAssumption

\* A failure is no sequence.
LEMMA FailuresAreNot ==
    /\ \A e : Failure(e) \notin [sequence : 1..MaxLog]
    /\ Unset \notin Certain /\ Unset \notin Positive /\ Unset \notin Negative
    /\ Unset \notin [sequence : 1..MaxLog]
    /\ \A o \in Doubtful : o \notin Certain /\ o \in Failures
    /\ Failure("ResponseError") \in Doubtful /\ Failure("Json") \in Doubtful
    /\ Garbled \notin Positive /\ Garbled \notin Negative /\ Garbled # Unset
<1>1. \A e : Failure(e) \notin [sequence : 1..MaxLog]
  BY DEF Failure
<1>2. Unset \notin Certain /\ Unset \notin [sequence : 1..MaxLog]
  BY PublishingAssumption DEF Certain
<1>3. Unset \notin Positive /\ Unset \notin Negative /\ Garbled # Unset
  BY PublishingAssumption DEF Positive, Negative, Garbled
<1>4. Garbled \notin Positive /\ Garbled \notin Negative
  BY DEF Positive, Negative, Garbled
<1>5. Doubtful \subseteq Failures
  BY DEF Doubtful, Failures
<1> QED
  BY <1>1, <1>2, <1>3, <1>4, <1>5 DEF Certain, Doubtful

\* A caller fails before anything is sent.
LEMMA FailedInv ==
    ASSUME PublishIInv, NEW c \in Publishers, pc[c] = "ready",
           NEW e \in {"HeaderValue", "ClientClosed"},
           PublishReturns(c, Failure(e)), attempts' = [attempts EXCEPT ![c] = @ + 1],
           NEW r \in {response[c], Unset}, response' = [response EXCEPT ![c] = r],
           UNCHANGED <<opts, net, log>>, losses' \in 0..MaxLosses
    PROVE  PublishIInv'
<1> DEFINE n == attempts[c] + 1
<1>1. n \in 1..MaxAttempts /\ n \in 0..MaxAttempts /\ n # 0 /\ n > attempts[c]
      /\ (n = 1 => attempts[c] = 0)
  BY NextAttempt, PublishingAssumption
<1>2. attempts' = [attempts EXCEPT ![c] = n]
  OBVIOUS
<1> HIDE DEF n
<1>3. r \in {Unset, Garbled} \cup Positive \cup Negative
  BY DEF PublishIInv, PublishTypes
<1>4. Failure(e) \in {Unset} \cup Failures \cup [sequence : 1..MaxLog]
  BY DEF Failures
<1>5. /\ PublishTypes'
      /\ pc'[c] = "done" /\ attempts'[c] = n /\ outcome'[c] = Failure(e) /\ response'[c] = r
      /\ \A d \in Publishers \ {c} :
            UNCHANGED <<pc[d], attempts[d], outcome[d], response[d]>>
  <2>1. pc' = [pc EXCEPT ![c] = "done"] /\ outcome' = [outcome EXCEPT ![c] = Failure(e)]
    BY DEF PublishReturns
  <2> QED
    BY <1>1, <1>2, <1>3, <1>4, <2>1, CallerTypes
<1>6. outcome'[c] \notin [sequence : 1..MaxLog]
  BY <1>5, FailuresAreNot
<1>7. Refused(c)' => attempts[c] = 0
  BY <1>1, <1>5 DEF Refused
<1>8. attempts'[c] >= attempts[c] /\ attempts'[c] # 0
  BY <1>1, <1>5, PublishingAssumption DEF PublishIInv, PublishTypes
<1> QED
  BY <1>5, <1>6, <1>7, <1>8, CallerStep

LEMMA LossesAre == ASSUME PublishIInv, Loss PROVE losses' \in 0..MaxLosses
  BY PublishingAssumption DEF PublishIInv, PublishTypes, Loss

LEMMA PublishStep == ASSUME PublishIInv, NEW c \in Publishers, Publish(c) PROVE PublishIInv'
<1> DEFINE n == attempts[c] + 1
<1>1. /\ pc[c] = "ready"
      /\ attempts' = [attempts EXCEPT ![c] = @ + 1]
      /\ response' = [response EXCEPT ![c] = Unset]
      /\ UNCHANGED <<opts, log, losses>>
  BY DEF Publish
<1>2. losses' \in 0..MaxLosses
  BY <1>1 DEF PublishIInv, PublishTypes
<1>3. CASE ~HeadersAreValid(opts[c])
  <2>1. PublishReturns(c, Failure("HeaderValue")) /\ UNCHANGED net
    BY <1>3 DEF Publish
  <2> QED
    BY <1>1, <1>2, <2>1, FailedInv
<1>4. CASE HeadersAreValid(opts[c])
  <2>1. n \in 1..MaxAttempts /\ n \in 0..MaxAttempts /\ n # 0 /\ n > attempts[c]
        /\ (n = 1 => attempts[c] = 0)
    BY <1>1, NextAttempt, PublishingAssumption
  <2>2. attempts' = [attempts EXCEPT ![c] = n]
    BY <1>1
  <2> HIDE DEF n
  <2>3. /\ net' = net \cup {Request(c, attempts'[c])}
        /\ pc' = [pc EXCEPT ![c] = "waiting"]
        /\ outcome' = [outcome EXCEPT ![c] = outcome[c]]
    <3>1. outcome = [outcome EXCEPT ![c] = outcome[c]]
      BY DEF PublishIInv, PublishTypes
    <3> QED
      BY <1>4, <3>1 DEF Publish, Request
  <2>4. outcome[c] \in {Unset} \cup Failures \cup [sequence : 1..MaxLog]
    BY DEF PublishIInv, PublishTypes
  <2>5. /\ PublishTypes'
        /\ pc'[c] = "waiting" /\ attempts'[c] = n /\ outcome'[c] = outcome[c] /\ response'[c] = Unset
        /\ \A d \in Publishers \ {c} :
                UNCHANGED <<pc[d], attempts[d], outcome[d], response[d]>>
    BY <1>1, <1>2, <2>1, <2>2, <2>3, <2>4, CallerTypes
  <2>6. ~Refused(c)'
    <3>1. SUFFICES ASSUME Refused(c)' PROVE FALSE
      OBVIOUS
    <3>2. attempts[c] = 0
      BY <2>1, <2>5, <3>1 DEF Refused
    <3>3. outcome[c] = Unset
      BY <3>2 DEF PublishIInv, Untried
    <3> QED
      BY <2>5, <3>1, <3>3, FailuresAreNot DEF Refused
  <2>7. attempts[c] \in Nat
    BY PublishingAssumption DEF PublishIInv, PublishTypes
  <2>8. attempts'[c] >= attempts[c] /\ attempts'[c] # 0 /\ attempts'[c] # attempts[c]
    BY <2>1, <2>5, <2>7
  <2> QED
    BY <1>1, <2>3, <2>5, <2>6, <2>8, CallerStep
<1> QED
  BY <1>3, <1>4

LEMMA PublishClosedStep ==
    ASSUME PublishIInv, NEW c \in Publishers, PublishClosed(c)
    PROVE  PublishIInv'
<1>1. response' = [response EXCEPT ![c] = response[c]]
  BY DEF PublishIInv, PublishTypes, PublishClosed
<1>2. losses' \in 0..MaxLosses
  BY LossesAre DEF PublishClosed
<1> QED
  BY <1>1, <1>2, FailedInv DEF PublishClosed

\* A caller that waits no longer, or again.
LEMMA SameAttempt ==
    ASSUME PublishIInv, NEW c \in Publishers, pc[c] # "ready",
           NEW p \in {"ready", "done"}, p = "ready" => attempts[c] < MaxAttempts,
           NEW o \in {Unset} \cup Failures \cup [sequence : 1..MaxLog],
           pc' = [pc EXCEPT ![c] = p], outcome' = [outcome EXCEPT ![c] = o],
           UNCHANGED <<opts, attempts, response, log>>, losses' \in 0..MaxLosses,
           net' \subseteq net,
           o \in Certain => Refused(c) \/ attempts[c] # 1,
           o \in [sequence : 1..MaxLog] =>
                \/ o = outcome[c]
                \/ response[c] \in Positive /\ o.sequence = response[c].sequence
    PROVE  PublishIInv'
<1>1. PublishTypes /\ attempts[c] \in 0..MaxAttempts
  BY DEF PublishIInv, PublishTypes
<1>2. /\ PublishTypes'
      /\ pc'[c] = p /\ outcome'[c] = o
      /\ \A d \in Publishers \ {c} :
            UNCHANGED <<pc[d], attempts[d], outcome[d], response[d]>>
  <2>1. /\ pc'[c] = p /\ outcome'[c] = o
        /\ \A d \in Publishers \ {c} : UNCHANGED <<pc[d], outcome[d]>>
    BY <1>1 DEF PublishTypes
  <2>2. /\ pc' \in [Publishers -> {"ready", "waiting", "done"}]
        /\ outcome' \in [Publishers -> {Unset} \cup Failures \cup [sequence : 1..MaxLog]]
    BY <1>1 DEF PublishTypes
  <2>3. ASSUME NEW d \in Publishers, pc'[d] = "ready" PROVE attempts'[d] < MaxAttempts
    BY <1>1, <2>1, <2>3 DEF PublishTypes
  <2> QED
    BY <1>1, <2>1, <2>2, <2>3 DEF PublishTypes
<1>3. attempts[c] # 0 /\ attempts[c] >= attempts[c]
  BY <1>1, PublishingAssumption DEF PublishIInv, Untried
<1>4. Refused(c)' => Refused(c)
  BY <1>2 DEF Refused
<1> QED
  BY <1>2, <1>3, <1>4, CallerStep

LEMMA RespondedStep == ASSUME PublishIInv, NEW c \in Publishers, Responded(c) PROVE PublishIInv'
<1>1. PICK o : /\ pc' = [pc EXCEPT ![c] = "done"] /\ outcome' = [outcome EXCEPT ![c] = o]
               /\ response[c] \in Positive =>
                    o = [sequence |-> response[c].sequence] /\ response[c].sequence \in 1..MaxLog
               /\ response[c] \in Negative => o \in Certain
               /\ response[c] = Garbled => o = Failure("Json")
               /\ response[c] \in Positive \cup Negative \cup {Garbled}
  <2>1. response[c] \in Positive \cup Negative \cup {Garbled}
    BY DEF PublishIInv, PublishTypes, Responded
  <2> QED
    BY <2>1, ReturnedIs DEF Responded, PublishReturns
<1>2. o \in {Unset} \cup Failures \cup [sequence : 1..MaxLog]
  BY <1>1, FailuresAreNot DEF Certain
<1>3. o \in Certain => Refused(c) \/ attempts[c] # 1
  <2>1. CASE response[c] \in Positive
    <3>1. o \in [sequence : 1..MaxLog]
      BY <1>1, <2>1
    <3> QED
      BY <3>1, FailuresAreNot DEF Certain, Failures
  <2>2. CASE response[c] \in Negative
    BY <2>2 DEF Refused, Responded
  <2>3. CASE response[c] = Garbled
    BY <1>1, <2>3, FailuresAreNot
  <2> QED
    BY <1>1, <2>1, <2>2, <2>3
<1>4. o \in [sequence : 1..MaxLog] =>
        response[c] \in Positive /\ o.sequence = response[c].sequence
  <2>1. CASE response[c] \in Positive
    BY <1>1, <2>1
  <2>2. CASE response[c] \in Negative
    BY <1>1, <2>2, FailuresAreNot DEF Certain, Failures
  <2>3. CASE response[c] = Garbled
    BY <1>1, <2>3, FailuresAreNot
  <2> QED
    BY <1>1, <2>1, <2>2, <2>3
<1>5. /\ pc[c] # "ready" /\ net' \subseteq net /\ losses' \in 0..MaxLosses
      /\ UNCHANGED <<opts, attempts, response, log>>
  BY DEF Responded, PublishIInv, PublishTypes
<1> QED
  BY <1>1, <1>2, <1>3, <1>4, <1>5, SameAttempt

LEMMA GivesUpStep == ASSUME PublishIInv, NEW c \in Publishers, GivesUp(c) PROVE PublishIInv'
<1>1. /\ pc[c] # "ready" /\ net' \subseteq net /\ losses' \in 0..MaxLosses
      /\ UNCHANGED <<opts, attempts, response, log>>
  BY LossesAre DEF GivesUp
<1>2. /\ pc' = [pc EXCEPT ![c] = "done"]
      /\ outcome' = [outcome EXCEPT ![c] = Failure("ResponseError")]
  BY DEF GivesUp, PublishReturns, ResponseFailed
<1>3. Failure("ResponseError") \in Failures
  BY DEF Failures
<1> QED
  BY <1>1, <1>2, <1>3, FailuresAreNot, SameAttempt

LEMMA TriesAgainStep ==
    ASSUME PublishIInv, NEW c \in Publishers, TriesAgain(c)
    PROVE  PublishIInv'
<1>1. /\ pc[c] # "ready" /\ net' \subseteq net /\ losses' \in 0..MaxLosses
      /\ UNCHANGED <<opts, attempts, response, log>>
      /\ attempts[c] < MaxAttempts /\ pc' = [pc EXCEPT ![c] = "ready"]
      /\ outcome[c] \in Doubtful
  BY DEF TriesAgain, PublishIInv, PublishTypes
<1>2. outcome' = [outcome EXCEPT ![c] = outcome[c]]
  BY DEF TriesAgain, PublishIInv, PublishTypes
<1>3. outcome[c] \in Failures /\ outcome[c] \notin Certain
  BY <1>1, FailuresAreNot
<1> QED
  BY <1>1, <1>2, <1>3, SameAttempt

\* The server takes the only request of a first attempt.
LEMMA ServedOnce ==
    ASSUME PublishIInv, NEW q \in net, attempts[q.from] = 1, NEW p \in net \ {q}
    PROVE  p.from # q.from
<1> SUFFICES ASSUME p.from = q.from PROVE p = q
  OBVIOUS
<1>1. \A s \in {p, q} : s.attempt \in 1..attempts[s.from] /\ s = Request(s.from, s.attempt)
  BY DEF PublishIInv, Sent
<1>2. \A n \in 1..1 : n = 1
  OBVIOUS
<1> QED
  BY <1>1, <1>2

\* The server takes a request: it knows the message before it says so, and
\* stores nothing when it says no.
LEMMA ServedInv ==
    ASSUME PublishIInv, NEW q \in net, net' = net \ {q},
           NEW r \in Positive \cup Negative \cup {Garbled}, Answers(q, r),
           UNCHANGED <<opts, pc, attempts, outcome, exists, losses>>,
           log' \in Seq(Entry), Len(log') <= MaxLog,
           IdsAreTheirs', IdsAreUnique', AllAreMeant',
           \A c \in Publishers : c # q.from => Stored(c)' = Stored(c),
           \A c \in Publishers : Found(c) \subseteq Found(c)',
           r \in Positive => r.sequence \in Found(q.from)',
           r \in Negative => log' = log
    PROVE  PublishIInv'
<1> DEFINE d == q.from
<1>1. d \in Publishers /\ q.attempt \in 1..attempts[d]
  BY DEF PublishIInv, Sent
<1>2. PublishTypes
  BY DEF PublishIInv
<1>3. /\ response'[d] \in {response[d], r}
      /\ \A c \in Publishers : c # d => response'[c] = response[c]
      /\ response' \in [Publishers -> {Unset, Garbled} \cup Positive \cup Negative]
  <2>1. CASE response' = response
    BY <1>2, <2>1 DEF PublishTypes
  <2>2. CASE response' = [response EXCEPT ![d] = r]
    BY <1>1, <1>2, <2>2 DEF PublishTypes
  <2> QED
    BY <2>1, <2>2 DEF Answers
<1>4. PublishTypes'
  BY <1>2, <1>3 DEF PublishTypes
<1>5. Sent'
  BY DEF PublishIInv, Sent, Request
<1>6. Untried'
  <2>1. attempts[d] # 0
    BY <1>1
  <2> QED
    BY <2>1 DEF PublishIInv, Untried
<1>7. FirstIsOpen'
  <2> SUFFICES ASSUME NEW p \in net', attempts[p.from] = 1 PROVE Stored(p.from)' = {}
    BY DEF FirstIsOpen
  <2>1. p.from # d
    BY ServedOnce
  <2>2. p.from \in Publishers /\ Stored(p.from) = {}
    BY DEF PublishIInv, Sent, FirstIsOpen
  <2> QED
    BY <2>1, <2>2
<1>8. RefusedLeavesNothing'
  <2> SUFFICES ASSUME NEW c \in Publishers, Refused(c)'
               PROVE  Stored(c)' = {} /\ \A p \in net' : p.from # c
    BY DEF RefusedLeavesNothing
  <2>1. CASE c # d
    <3>1. Refused(c)
      BY <1>3, <2>1 DEF Refused
    <3> QED
      BY <2>1, <3>1 DEF PublishIInv, RefusedLeavesNothing
  <2>2. CASE c = d
    <3>1. ~Refused(d)
      BY <1>1 DEF PublishIInv, RefusedLeavesNothing
    <3>2. attempts[d] = 1 /\ r \in Negative
      BY <1>3, <2>2, <3>1 DEF Refused
    <3>3. Stored(d) = {}
      BY <3>2 DEF PublishIInv, FirstIsOpen
    <3>4. Stored(d)' = Stored(d)
      BY <3>2 DEF Stored
    <3> QED
      BY <2>2, <3>2, <3>3, <3>4, ServedOnce
  <2> QED
    BY <2>1, <2>2
<1>9. Acknowledged'
  <2> SUFFICES ASSUME NEW c \in Publishers
               PROVE  /\ response'[c] \in Positive => response'[c].sequence \in Found(c)'
                      /\ outcome[c] \in [sequence : 1..MaxLog] => outcome[c].sequence \in Found(c)'
    BY DEF Acknowledged
  <2>1. /\ response[c] \in Positive => response[c].sequence \in Found(c)'
        /\ outcome[c] \in [sequence : 1..MaxLog] => outcome[c].sequence \in Found(c)'
    BY DEF PublishIInv, Acknowledged
  <2>2. response'[c] = response[c] \/ (c = d /\ response'[c] = r)
    BY <1>3
  <2> QED
    BY <2>1, <2>2
<1> QED
  BY <1>4, <1>5, <1>6, <1>7, <1>8, <1>9 DEF PublishIInv

\* A message is stored: what was, is, and the new one is meant as it is.
LEMMA AppendInv ==
    ASSUME PublishIInv, NEW q \in net, RightStream(q), Meets(q), Duplicates(q) = {},
           Len(log) < MaxLog, UNCHANGED opts,
           log' = Append(log, [from |-> q.from, subject |-> q.subject,
                               id |-> Header(q, "Nats-Msg-Id")])
    PROVE  /\ log' \in Seq(Entry) /\ Len(log') <= MaxLog
           /\ IdsAreTheirs' /\ IdsAreUnique' /\ AllAreMeant'
           /\ \A c \in Publishers : c # q.from => Stored(c)' = Stored(c)
           /\ \A c \in Publishers : Found(c) \subseteq Found(c)'
           /\ Len(log) + 1 \in Found(q.from)'
<1> DEFINE d == q.from
           o == opts[d]
           n == Len(log)
           e == [from |-> d, subject |-> o.subject, id |-> o.id]
<1>1. d \in Publishers /\ o \in Options /\ q = Request(d, q.attempt)
  BY DEF PublishIInv, Sent, PublishTypes
<1>2. /\ Header(q, "Nats-Expected-Stream") = o.expected_stream
      /\ Header(q, "Nats-Expected-Last-Sequence") = o.last_sequence
      /\ Header(q, "Nats-Expected-Last-Subject-Sequence") = o.last_subject_sequence
      /\ Header(q, "Nats-Expected-Last-Msg-Id") = o.last_id
      /\ Header(q, "Nats-Msg-Id") = o.id
  BY <1>1, HeadersAre
<1>3. q.subject = o.subject
  BY <1>1 DEF Request
<1>4. log' = Append(log, e) /\ e \in Entry /\ log \in Seq(Entry) /\ n \in Nat
  BY <1>1, <1>2, <1>3 DEF PublishIInv, PublishTypes, Entry
<1>5. /\ log' \in Seq(Entry) /\ Len(log') = n + 1
      /\ log'[n + 1] = e
      /\ \A k \in 1..n : log'[k] = log[k]
      /\ DOMAIN log = 1..n /\ DOMAIN log' = 1..(n + 1)
  <2> HIDE DEF e
  <2> QED
    BY <1>4
<1>6. \A k \in DOMAIN log' : k \in 1..n \/ k = n + 1
  BY <1>4, <1>5
<1>7. Len(log') <= MaxLog
  BY <1>4, <1>5, PublishingAssumption
<1>8. n + 1 \notin 1..n
  BY <1>4
<1>9. e.from = d /\ e.subject = o.subject /\ e.id = o.id
  OBVIOUS
<1> HIDE DEF e, n
<1>10. IdsAreTheirs'
  <2> SUFFICES ASSUME NEW k \in DOMAIN log' PROVE log'[k].id = opts[log'[k].from].id
    BY DEF IdsAreTheirs
  <2>1. CASE k \in 1..n
    BY <1>5, <2>1 DEF PublishIInv, IdsAreTheirs
  <2>2. CASE k = n + 1
    BY <1>5, <1>9, <2>2
  <2> QED
    BY <1>6, <2>1, <2>2
<1>11. IdsAreUnique'
  <2>1. ASSUME NEW k \in 1..n PROVE o.id = Unset \/ log[k].id # o.id
    BY <1>2, <1>5, <2>1 DEF Duplicates
  <2> SUFFICES ASSUME NEW j \in DOMAIN log', NEW k \in DOMAIN log',
                      log'[j].id # Unset, log'[j].id = log'[k].id
               PROVE  j = k
    BY DEF IdsAreUnique
  <2>2. CASE j \in 1..n /\ k \in 1..n
    BY <1>5, <2>2 DEF PublishIInv, IdsAreUnique
  <2>3. CASE j = n + 1 /\ k \in 1..n
    BY <1>5, <1>9, <2>1, <2>3
  <2>4. CASE j \in 1..n /\ k = n + 1
    BY <1>5, <1>9, <2>1, <2>4
  <2> QED
    BY <1>6, <2>2, <2>3, <2>4
<1>12. AllAreMeant'
  <2> SUFFICES ASSUME NEW k \in DOMAIN log' PROVE Meant(opts[log'[k].from], log', k)
    BY DEF AllAreMeant, Meant
  <2>1. CASE k \in 1..n
    <3>1. Meant(opts[log[k].from], log, k)
      BY <1>5, <2>1 DEF PublishIInv, AllAreMeant
    <3>2. \A j \in 1..n : log[j] = log'[j]
      BY <1>5
    <3>3. Meant(opts[log[k].from], log', k)
      BY <1>4, <2>1, <3>1, <3>2, MeantOfPrefix DEF n
    <3> QED
      BY <1>5, <2>1, <3>3
  <2>2. CASE k = n + 1
    <3>1. k - 1 = n /\ 1..(k - 1) = 1..n
      BY <1>4, <2>2
    <3>2. o.expected_stream \in {Unset, This} /\ o.last_sequence \in {Unset, n}
      BY <1>2 DEF RightStream, Meets, n
    <3>3. o.last_subject_sequence \in
            {Unset, Max({0} \cup {j \in 1..n : log'[j].subject = log'[k].subject})}
      <4>1. {j \in 1..n : log'[j].subject = log'[k].subject}
                = {j \in DOMAIN log : log[j].subject = q.subject}
        BY <1>3, <1>5, <1>9, <2>2
      <4> QED
        BY <1>2, <4>1 DEF Meets, LastSequenceOf
    <3>4. o.last_id \in {Unset} \cup {log'[j].id : j \in {n} \ {0}}
      <4>1. o.last_id \in {Unset, LastId}
        BY <1>2 DEF Meets
      <4>2. CASE n = 0
        <5>1. LastId = Unset
          BY <1>4, <4>2 DEF LastId, n
        <5> QED
          BY <4>1, <5>1
      <4>3. CASE n # 0
        <5>1. LastId = log[n].id
          BY <1>4, <4>3 DEF LastId, Last, n
        <5>2. n \in 1..n
          BY <1>4, <4>3
        <5> QED
          BY <1>5, <4>1, <4>3, <5>1, <5>2
      <4> QED
        BY <4>2, <4>3
    <3>5. Meant(o, log', k)
      BY <3>1, <3>2, <3>3, <3>4 DEF Meant
    <3> QED
      BY <1>5, <1>9, <2>2, <3>5
  <2> QED
    BY <1>6, <2>1, <2>2
<1>13. \A c \in Publishers : c # d => Stored(c)' = Stored(c)
  <2> SUFFICES ASSUME NEW c \in Publishers, c # d PROVE Stored(c)' = Stored(c)
    OBVIOUS
  <2>1. \A k \in 1..n : k \in Stored(c)' <=> k \in Stored(c)
    BY <1>4, <1>5 DEF Stored
  <2>2. n + 1 \notin Stored(c)'
    BY <1>5, <1>9 DEF Stored
  <2>3. Stored(c) \subseteq 1..n /\ Stored(c)' \subseteq 1..n \cup {n + 1}
    BY <1>5, <1>6 DEF Stored
  <2> QED
    BY <2>1, <2>2, <2>3
<1>14. \A c \in Publishers : Found(c) \subseteq Found(c)'
  <2> SUFFICES ASSUME NEW c \in Publishers, NEW k \in Found(c) PROVE k \in Found(c)'
    OBVIOUS
  <2>1. k \in 1..n /\ k \in 1..(n + 1)
    BY <1>4, <1>5 DEF Found
  <2> QED
    BY <1>5, <2>1 DEF Found
<1>15. n + 1 \in Found(d)'
  BY <1>4, <1>5, <1>9 DEF Found
<1> QED
  BY <1>5, <1>7, <1>10, <1>11, <1>12, <1>13, <1>14, <1>15 DEF n

LEMMA ServeStep == ASSUME PublishIInv, NEW q \in net, Serve(q) PROVE PublishIInv'
<1>1. /\ net' = net \ {q}
      /\ UNCHANGED <<opts, pc, attempts, outcome, exists, losses>>
  BY DEF Serve
<1>2. Len(log) \in Nat /\ Len(log) <= MaxLog /\ DOMAIN log = 1..Len(log)
  BY DEF PublishIInv, PublishTypes
<1>3. q.from \in Publishers /\ q = Request(q.from, q.attempt)
  BY DEF PublishIInv, Sent
\* Nothing is stored.
<1>4. ASSUME NEW r \in Positive \cup Negative \cup {Garbled}, Answers(q, r), UNCHANGED log,
             r \in Positive => r.sequence \in Found(q.from)
      PROVE  PublishIInv'
  <2>1. /\ IdsAreTheirs' /\ IdsAreUnique' /\ AllAreMeant'
        /\ log' \in Seq(Entry) /\ Len(log') <= MaxLog
        /\ \A c \in Publishers : Stored(c)' = Stored(c) /\ Found(c)' = Found(c)
    BY <1>1, <1>4, SameLog
  <2> QED
    BY <1>1, <1>3, <1>4, <2>1, ServedInv
<1>5. ASSUME NEW r \in Negative \cup {Garbled}, Answers(q, r), UNCHANGED log
      PROVE  PublishIInv'
  <2>1. r \notin Positive
    BY FailuresAreNot DEF Positive, Negative
  <2> QED
    BY <1>4, <1>5, <2>1
<1>6. CASE ~exists
  <2>1. PICK k \in {"none", "status"} : AnswersWith(q, [kind |-> k]) /\ UNCHANGED log
    BY <1>6 DEF Serve
  <2>2. [kind |-> k] \in Negative
    BY DEF Negative
  <2> QED
    BY <1>5, <2>1, <2>2 DEF AnswersWith
<1>7. CASE exists /\ RightStream(q) /\ Duplicates(q) # {}
  <2> DEFINE k == Max(Duplicates(q))
  <2>1. AnswersWith(q, Ack(k)) /\ UNCHANGED log
    BY <1>7 DEF Serve
  <2>2. Duplicates(q) \subseteq 1..Len(log)
    BY <1>2 DEF Duplicates
  <2>3. k \in Duplicates(q)
    BY <1>2, <1>7, <2>2, MaxIsOne
  <2> HIDE DEF k
  <2>4. k \in Found(q.from)
    <3>1. Header(q, "Nats-Msg-Id") = opts[q.from].id
      BY <1>3, HeadersAre
    <3> QED
      BY <2>3, <3>1 DEF Duplicates, Found
  <2>5. k \in 1..MaxLog
    BY <1>2, <2>2, <2>3, PublishingAssumption
  <2>6. Ack(k) \in Positive /\ Ack(k).sequence = k
    BY <2>5 DEF Ack, Positive
  <2>7. CASE Answers(q, Ack(k))
    BY <1>4, <2>1, <2>4, <2>6, <2>7
  <2> QED
    BY <1>5, <2>1, <2>7 DEF AnswersWith
<1>8. CASE exists /\ RightStream(q) /\ Duplicates(q) = {} /\ Meets(q) /\ Len(log) < MaxLog
  <2> DEFINE n == Len(log) + 1
  <2>1. /\ log' = Append(log, [from |-> q.from, subject |-> q.subject,
                               id |-> Header(q, "Nats-Msg-Id")])
        /\ AnswersWith(q, Ack(n))
    BY <1>8 DEF Serve
  <2>2. /\ log' \in Seq(Entry) /\ Len(log') <= MaxLog
        /\ IdsAreTheirs' /\ IdsAreUnique' /\ AllAreMeant'
        /\ \A c \in Publishers : c # q.from => Stored(c)' = Stored(c)
        /\ \A c \in Publishers : Found(c) \subseteq Found(c)'
        /\ n \in Found(q.from)'
    BY <1>1, <1>8, <2>1, AppendInv
  <2>3. n \in 1..MaxLog
    BY <1>2, <1>8, PublishingAssumption
  <2> HIDE DEF n
  <2>4. Ack(n) \in Positive /\ Ack(n).sequence = n /\ Ack(n) \notin Negative
    BY <2>3 DEF Ack, Positive, Negative
  <2>5. ASSUME NEW r \in {Ack(n), Garbled}, Answers(q, r) PROVE PublishIInv'
    <3>1. /\ r \in Positive \cup Negative \cup {Garbled} /\ r \notin Negative
          /\ r \in Positive => r.sequence \in Found(q.from)'
      BY <2>2, <2>4, <2>5, FailuresAreNot
    <3> QED
      BY <1>1, <2>2, <2>5, <3>1, ServedInv
  <2> QED
    BY <2>1, <2>5 DEF AnswersWith
<1>9. CASE exists /\ ~(RightStream(q) /\ Duplicates(q) # {})
                  /\ ~(RightStream(q) /\ Meets(q) /\ Len(log) < MaxLog)
  <2>1. AnswersWith(q, Refusal) /\ UNCHANGED log
    BY <1>9 DEF Serve
  <2>2. Refusal \in Negative
    BY DEF Refusal, Negative
  <2> QED
    BY <1>5, <2>1, <2>2 DEF AnswersWith
<1> QED
  BY <1>6, <1>7, <1>8, <1>9

LEMMA PublishNextInv == PublishIInv /\ [PublishNext]_publishVars => PublishIInv'
<1> SUFFICES ASSUME PublishIInv, [PublishNext]_publishVars PROVE PublishIInv'
  OBVIOUS
<1>1. ASSUME NEW c \in Publishers,
             Publish(c) \/ PublishClosed(c) \/ Responded(c) \/ GivesUp(c) \/ TriesAgain(c)
      PROVE  PublishIInv'
  BY <1>1, PublishStep, PublishClosedStep, RespondedStep, GivesUpStep, TriesAgainStep
<1>2. ASSUME NEW q \in net, Serve(q) PROVE PublishIInv'
  BY <1>2, ServeStep
<1>3. CASE UNCHANGED publishVars
  <2>1. /\ UNCHANGED <<opts, pc, attempts, outcome, net, response>>
        /\ UNCHANGED <<exists, log, losses>>
    BY <1>3 DEF publishVars
  <2>2. /\ IdsAreTheirs' /\ IdsAreUnique' /\ AllAreMeant'
        /\ \A c \in Publishers : Stored(c)' = Stored(c) /\ Found(c)' = Found(c)
    BY <2>1, SameLog
  <2>3. PublishTypes'
    BY <2>1 DEF PublishIInv, PublishTypes
  <2>4. Sent' /\ Untried'
    BY <2>1, <2>2 DEF PublishIInv, Sent, Request, Untried
  <2>5. FirstIsOpen'
    BY <2>1, <2>2 DEF PublishIInv, Sent, FirstIsOpen
  <2>6. RefusedLeavesNothing'
    BY <2>1, <2>2 DEF PublishIInv, RefusedLeavesNothing, Refused
  <2>7. Acknowledged'
    BY <2>1, <2>2 DEF PublishIInv, Acknowledged
  <2> QED
    BY <2>2, <2>3, <2>4, <2>5, <2>6, <2>7 DEF PublishIInv
<1> QED
  BY <1>1, <1>2, <1>3 DEF PublishNext

\* do_publish (publish.rs): in every state, whatever is lost, delayed or tried
\* again, a PubAck is of a stored message, a certain error is of one that never
\* will be stored, an id is stored once, and every expectation holds where the
\* message is stored.
THEOREM PublishesAreHonest == PublishSpec => []PublishingInv
<1>1. PublishSpec => []PublishIInv
  BY PublishInitInv, PublishNextInv, PTL DEF PublishSpec
<1> QED
  BY <1>1, PublishImplies, PTL

-----------------------------------------------------------------------------
(***************************************************************************)
(* Listing.  An item keeps its place, its rank, until something is created *)
(* or deleted; what is created only moves the others back, so that all that*)
(* was there and has a rank up to the offset was fetched.                  *)
(***************************************************************************)
\* Ranks are different, and those of the items before are lower.
LEMMA RankIs ==
    ASSUME NEW S, S \subseteq Nat, IsFiniteSet(S)
    PROVE  /\ Cardinality(S) \in Nat
           /\ \A n \in S : Rank(S, n) \in 1..Cardinality(S)
           /\ \A m, n \in S : m < n => Rank(S, m) < Rank(S, n)
           /\ \A m, n \in S : Rank(S, m) = Rank(S, n) => m = n
<1> DEFINE Upto(n) == {m \in S : m <= n}
<1>1. Cardinality(S) \in Nat
  BY FS_CardinalityType
<1>2. ASSUME NEW n \in S
      PROVE  IsFiniteSet(Upto(n)) /\ Rank(S, n) \in 1..Cardinality(S)
  <2>1. Upto(n) \in SUBSET S /\ n \in Upto(n)
    OBVIOUS
  <2> DEFINE T == Upto(n)
  <2> HIDE DEF T
  <2>2. IsFiniteSet(T) /\ Cardinality(T) <= Cardinality(S)
    BY <2>1, FS_Subset DEF T
  <2>3. Cardinality(T) \in Nat /\ Cardinality(T) # 0
    BY <2>1, <2>2, FS_CardinalityType, FS_EmptySet DEF T
  <2> QED
    BY <1>1, <2>2, <2>3 DEF T, Rank
<1>3. ASSUME NEW m \in S, NEW n \in S, m < n PROVE Rank(S, m) < Rank(S, n)
  <2>1. Upto(m) \in SUBSET Upto(n) /\ n \in Upto(n) /\ n \notin Upto(m)
    <3>1. \A x \in S : x \in Nat
      OBVIOUS
    <3>2. \A x \in S : x <= m => x <= n
      BY <1>3, <3>1
    <3>3. ~(n <= m) /\ n <= n
      BY <1>3, <3>1
    <3> QED
      BY <3>2, <3>3
  <2> DEFINE T == Upto(m)
             U == Upto(n)
  <2>2. Rank(S, m) = Cardinality(T) /\ Rank(S, n) = Cardinality(U)
    BY DEF Rank
  <2>3. IsFiniteSet(U) /\ T \in SUBSET U /\ T # U
    BY <1>2, <2>1
  <2>4. Cardinality(T) \in Nat /\ Cardinality(U) \in Nat
    BY <1>2, <2>2
  <2> HIDE DEF T, U
  <2>5. Cardinality(T) <= Cardinality(U) /\ Cardinality(T) # Cardinality(U)
    BY <2>3, FS_Subset
  <2> QED
    BY <2>2, <2>4, <2>5
<1>4. ASSUME NEW m \in S, NEW n \in S, Rank(S, m) = Rank(S, n) PROVE m = n
  <2>1. m < n \/ n < m \/ m = n
    OBVIOUS
  <2>2. Rank(S, m) \in 1..Cardinality(S)
    BY <1>2
  <2>3. Rank(S, m) \in Nat
    BY <1>1, <2>2
  <2>4. ~(Rank(S, m) < Rank(S, n)) /\ ~(Rank(S, n) < Rank(S, m))
    BY <1>4, <2>3
  <2> QED
    BY <1>3, <2>1, <2>4
<1> QED
  BY <1>1, <1>2, <1>3, <1>4

\* Every rank is that of an item, as there are as many ranks as items.
LEMMA RankOnto ==
    ASSUME NEW S, S \subseteq Nat, IsFiniteSet(S), NEW k \in 1..Cardinality(S)
    PROVE  \E n \in S : Rank(S, n) = k
<1> SUFFICES ASSUME \A n \in S : Rank(S, n) # k PROVE FALSE
  OBVIOUS
<1> DEFINE N == Cardinality(S)
           T == (1..N) \ {k}
           f == [n \in S |-> Rank(S, n)]
<1>1. N \in Nat /\ f \in [S -> T]
  BY RankIs
<1>2. IsFiniteSet(1..N) /\ Cardinality(1..N) = N
  <2> HIDE DEF N
  <2>1. 1 \in Int /\ N \in Int
    BY <1>1
  <2>2. IsFiniteSet(1..N) /\ Cardinality(1..N) = IF 1 > N THEN 0 ELSE N - 1 + 1
    BY <2>1, FS_Interval
  <2> QED
    BY <1>1, <2>2
<1>3. IsFiniteSet(T) /\ Cardinality(T) < N
  <2>1. IsFiniteSet(T) /\ Cardinality(T) = Cardinality(1..N) - 1
    BY <1>2, FS_RemoveElement
  <2> QED
    BY <1>1, <1>2, <2>1
<1>4. \E x, y \in S : x # y /\ f[x] = f[y]
  <2> HIDE DEF T, f
  <2> QED
    BY <1>1, <1>3, FS_PigeonHole
<1> QED
  BY <1>4, RankIs

\* InOrder lists the items by their ranks.
LEMMA InOrderIs ==
    ASSUME NEW S, S \subseteq Nat, IsFiniteSet(S)
    PROVE  /\ InOrder(S) \in Seq(S) /\ Len(InOrder(S)) = Cardinality(S)
           /\ \A n \in S : Rank(S, n) \in 1..Cardinality(S) /\ InOrder(S)[Rank(S, n)] = n
<1>1. Cardinality(S) \in Nat
  BY RankIs
<1>2. InOrder(S) \in [1..Cardinality(S) -> S]
  BY RankOnto DEF InOrder
<1>3. ASSUME NEW n \in S
      PROVE  Rank(S, n) \in 1..Cardinality(S) /\ InOrder(S)[Rank(S, n)] = n
  <2>1. Rank(S, n) \in 1..Cardinality(S)
    BY RankIs
  <2>2. (CHOOSE m \in S : Rank(S, m) = Rank(S, n)) = n
    BY RankIs
  <2> QED
    BY <2>1, <2>2 DEF InOrder
<1> QED
  BY <1>1, <1>2, <1>3

\* Among more items the rank is no lower.
LEMMA RankGrows ==
    ASSUME NEW T, T \subseteq Nat, IsFiniteSet(T), NEW S \in SUBSET T, NEW n \in S
    PROVE  Rank(S, n) <= Rank(T, n)
<1> DEFINE A == {m \in S : m <= n}
           B == {m \in T : m <= n}
<1>1. A \in SUBSET B /\ B \in SUBSET T
  OBVIOUS
<1>2. IsFiniteSet(B)
  BY <1>1, FS_Subset
<1>3. Cardinality(A) <= Cardinality(B)
  BY <1>1, <1>2, FS_Subset
<1> QED
  BY <1>3 DEF Rank

\* What was listed before the listing began, and what of it was fetched.
Old == listed \ created
Got == ToSet(yielded) \cup ToSet(buffer)

ListingTypes ==
    /\ which \in {"streams", "consumers"}
    /\ invalid \in BOOLEAN /\ exhausted \in BOOLEAN /\ awake \in BOOLEAN
    /\ errored \in BOOLEAN /\ done \in BOOLEAN /\ parentExists \in BOOLEAN
    /\ offset \in Nat /\ \E k \in 0..offset : offset = k * Limit
    /\ fetch \in {Idle, Failed, Asked(offset)} \cup [state : {"page"}, items : Seq(Items)]
    /\ buffer \in Seq(Items) /\ yielded \in Seq(Items)
    /\ buffer # <<>> => fetch = Idle
    /\ listed \subseteq Items /\ deleted \subseteq Items /\ created \subseteq Items
    /\ changes \in 0..MaxChanges /\ failed \in 0..MaxFailed

Ends ==
    /\ invalid => ~parentExists
    /\ done => exhausted /\ buffer = <<>>

\* What was there and has a rank up to the offset was fetched, and the page
\* has what comes next, or all the rest.
OldIsFetched ==
    parentExists /\ deleted = {} =>
        /\ exhausted => Old \subseteq Got
        /\ ~exhausted => \A n \in Old : Rank(listed, n) <= offset => n \in Got
        /\ ~exhausted /\ fetch.state = "page" =>
                \A n \in Old : Rank(listed, n) <= offset + Limit \/ Len(fetch.items) < Limit
                                => n \in Got \cup ToSet(fetch.items)

\* What was fetched is the beginning of the list, and the page goes on there.
BeginningIsFetched ==
    changes = 0 =>
        LET all == InOrder(listed)
            n == Len(yielded) + Len(buffer)
        IN /\ n <= Len(all)
           /\ \A k \in 1..Len(yielded) : yielded[k] = all[k]
           /\ \A k \in 1..Len(buffer) : buffer[k] = all[Len(yielded) + k]
           /\ ~exhausted => n = offset
           /\ ~exhausted /\ fetch.state = "page" =>
                /\ offset + Len(fetch.items) <= Len(all) /\ Len(fetch.items) <= Limit
                /\ \A k \in 1..Len(fetch.items) : fetch.items[k] = all[offset + k]

ListingIInv == ListingTypes /\ Ends /\ OldIsFetched /\ BeginningIsFetched

LEMMA NextOffsetIsAPage ==
    ASSUME NEW o \in Nat, NEW k \in 0..o, o = k * Limit
    PROVE  \E j \in 0..o + Limit : o + Limit = j * Limit
<1>1. k \in Nat /\ Limit \in Nat /\ Limit >= 1
  BY ListingAssumption
<1>2. (k + 1) * Limit = k * Limit + Limit
  BY <1>1
<1>3. k + 1 \in 0..o + Limit
  BY <1>1
<1> QED
  BY <1>2, <1>3

\* A page has the items of the ranks behind its offset, up to the limit.
LEMMA PageIs ==
    ASSUME listed \subseteq Items, NEW o \in Nat
    PROVE  LET p == PageAt(o)
               all == InOrder(listed)
           IN /\ p \in Seq(Items) /\ Len(p) <= Limit
              /\ o <= Len(all) => o + Len(p) <= Len(all)
              /\ \A k \in 1..Len(p) : p[k] = all[o + k]
              /\ \A n \in listed :
                    Rank(listed, n) > o /\ (Rank(listed, n) <= o + Limit \/ Len(p) < Limit)
                        => n \in ToSet(p)
<1> DEFINE p == PageAt(o)
           all == InOrder(listed)
           m == IF o + Limit < Len(all) THEN o + Limit ELSE Len(all)
<1>1. listed \subseteq Nat /\ IsFiniteSet(listed)
  BY ListingAssumption, FS_Subset
<1>2. /\ all \in Seq(listed) /\ Len(all) = Cardinality(listed)
      /\ \A n \in listed : Rank(listed, n) \in 1..Cardinality(listed)
                           /\ all[Rank(listed, n)] = n
  BY <1>1, InOrderIs
<1>3. p = SubSeq(all, o + 1, m)
  BY DEF PageAt
<1> HIDE DEF p, all
<1>4. Len(all) \in Nat
  BY <1>2
<1>5. m \in Nat /\ m <= Len(all) /\ m <= o + Limit
      /\ (m = o + Limit \/ m = Len(all)) /\ (o <= Len(all) => o <= m)
  BY <1>4, ListingAssumption
<1> HIDE DEF m
<1>6. /\ p \in Seq(listed)
      /\ Len(p) = IF o + 1 <= m THEN m - o ELSE 0
      /\ \A k \in 1..Len(p) : p[k] = all[o + k]
  <2> DEFINE first == o + 1
  <2>1. first \in Nat /\ first >= 1 /\ all \in Seq(listed)
    BY <1>2
  <2>2. p = SubSeq(all, first, m)
    BY <1>3
  <2> HIDE DEF first
  <2>3. \A k \in first..m : k \in 1..Len(all)
    BY <1>4, <1>5, <2>1
  <2>4. /\ p \in Seq(listed)
        /\ Len(p) = IF first <= m THEN m - first + 1 ELSE 0
        /\ \A k \in 1..Len(p) : p[k] = all[first + k - 1]
    BY <1>4, <1>5, <2>1, <2>2, <2>3
  <2>5. \A k \in Nat : first + k - 1 = o + k
    BY DEF first
  <2>6. (IF first <= m THEN m - first + 1 ELSE 0) = (IF o + 1 <= m THEN m - o ELSE 0)
    BY <1>5 DEF first
  <2>7. Len(p) = IF o + 1 <= m THEN m - o ELSE 0
    BY <2>4, <2>6
  <2>8. Len(p) \in Nat
    BY <2>4
  <2>9. ASSUME NEW k \in 1..Len(p)
        PROVE  p[k] = all[o + k]
    <3>1. k \in Nat
      BY <2>8
    <3>2. first + k - 1 = o + k
      BY <2>5, <3>1
    <3>3. p[k] = all[first + k - 1]
      BY <2>4
    <3> QED
      BY <3>2, <3>3
  <2> QED
    BY <2>4, <2>7, <2>9
<1>7. Len(p) <= Limit /\ (o <= Len(all) => o + Len(p) <= Len(all))
  BY <1>4, <1>5, <1>6, ListingAssumption
<1>8. ASSUME NEW n \in listed, Rank(listed, n) > o,
             Rank(listed, n) <= o + Limit \/ Len(p) < Limit
      PROVE  n \in ToSet(p)
  <2> DEFINE r == Rank(listed, n)
  <2>1. r \in 1..Len(all) /\ all[r] = n /\ r > o
    BY <1>2, <1>8
  <2>2. r <= o + Limit \/ Len(p) < Limit
    BY <1>8
  <2> HIDE DEF r
  <2>3. r <= m
    BY <1>4, <1>5, <1>6, <2>1, <2>2, ListingAssumption
  <2>4. r - o \in 1..Len(p) /\ o + (r - o) = r
    BY <1>4, <1>5, <1>6, <2>1, <2>3
  <2>5. p[r - o] = n
    BY <1>6, <2>1, <2>4
  <2>6. DOMAIN p = 1..Len(p)
    BY <1>6
  <2> QED
    BY <2>4, <2>5, <2>6 DEF ToSet
<1>9. p \in Seq(Items)
  <2>1. Seq(listed) \subseteq Seq(Items)
    OBVIOUS
  <2> QED
    BY <1>6, <2>1
<1> QED
  BY <1>6, <1>7, <1>8, <1>9 DEF p, all

LEMMA ListingImplies == ListingIInv => ListingInv
<1> SUFFICES ASSUME ListingIInv PROVE ListingInv
  OBVIOUS
<1> USE DEF ListingIInv, ListingTypes
<1>1. ListingTypeOK
  <2>1. fetch \in {Idle, Failed, Asked(offset)} \/ (fetch.state = "page" /\ fetch.items \in Seq(Items))
    OBVIOUS
  <2>2. {invalid, exhausted, awake, errored, done, parentExists} \subseteq BOOLEAN
    OBVIOUS
  <2> QED
    BY <2>1, <2>2 DEF ListingTypeOK
<1>2. ListsInOrder
  <2> SUFFICES ASSUME changes = 0 PROVE IsPrefix(yielded, InOrder(listed))
    BY DEF ListsInOrder
  <2> DEFINE all == InOrder(listed)
             n == Len(yielded)
  <2>1. all \in Seq(listed)
    <3>1. listed \subseteq Nat /\ IsFiniteSet(listed)
      BY ListingAssumption, FS_Subset
    <3> QED
      BY <3>1, InOrderIs
  <2>2. n <= Len(all) /\ \A k \in 1..n : yielded[k] = all[k]
    <3>1. n + Len(buffer) <= Len(all) /\ \A k \in 1..n : yielded[k] = all[k]
      BY DEF BeginningIsFetched
    <3>2. Len(buffer) \in Nat /\ n \in Nat /\ Len(all) \in Nat
      BY <2>1
    <3> QED
      BY <3>1, <3>2
  <2> HIDE DEF all
  <2>3. n \in Nat /\ Len(all) \in Nat
    BY <2>1
  <2>4. /\ SubSeq(yielded, 1, n) \in Seq(Items) /\ Len(SubSeq(yielded, 1, n)) = n
        /\ \A k \in 1..n : SubSeq(yielded, 1, n)[k] = yielded[k]
    BY <2>3
  <2>5. /\ SubSeq(all, 1, n) \in Seq(listed) /\ Len(SubSeq(all, 1, n)) = n
        /\ \A k \in 1..n : SubSeq(all, 1, n)[k] = all[k]
    BY <2>1, <2>2, <2>3
  <2>6. SubSeq(yielded, 1, n) = SubSeq(all, 1, n)
    BY <2>2, <2>4, <2>5
  <2> QED
    BY <2>2, <2>6 DEF IsPrefix, all
<1>3. NothingIsMissed
  <2> SUFFICES ASSUME done, parentExists, deleted = {}
               PROVE  listed \ created \subseteq ToSet(yielded)
    BY DEF NothingIsMissed
  <2>1. exhausted /\ buffer = <<>>
    BY DEF Ends
  <2>2. ToSet(buffer) = {}
    BY <2>1 DEF ToSet
  <2> QED
    BY <2>1, <2>2 DEF OldIsFetched, Old, Got
<1> QED
  BY <1>1, <1>2, <1>3 DEF ListingInv

LEMMA ListingInitInv == ListingInit => ListingIInv
<1> SUFFICES ASSUME ListingInit PROVE ListingIInv
  OBVIOUS
<1> USE DEF ListingInit
<1>1. ListingTypes
  <2>1. 0 \in 0..0 /\ 0 = 0 * Limit
    BY ListingAssumption
  <2>2. 0 \in 0..MaxChanges /\ 0 \in 0..MaxFailed
    BY ListingAssumption
  <2>3. buffer \in Seq(Items) /\ yielded \in Seq(Items)
    OBVIOUS
  <2> QED
    BY <2>1, <2>2, <2>3 DEF ListingTypes
<1>2. Ends
  BY DEF Ends
<1>3. listed \subseteq Nat /\ IsFiniteSet(listed)
  BY ListingAssumption, FS_Subset
<1>4. OldIsFetched
  <2>1. \A n \in listed : ~(Rank(listed, n) <= 0)
    <3>1. Cardinality(listed) \in Nat /\ \A n \in listed : Rank(listed, n) \in 1..Cardinality(listed)
      BY <1>3, RankIs
    <3> QED
      BY <3>1
  <2> QED
    BY <2>1 DEF OldIsFetched, Old, Idle
<1>5. BeginningIsFetched
  <2>1. Len(InOrder(listed)) \in Nat
    BY <1>3, InOrderIs
  <2> QED
    BY <2>1 DEF BeginningIsFetched, Idle
<1> QED
  BY <1>1, <1>2, <1>4, <1>5 DEF ListingIInv

\* A step in which nothing is fetched or yielded.
LEMMA SameFetched ==
    ASSUME ListingIInv,
           UNCHANGED <<offset, buffer, exhausted, yielded, parentExists, listed, created,
                       deleted, changes>>,
           fetch'.state = "page" => fetch' = fetch
    PROVE  OldIsFetched' /\ BeginningIsFetched'
<1>1. OldIsFetched'
  BY DEF ListingIInv, OldIsFetched, Old, Got
<1>2. BeginningIsFetched'
  BY DEF ListingIInv, BeginningIsFetched
<1> QED
  BY <1>1, <1>2

LEMMA PollInvalidStep == ASSUME ListingIInv, PollInvalid PROVE ListingIInv'
<1> USE DEF PollInvalid, server
<1>1. ListingTypes'
  BY DEF ListingIInv, ListingTypes
<1>2. Ends'
  BY DEF ListingIInv, Ends, Polled
<1>3. OldIsFetched'
  BY DEF ListingIInv, Ends, OldIsFetched
<1>4. BeginningIsFetched'
  BY DEF ListingIInv, BeginningIsFetched
<1> QED
  BY <1>1, <1>2, <1>3, <1>4 DEF ListingIInv

LEMMA PollItemStep == ASSUME ListingIInv, PollItem PROVE ListingIInv'
<1> DEFINE y == Len(yielded)
           b == Len(buffer)
           head == Head(buffer)
<1>1. buffer \in Seq(Items) /\ buffer # <<>> /\ yielded \in Seq(Items) /\ fetch = Idle
  BY DEF ListingIInv, ListingTypes, PollItem
<1>2. /\ yielded' \in Seq(Items) /\ buffer' \in Seq(Items)
      /\ y \in Nat /\ b \in Nat /\ b >= 1
      /\ Len(yielded') = y + 1 /\ Len(buffer') = b - 1
      /\ yielded'[y + 1] = buffer[1] /\ \A k \in 1..y : yielded'[k] = yielded[k]
      /\ \A k \in 1..(b - 1) : buffer'[k] = buffer[k + 1]
  <2>1. head \in Items /\ head = buffer[1]
    BY <1>1
  <2>2. yielded' = Append(yielded, head) /\ buffer' = Tail(buffer)
    BY DEF PollItem
  <2> HIDE DEF head
  <2> QED
    BY <1>1, <2>1, <2>2
<1>3. /\ UNCHANGED <<which, invalid, offset, fetch, exhausted, awake, errored, done>>
      /\ UNCHANGED <<parentExists, listed, created, deleted, changes, failed>>
  BY DEF PollItem, server
<1>4. ListingTypes'
  BY <1>1, <1>2, <1>3 DEF ListingIInv, ListingTypes
<1>5. Ends'
  BY <1>3 DEF ListingIInv, Ends, PollItem, Polled
<1>6. OldIsFetched'
  <2>1. Got \subseteq Got'
    <3> SUFFICES ASSUME NEW n \in Got PROVE n \in Got'
      OBVIOUS
    <3>1. /\ DOMAIN yielded = 1..y /\ DOMAIN buffer = 1..b
          /\ DOMAIN yielded' = 1..(y + 1) /\ DOMAIN buffer' = 1..(b - 1)
      BY <1>1, <1>2
    <3>2. CASE n \in ToSet(yielded)
      <4>1. PICK k \in 1..y : n = yielded[k]
        BY <3>1, <3>2 DEF ToSet
      <4>2. k \in 1..(y + 1) /\ n = yielded'[k]
        BY <1>2, <4>1
      <4> QED
        BY <3>1, <4>2 DEF Got, ToSet
    <3>3. CASE n \in ToSet(buffer)
      <4>1. PICK k \in 1..b : n = buffer[k]
        BY <3>1, <3>3 DEF ToSet
      <4>2. CASE k = 1
        <5>1. y + 1 \in 1..(y + 1) /\ n = yielded'[y + 1]
          BY <1>2, <4>1, <4>2
        <5> QED
          BY <3>1, <5>1 DEF Got, ToSet
      <4>3. CASE k # 1
        <5>1. k - 1 \in 1..(b - 1) /\ (k - 1) + 1 = k
          BY <1>2, <4>1, <4>3
        <5>2. n = buffer'[k - 1]
          BY <1>2, <4>1, <5>1
        <5> QED
          BY <3>1, <5>1, <5>2 DEF Got, ToSet
      <4> QED
        BY <4>2, <4>3
    <3> QED
      BY <3>2, <3>3 DEF Got
  <2>2. fetch.state # "page"
    BY <1>1 DEF Idle
  <2>3. OldIsFetched
    BY DEF ListingIInv
  <2> QED
    BY <1>3, <2>1, <2>2, <2>3 DEF OldIsFetched, Old
<1>7. BeginningIsFetched'
  <2> SUFFICES ASSUME changes = 0 PROVE BeginningIsFetched'
    BY <1>3 DEF BeginningIsFetched
  <2> DEFINE all == InOrder(listed)
  <2>1. /\ y + b <= Len(all)
        /\ \A k \in 1..y : yielded[k] = all[k]
        /\ \A k \in 1..b : buffer[k] = all[y + k]
        /\ ~exhausted => y + b = offset
    BY DEF ListingIInv, BeginningIsFetched
  <2>2. fetch'.state # "page" /\ all' = all
    BY <1>1, <1>3 DEF Idle
  <2> HIDE DEF all, y, b
  <2>3. Len(yielded') + Len(buffer') = y + b
    BY <1>2
  <2>4. ASSUME NEW k \in 1..Len(yielded') PROVE yielded'[k] = all[k]
    <3>1. CASE k \in 1..y
      BY <1>2, <2>1, <3>1
    <3>2. CASE k = y + 1
      BY <1>2, <2>1, <3>2
    <3> QED
      BY <1>2, <3>1, <3>2
  <2>5. ASSUME NEW k \in 1..Len(buffer') PROVE buffer'[k] = all[Len(yielded') + k]
    <3>1. k + 1 \in 1..b /\ y + (k + 1) = (y + 1) + k /\ k \in 1..(b - 1)
      BY <1>2
    <3> QED
      BY <1>2, <2>1, <3>1
  <2> QED
    BY <1>3, <2>1, <2>2, <2>3, <2>4, <2>5 DEF BeginningIsFetched, all
<1> QED
  BY <1>4, <1>5, <1>6, <1>7 DEF ListingIInv

LEMMA PollEndStep == ASSUME ListingIInv, PollEnd PROVE ListingIInv'
<1> USE DEF PollEnd, server
<1>1. ListingTypes' /\ Ends'
  BY DEF ListingIInv, ListingTypes, Ends
<1> QED
  BY <1>1, SameFetched DEF ListingIInv

LEMMA PollFetchStep == ASSUME ListingIInv, PollFetch PROVE ListingIInv'
<1> USE DEF PollFetch, Fetches, server, results
<1>1. ListingTypes' /\ Ends'
  BY DEF ListingIInv, ListingTypes, Ends
<1> QED
  BY <1>1, SameFetched DEF ListingIInv, Asked

LEMMA PollErrorStep == ASSUME ListingIInv, PollError PROVE ListingIInv'
<1> USE DEF PollError, Fetches, AfterError, server
<1>1. ListingTypes' /\ Ends'
  BY DEF ListingIInv, ListingTypes, Ends
<1> QED
  BY <1>1, SameFetched DEF ListingIInv, Idle

LEMMA FetchFailsStep == ASSUME ListingIInv, FetchFails PROVE ListingIInv'
<1> USE DEF FetchFails, Outcome, results
<1>1. ListingTypes'
  <2>1. failed' \in 0..MaxFailed
    BY ListingAssumption DEF ListingIInv, ListingTypes
  <2>2. buffer = <<>>
    BY DEF ListingIInv, ListingTypes, Idle
  <2> QED
    BY <2>1, <2>2 DEF ListingIInv, ListingTypes
<1>2. Ends'
  BY DEF ListingIInv, Ends
<1> QED
  BY <1>1, <1>2, SameFetched DEF ListingIInv, Failed

LEMMA PollPageStep == ASSUME ListingIInv, PollPage PROVE ListingIInv'
<1> DEFINE items == fetch.items
           y == Len(yielded)
           l == Len(items)
<1>1. fetch.state = "page" /\ buffer = <<>> /\ ~exhausted /\ ~done /\ ~invalid
  BY DEF PollPage, Fetches, Polled
<1>2. items \in Seq(Items) /\ yielded \in Seq(Items) /\ l \in Nat /\ y \in Nat
  BY <1>1 DEF ListingIInv, ListingTypes, Idle, Failed, Asked
<1>3. /\ fetch' = Idle /\ buffer' = items /\ exhausted' = (l < Limit) /\ awake' = TRUE
      /\ UNCHANGED <<which, invalid, yielded, errored, done>>
      /\ UNCHANGED <<parentExists, listed, created, deleted, changes, failed>>
  BY DEF PollPage, IsLast, StaysAwake, results, server
<1>4. offset \in Nat /\ offset' = IF l < Limit THEN offset ELSE offset + Limit
  <2>1. l >= Limit => items # <<>>
    BY <1>2, ListingAssumption
  <2> QED
    BY <1>2, <2>1, ListingAssumption DEF PollPage, IsLast, NextOffset, ListingIInv, ListingTypes
<1>5. ListingTypes'
  <2>1. offset' \in Nat /\ \E k \in 0..offset' : offset' = k * Limit
    <3>1. PICK k \in 0..offset : offset = k * Limit
      BY DEF ListingIInv, ListingTypes
    <3>2. \E j \in 0..offset + Limit : offset + Limit = j * Limit
      BY <1>4, <3>1, NextOffsetIsAPage
    <3>3. offset + Limit \in Nat
      BY <1>4, ListingAssumption
    <3> QED
      BY <1>4, <3>1, <3>2, <3>3
  <2>2. exhausted' \in BOOLEAN
    BY <1>3
  <2> QED
    BY <1>2, <1>3, <2>1, <2>2 DEF ListingIInv, ListingTypes
<1>6. Ends'
  BY <1>1, <1>3 DEF ListingIInv, Ends
<1>7. OldIsFetched'
  <2> SUFFICES ASSUME parentExists, deleted = {}
               PROVE  /\ exhausted' => Old \subseteq Got'
                      /\ ~exhausted' => \A n \in Old : Rank(listed, n) <= offset' => n \in Got'
    BY <1>3 DEF OldIsFetched, Old, Idle
  <2>1. Got' = Got \cup ToSet(items)
    BY <1>1, <1>3 DEF Got, ToSet
  <2>2. \A n \in Old : Rank(listed, n) <= offset + Limit \/ l < Limit => n \in Got \cup ToSet(items)
    BY <1>1 DEF ListingIInv, OldIsFetched
  <2> QED
    BY <1>3, <1>4, <2>1, <2>2
<1>8. BeginningIsFetched'
  <2> SUFFICES ASSUME changes = 0 PROVE BeginningIsFetched'
    BY <1>3 DEF BeginningIsFetched
  <2> DEFINE all == InOrder(listed)
  <2>1. /\ \A k \in 1..y : yielded[k] = all[k]
        /\ y = offset
        /\ offset + l <= Len(all) /\ l <= Limit
        /\ \A k \in 1..l : items[k] = all[offset + k]
    <3>1. Len(buffer) = 0
      BY <1>1
    <3> QED
      BY <1>1, <1>2, <3>1 DEF ListingIInv, BeginningIsFetched
  <2>2. ASSUME ~exhausted' PROVE y + l = offset'
    <3>1. ~(l < Limit)
      BY <1>3, <2>2
    <3>2. l = Limit /\ offset' = offset + Limit
      BY <1>2, <1>4, <2>1, <3>1, ListingAssumption
    <3> QED
      BY <2>1, <3>2
  <2> QED
    BY <1>3, <2>1, <2>2 DEF BeginningIsFetched, Idle
<1> QED
  BY <1>5, <1>6, <1>7, <1>8 DEF ListingIInv

LEMMA AnswerPageStep == ASSUME ListingIInv, AnswerPage PROVE ListingIInv'
<1>1. /\ UNCHANGED <<which, invalid, offset, buffer, exhausted, yielded, errored, done>>
      /\ UNCHANGED <<parentExists, listed, created, deleted, changes, failed>>
      /\ awake' = TRUE /\ fetch.state = "asked"
  BY DEF AnswerPage, Outcome, results
<1>2. /\ fetch = Asked(offset) /\ buffer = <<>>
      /\ offset \in Nat /\ listed \subseteq Items /\ yielded \in Seq(Items)
  <2>1. fetch = Asked(offset)
    BY <1>1 DEF ListingIInv, ListingTypes, Idle, Failed
  <2> QED
    BY <2>1 DEF ListingIInv, ListingTypes, Idle, Asked
<1>3. Ends'
  BY <1>1 DEF ListingIInv, Ends
<1>4. CASE ~parentExists
  <2>1. fetch' = Failed
    BY <1>4 DEF AnswerPage, Outcome
  <2>2. ListingTypes'
    BY <1>1, <1>2, <2>1 DEF ListingIInv, ListingTypes
  <2> QED
    BY <1>1, <1>3, <2>1, <2>2, SameFetched DEF ListingIInv, Failed
<1>5. CASE parentExists
  <2> DEFINE p == PageAt(offset)
             all == InOrder(listed)
  <2>1. fetch' = Page(p)
    BY <1>2, <1>5 DEF AnswerPage, Outcome, Asked
  <2>2. /\ p \in Seq(Items) /\ Len(p) <= Limit
        /\ offset <= Len(all) => offset + Len(p) <= Len(all)
        /\ \A k \in 1..Len(p) : p[k] = all[offset + k]
        /\ \A n \in listed :
              Rank(listed, n) > offset /\ (Rank(listed, n) <= offset + Limit \/ Len(p) < Limit)
                => n \in ToSet(p)
    BY <1>2, PageIs
  <2> HIDE DEF p
  <2>3. fetch'.state = "page" /\ fetch'.items = p
        /\ fetch' \in [state : {"page"}, items : Seq(Items)]
    BY <2>1, <2>2 DEF Page
  <2>4. ListingTypes'
    BY <1>1, <1>2, <2>3 DEF ListingIInv, ListingTypes
  <2>5. OldIsFetched'
    <3> SUFFICES ASSUME deleted = {}, ~exhausted, NEW n \in Old,
                        Rank(listed, n) <= offset + Limit \/ Len(p) < Limit
                 PROVE  n \in Got \cup ToSet(p)
      <4>1. /\ exhausted /\ parentExists /\ deleted = {} => Old \subseteq Got
            /\ ~exhausted /\ parentExists /\ deleted = {} =>
                    \A n \in Old : Rank(listed, n) <= offset => n \in Got
        BY DEF ListingIInv, OldIsFetched
      <4>2. Got' = Got /\ Old' = Old
        BY <1>1 DEF Got, Old
      <4> QED
        BY <1>1, <2>3, <4>1, <4>2 DEF OldIsFetched
    <3>1. Rank(listed, n) <= offset => n \in Got
      BY <1>5 DEF ListingIInv, OldIsFetched
    <3>2. n \in listed /\ Rank(listed, n) \in Nat
      <4>1. listed \subseteq Nat /\ IsFiniteSet(listed)
        BY <1>2, ListingAssumption, FS_Subset
      <4>2. n \in listed
        BY DEF Old
      <4>3. Cardinality(listed) \in Nat /\ Rank(listed, n) \in 1..Cardinality(listed)
        BY <4>1, <4>2, RankIs
      <4> QED
        BY <4>2, <4>3
    <3> QED
      BY <1>2, <2>2, <3>1, <3>2
  <2>6. BeginningIsFetched'
    <3> SUFFICES ASSUME changes = 0 PROVE BeginningIsFetched'
      BY <1>1 DEF BeginningIsFetched
    <3>1. /\ Len(yielded) + Len(buffer) <= Len(all)
          /\ \A k \in 1..Len(yielded) : yielded[k] = all[k]
          /\ \A k \in 1..Len(buffer) : buffer[k] = all[Len(yielded) + k]
          /\ ~exhausted => Len(yielded) + Len(buffer) = offset
      BY DEF ListingIInv, BeginningIsFetched
    <3>2. ~exhausted => offset <= Len(all)
      BY <3>1
    <3> QED
      BY <1>1, <2>2, <2>3, <3>1, <3>2 DEF BeginningIsFetched
  <2> QED
    BY <1>3, <2>4, <2>5, <2>6 DEF ListingIInv
<1> QED
  BY <1>4, <1>5

LEMMA ChangeTypes ==
    ASSUME ListingIInv, Change, listed' \subseteq Items, created' \subseteq Items,
           deleted' \subseteq Items
    PROVE  ListingTypes' /\ Ends' /\ BeginningIsFetched'
<1> USE DEF Change, listing, results
<1>1. changes' \in 0..MaxChanges /\ changes' # 0
  BY ListingAssumption DEF ListingIInv, ListingTypes
<1>2. ListingTypes'
  BY <1>1 DEF ListingIInv, ListingTypes
<1>3. Ends'
  BY DEF ListingIInv, Ends
<1> QED
  BY <1>1, <1>2, <1>3 DEF BeginningIsFetched

LEMMA CreateStep == ASSUME ListingIInv, Create PROVE ListingIInv'
<1>1. PICK m \in Items \ listed :
        /\ Change /\ UNCHANGED deleted
        /\ listed' = listed \cup {m} /\ created' = created \cup {m}
  BY DEF Create
<1>2. listed' \subseteq Items /\ created' \subseteq Items /\ deleted' \subseteq Items
  BY <1>1 DEF ListingIInv, ListingTypes
<1>3. ListingTypes' /\ Ends' /\ BeginningIsFetched'
  BY <1>1, <1>2, ChangeTypes
<1>4. OldIsFetched'
  <2>1. UNCHANGED <<offset, fetch, buffer, exhausted, yielded, parentExists, deleted>>
    BY <1>1 DEF Change, listing, results
  <2>2. Old' \subseteq Old /\ Got' = Got
    BY <1>1, <2>1 DEF Old, Got
  <2>3. ASSUME NEW n \in Old'
        PROVE  \A o \in Nat : Rank(listed', n) <= o => Rank(listed, n) <= o
    <3>1. n \in listed /\ listed \in SUBSET listed'
      BY <1>1, <2>2 DEF Old
    <3>2. /\ listed' \subseteq Nat /\ IsFiniteSet(listed')
          /\ listed \subseteq Nat /\ IsFiniteSet(listed)
      BY <1>2, <3>1, ListingAssumption, FS_Subset
    <3> DEFINE s == Rank(listed, n)
               t == Rank(listed', n)
    <3>3. s <= t
      BY <3>1, <3>2, RankGrows
    <3>4. s \in Nat /\ t \in Nat
      <4>1. s \in 1..Cardinality(listed) /\ Cardinality(listed) \in Nat
        BY <3>1, <3>2, RankIs
      <4>2. t \in 1..Cardinality(listed') /\ Cardinality(listed') \in Nat
        BY <3>1, <3>2, RankIs
      <4> QED
        BY <4>1, <4>2
    <3> HIDE DEF s, t
    <3>5. \A o \in Nat : t <= o => s <= o
      BY <3>3, <3>4
    <3> QED
      BY <3>5 DEF s, t
  <2>4. offset \in Nat /\ offset + Limit \in Nat
    BY ListingAssumption DEF ListingIInv, ListingTypes
  <2>5. OldIsFetched
    BY DEF ListingIInv
  <2> SUFFICES ASSUME parentExists, deleted = {}
               PROVE  /\ exhausted => Old' \subseteq Got
                      /\ ~exhausted => \A n \in Old' : Rank(listed', n) <= offset => n \in Got
                      /\ ~exhausted /\ fetch.state = "page" =>
                            \A n \in Old' : Rank(listed', n) <= offset + Limit
                                             \/ Len(fetch.items) < Limit
                                    => n \in Got \cup ToSet(fetch.items)
    BY <2>1, <2>2 DEF OldIsFetched
  <2> QED
    BY <2>2, <2>3, <2>4, <2>5 DEF OldIsFetched
<1> QED
  BY <1>3, <1>4 DEF ListingIInv

LEMMA DeleteStep == ASSUME ListingIInv, Delete PROVE ListingIInv'
<1>1. PICK m \in listed :
        /\ Change /\ UNCHANGED created
        /\ listed' = listed \ {m} /\ deleted' = deleted \cup {m}
  BY DEF Delete
<1>2. listed' \subseteq Items /\ created' \subseteq Items /\ deleted' \subseteq Items
  BY <1>1 DEF ListingIInv, ListingTypes
<1>3. ListingTypes' /\ Ends' /\ BeginningIsFetched'
  BY <1>1, <1>2, ChangeTypes
<1>4. OldIsFetched'
  BY <1>1 DEF OldIsFetched
<1> QED
  BY <1>3, <1>4 DEF ListingIInv

LEMMA ListingNextInv == ListingIInv /\ [ListingNext]_listingVars => ListingIInv'
<1> SUFFICES ASSUME ListingIInv, [ListingNext]_listingVars PROVE ListingIInv'
  OBVIOUS
<1>1. CASE Poll
  BY <1>1, PollInvalidStep, PollItemStep, PollEndStep, PollFetchStep, PollPageStep,
     PollErrorStep DEF Poll
<1>2. CASE UNCHANGED listingVars
  <2>1. /\ UNCHANGED <<which, invalid, offset, fetch, buffer, exhausted, awake, yielded,
                       errored, done>>
        /\ UNCHANGED <<parentExists, listed, created, deleted, changes, failed>>
    BY <1>2 DEF listingVars, listing, results, server
  <2>2. ListingTypes' /\ Ends'
    BY <2>1 DEF ListingIInv, ListingTypes, Ends
  <2> QED
    BY <2>1, <2>2, SameFetched DEF ListingIInv
<1> QED
  BY <1>1, <1>2, AnswerPageStep, FetchFailsStep, CreateStep, DeleteStep DEF ListingNext

\* Consumers and Streams (consumer_list.rs, stream_list.rs): whatever is created
\* or deleted meanwhile and whatever requests fail, a list is in order and each
\* item in it once as long as nothing changes, and it ends with all that was
\* there from its first page to its last.
THEOREM ListsAreComplete == ListingSpec => []ListingInv
<1>1. ListingSpec => []ListingIInv
  BY ListingInitInv, ListingNextInv, PTL DEF ListingSpec
<1> QED
  BY <1>1, ListingImplies, PTL

-----------------------------------------------------------------------------
(***************************************************************************)
(* Resources.  An object is the union of its parts, which share no field:  *)
(* what a part says of a field, the object says.  So each field is read as *)
(* it was written, and the fields make up the configuration again.         *)
(***************************************************************************)
\* A field that an object has, with one value, and one that it has not.
Sole(j, n, v) == <<n, v>> \in j /\ \A field \in j : field[1] = n => field[2] = v
Lacks(j, n) == \A field \in j : field[1] # n

LEMMA FieldIs ==
    ASSUME NEW j, NEW n, NEW v, Sole(j, n, v)
    PROVE  /\ n \in FieldNames(j)
           /\ ValueOf(j, n) = v
           /\ \A default : Get(j, n, default) = v
<1>1. <<n, v>> \in j /\ <<n, v>>[1] = n
  BY DEF Sole
<1>2. n \in FieldNames(j)
  BY <1>1 DEF FieldNames
<1>3. ValueOf(j, n) = v
  BY <1>1 DEF ValueOf, Sole
<1> QED
  BY <1>2, <1>3 DEF Get

LEMMA FieldIsNot ==
    ASSUME NEW j, NEW n, Lacks(j, n)
    PROVE  /\ n \notin FieldNames(j)
           /\ \A default : Get(j, n, default) = default
BY DEF FieldNames, Get, Lacks

LEMMA StreamFields ==
    ASSUME NEW c
    PROVE  LET j == StreamToJson(c) IN
           /\ Sole(j, "name", c.name)
           /\ Sole(j, "subjects", c.subjects)
           /\ Sole(j, "max_msgs", ToSigned(c.max_messages))
           /\ Sole(j, "max_age", c.max_age)
           /\ Sole(j, "compression", IF c.compression = Absent THEN "none" ELSE c.compression)
           /\ Sole(j, "sealed", c.sealed)
           /\ Sole(j, "deny_delete", Opposite(c.allow_delete))
           /\ Sole(j, "deny_purge", Opposite(c.allow_purge))
BY DEF StreamToJson, Field, Sole

\* The only duration of a stream.
LEMMA StreamDurations ==
    ASSUME NEW c, NEW n, IsStream
    PROVE  DurationsUpTo(StreamToJson(c), n) <=> c.max_age <= n
<1>1. ValueOf(StreamToJson(c), "max_age") = c.max_age /\ "max_age" \in FieldNames(StreamToJson(c))
  BY StreamFields, FieldIs
<1> QED
  BY <1>1 DEF DurationsUpTo, DurationFields

LEMMA StreamReadsBack ==
    ASSUME NEW c \in StreamConfigs, IsStream, c.max_age <= MaxNanos
    PROVE  LET j == StreamToJson(c) IN StreamReads(j) /\ StreamFromJson(j) = c
<1> DEFINE j == StreamToJson(c)
<1>1. /\ ValueOf(j, "name") = c.name
      /\ ValueOf(j, "subjects") = c.subjects
      /\ ValueOf(j, "max_msgs") = ToSigned(c.max_messages)
      /\ ValueOf(j, "max_age") = c.max_age
      /\ ValueOf(j, "compression") = IF c.compression = Absent THEN "none" ELSE c.compression
      /\ ValueOf(j, "sealed") = c.sealed
      /\ ValueOf(j, "deny_delete") = Opposite(c.allow_delete)
      /\ ValueOf(j, "deny_purge") = Opposite(c.allow_purge)
  BY StreamFields, FieldIs
<1>2. c.max_messages \in Nat \cup {Absent} /\ c.compression \in {"s2", Absent}
      /\ c.allow_delete \in BOOLEAN /\ c.allow_purge \in BOOLEAN
  BY DEF StreamConfigs, Option
<1>3. Absent \notin Int /\ Absent \notin STRING
  BY ResourcesAssumption
<1>4. StreamReads(j) /\ FromSigned(ValueOf(j, "max_msgs")) = c.max_messages
  BY <1>1, <1>2, <1>3, StreamDurations DEF StreamReads, ToSigned, FromSigned, NullValue
<1>5. (IF ValueOf(j, "compression") = "none" THEN Absent ELSE ValueOf(j, "compression"))
      = c.compression
  BY <1>1, <1>2, <1>3
<1>6. Opposite(ValueOf(j, "deny_delete")) = c.allow_delete
  BY <1>1, <1>2 DEF Opposite
<1>7. Opposite(ValueOf(j, "deny_purge")) = c.allow_purge
  BY <1>1, <1>2 DEF Opposite
<1>8. c = [name |-> c.name, subjects |-> c.subjects, max_messages |-> c.max_messages,
           max_age |-> c.max_age, compression |-> c.compression, sealed |-> c.sealed,
           allow_delete |-> c.allow_delete, allow_purge |-> c.allow_purge]
  BY DEF StreamConfigs
<1> HIDE DEF j
<1> QED
  BY <1>1, <1>4, <1>5, <1>6, <1>7, <1>8 DEF StreamFromJson, j

\* What the parts of a consumer's body have for fields.
LEMMA SpecsFieldsAre ==
    ASSUME NEW s \in Specs
    PROVE  LET j == SpecsFields(s) IN
           /\ \A field \in j : field[1] \in {"max_waiting", "max_expires", "deliver_subject",
                                             "deliver_group", "flow_control", "idle_heartbeat"}
           /\ IF s.kind = "pull"
              THEN /\ Lacks(j, "deliver_subject") /\ Lacks(j, "deliver_group")
                   /\ Lacks(j, "flow_control") /\ Lacks(j, "idle_heartbeat")
                   /\ IF s.max_waiting = Absent THEN Lacks(j, "max_waiting")
                      ELSE Sole(j, "max_waiting", s.max_waiting)
                   /\ IF s.max_expires = 0 THEN Lacks(j, "max_expires")
                      ELSE Sole(j, "max_expires", s.max_expires)
              ELSE /\ Lacks(j, "max_waiting") /\ Lacks(j, "max_expires")
                   /\ Sole(j, "deliver_subject", s.deliver_subject)
                   /\ IF s.deliver_group = Absent THEN Lacks(j, "deliver_group")
                      ELSE Sole(j, "deliver_group", s.deliver_group)
                   /\ IF s.flow_control THEN Sole(j, "flow_control", s.flow_control)
                      ELSE Lacks(j, "flow_control")
                   /\ IF s.idle_heartbeat = 0 THEN Lacks(j, "idle_heartbeat")
                      ELSE Sole(j, "idle_heartbeat", s.idle_heartbeat)
<1>1. CASE s.kind = "pull"
  BY <1>1 DEF SpecsFields, Field, OptionField, FieldUnless, Sole, Lacks
<1>2. CASE s.kind # "pull"
  BY <1>2 DEF SpecsFields, Field, OptionField, FieldUnless, Sole, Lacks
<1> QED
  BY <1>1, <1>2

LEMMA DeliverFieldsAre ==
    ASSUME NEW d
    PROVE  LET j == DeliverFields(d) IN
           /\ \A field \in j : field[1] \in {"deliver_policy", "opt_start_seq"}
           /\ Sole(j, "deliver_policy", d.policy)
           /\ IF d.policy = "by_start_sequence" /\ d.start # Absent
              THEN Sole(j, "opt_start_seq", d.start) ELSE Lacks(j, "opt_start_seq")
BY DEF DeliverFields, Field, OptionField, FieldUnless, Sole, Lacks

LEMMA AckFieldsAre ==
    ASSUME NEW a
    PROVE  LET j == AckFields(a) IN
           /\ \A field \in j : field[1] \in {"ack_policy", "ack_wait", "max_ack_pending"}
           /\ Sole(j, "ack_policy", a.policy)
           /\ IF a.policy = "none" THEN Lacks(j, "ack_wait") /\ Lacks(j, "max_ack_pending")
              ELSE /\ Sole(j, "ack_wait", a.wait)
                   /\ IF a.max_pending = Absent THEN Lacks(j, "max_ack_pending")
                      ELSE Sole(j, "max_ack_pending", a.max_pending)
<1>1. CASE a.policy = "none"
  BY <1>1 DEF AckFields, Field, OptionField, FieldUnless, Sole, Lacks
<1>2. CASE a.policy # "none"
  BY <1>2 DEF AckFields, Field, OptionField, FieldUnless, Sole, Lacks
<1> QED
  BY <1>1, <1>2

LEMMA FilterFieldsAre ==
    ASSUME NEW f
    PROVE  LET j == FilterFields(f) IN
           /\ \A field \in j : field[1] \in {"filter_subject", "filter_subjects"}
           /\ IF Len(f) = 1 THEN Sole(j, "filter_subject", f[1]) /\ Lacks(j, "filter_subjects")
              ELSE /\ Lacks(j, "filter_subject")
                   /\ IF f = <<>> THEN Lacks(j, "filter_subjects")
                      ELSE Sole(j, "filter_subjects", f)
BY DEF FilterFields, Field, FieldUnless, Sole, Lacks

\* A union has the fields of its parts, which have none in common.
LEMMA UnionSole ==
    ASSUME NEW j, NEW k, NEW n
    PROVE  /\ Lacks(j, n) /\ Lacks(k, n) => Lacks(j \cup k, n)
           /\ \A v : Sole(j, n, v) /\ Lacks(k, n) => Sole(j \cup k, n, v)
           /\ \A v : Lacks(j, n) /\ Sole(k, n, v) => Sole(j \cup k, n, v)
BY DEF Sole, Lacks

\* What is in a consumer's own fields, and not in its parts.
OwnFields(c) ==
    Field("name", c.name)
    \cup Field("durable_name", DurableName(c))
    \cup OptionField("max_deliver", c.max_deliver)
    \cup Field("num_replicas", ToZero(c.replicas))
    \cup Field("mem_storage", InMemory(c.storage))

LEMMA OwnFieldsAre ==
    ASSUME NEW c
    PROVE  LET j == OwnFields(c) IN
           /\ \A field \in j : field[1] \in {"name", "durable_name", "max_deliver",
                                             "num_replicas", "mem_storage"}
           /\ Sole(j, "name", c.name)
           /\ Sole(j, "durable_name", DurableName(c))
           /\ IF c.max_deliver = Absent THEN Lacks(j, "max_deliver")
              ELSE Sole(j, "max_deliver", c.max_deliver)
           /\ Sole(j, "num_replicas", ToZero(c.replicas))
           /\ Sole(j, "mem_storage", InMemory(c.storage))
BY DEF OwnFields, Field, OptionField, FieldUnless, Sole, Lacks

\* A consumer's body has the fields of its parts; what the server adds is extra.
LEMMA BodyHas ==
    ASSUME NEW c \in ConsumerConfigs, NEW extra,
           \A field \in extra : field[1] \in {"max_deliver", "max_ack_pending"}
    PROVE  LET j == ConsumerToJson(c) \cup extra
               Takes(part, n) == /\ \A v : Sole(part, n, v) => Sole(j, n, v)
                                 /\ Lacks(part, n) => Lacks(j, n)
           IN /\ Takes(OwnFields(c), "name") /\ Takes(OwnFields(c), "durable_name")
              /\ Takes(OwnFields(c), "num_replicas") /\ Takes(OwnFields(c), "mem_storage")
              /\ Takes(OwnFields(c) \cup extra, "max_deliver")
              /\ Takes(DeliverFields(c.deliver), "deliver_policy")
              /\ Takes(DeliverFields(c.deliver), "opt_start_seq")
              /\ Takes(AckFields(c.ack), "ack_policy") /\ Takes(AckFields(c.ack), "ack_wait")
              /\ Takes(AckFields(c.ack) \cup extra, "max_ack_pending")
              /\ Takes(FilterFields(c.filters), "filter_subject")
              /\ Takes(FilterFields(c.filters), "filter_subjects")
              /\ \A n \in {"max_waiting", "max_expires", "deliver_subject", "deliver_group",
                           "flow_control", "idle_heartbeat"} : Takes(SpecsFields(c.specs), n)
<1> DEFINE j == ConsumerToJson(c) \cup extra
           own == OwnFields(c)
           deliver == DeliverFields(c.deliver)
           ack == AckFields(c.ack)
           filters == FilterFields(c.filters)
           specs == SpecsFields(c.specs)
           Takes(part, n) == /\ \A v : Sole(part, n, v) => Sole(j, n, v)
                             /\ Lacks(part, n) => Lacks(j, n)
<1>1. j = own \cup deliver \cup ack \cup filters \cup specs \cup extra
  BY DEF ConsumerToJson, OwnFields
<1>2. c.specs \in Specs
  BY DEF ConsumerConfigs
<1>3. /\ \A field \in own : field[1] \in {"name", "durable_name", "max_deliver",
                                          "num_replicas", "mem_storage"}
      /\ \A field \in deliver : field[1] \in {"deliver_policy", "opt_start_seq"}
      /\ \A field \in ack : field[1] \in {"ack_policy", "ack_wait", "max_ack_pending"}
      /\ \A field \in filters : field[1] \in {"filter_subject", "filter_subjects"}
      /\ \A field \in specs :
            field[1] \in {"max_waiting", "max_expires", "deliver_subject", "deliver_group",
                          "flow_control", "idle_heartbeat"}
      /\ \A field \in extra : field[1] \in {"max_deliver", "max_ack_pending"}
  BY <1>2, OwnFieldsAre, DeliverFieldsAre, AckFieldsAre, FilterFieldsAre, SpecsFieldsAre
<1> HIDE DEF j, own, deliver, ack, filters, specs
<1>4. /\ Takes(own, "name") /\ Takes(own, "durable_name")
      /\ Takes(own, "num_replicas") /\ Takes(own, "mem_storage")
      /\ Takes(own \cup extra, "max_deliver")
  BY <1>1, <1>3 DEF Sole, Lacks
<1>5. Takes(deliver, "deliver_policy") /\ Takes(deliver, "opt_start_seq")
  BY <1>1, <1>3 DEF Sole, Lacks
<1>6. /\ Takes(ack, "ack_policy") /\ Takes(ack, "ack_wait")
      /\ Takes(ack \cup extra, "max_ack_pending")
  BY <1>1, <1>3 DEF Sole, Lacks
<1>7. Takes(filters, "filter_subject") /\ Takes(filters, "filter_subjects")
  BY <1>1, <1>3 DEF Sole, Lacks
<1>8. \A n \in {"max_waiting", "max_expires", "deliver_subject", "deliver_group",
                "flow_control", "idle_heartbeat"} : Takes(specs, n)
  BY <1>1, <1>3 DEF Sole, Lacks
<1> QED
  BY <1>4, <1>5, <1>6, <1>7, <1>8 DEF j, own, deliver, ack, filters, specs

\* The body of the request, whose numbers are those of the caller.
LEMMA BodyNumbers ==
    ASSUME NEW c \in ConsumerConfigs
    PROVE  LET body == ConsumerToJson(c) IN
           /\ IF c.max_deliver = Absent THEN Lacks(body, "max_deliver")
              ELSE Sole(body, "max_deliver", c.max_deliver)
           /\ Sole(body, "ack_policy", c.ack.policy)
           /\ IF c.ack.policy = "none" \/ c.ack.max_pending = Absent
              THEN Lacks(body, "max_ack_pending")
              ELSE Sole(body, "max_ack_pending", c.ack.max_pending)
           /\ Lacks(body, "max_msgs")
<1> DEFINE body == ConsumerToJson(c) \cup {}
<1>1. body = ConsumerToJson(c) /\ OwnFields(c) \cup {} = OwnFields(c)
      /\ AckFields(c.ack) \cup {} = AckFields(c.ack)
  OBVIOUS
<1>2. \A field \in {} : field[1] \in {"max_deliver", "max_ack_pending"}
  OBVIOUS
<1>3. /\ \A v : Sole(OwnFields(c), "max_deliver", v) => Sole(body, "max_deliver", v)
      /\ Lacks(OwnFields(c), "max_deliver") => Lacks(body, "max_deliver")
      /\ \A v : Sole(AckFields(c.ack), "ack_policy", v) => Sole(body, "ack_policy", v)
      /\ \A v : Sole(AckFields(c.ack), "max_ack_pending", v) => Sole(body, "max_ack_pending", v)
      /\ Lacks(AckFields(c.ack), "max_ack_pending") => Lacks(body, "max_ack_pending")
  BY <1>1, <1>2, BodyHas
<1>4. c.specs \in Specs
  BY DEF ConsumerConfigs
<1>5. Lacks(body, "max_msgs")
  <2>1. ConsumerToJson(c) = OwnFields(c) \cup DeliverFields(c.deliver) \cup AckFields(c.ack)
                            \cup FilterFields(c.filters) \cup SpecsFields(c.specs)
    BY DEF ConsumerToJson, OwnFields
  <2> QED
    BY <1>1, <1>4, <2>1, OwnFieldsAre, DeliverFieldsAre, AckFieldsAre, FilterFieldsAre,
       SpecsFieldsAre DEF Lacks
<1> HIDE DEF body
<1> QED
  BY <1>1, <1>3, <1>5, OwnFieldsAre, AckFieldsAre

\* What the server stores: the defaults fill the gaps.
LEMMA StoredNumbers ==
    ASSUME NEW c \in ConsumerConfigs, ~IsStream
    PROVE  LET body == ConsumerToJson(c)
               j == Defaults(body)
           IN \E extra :
              /\ j = body \cup extra
              /\ \A field \in extra : field[1] \in {"max_deliver", "max_ack_pending"}
              /\ Sole(j, "max_deliver", ToSigned(c.max_deliver))
              /\ IF c.ack.policy = "none" THEN Lacks(j, "max_ack_pending")
                 ELSE Sole(j, "max_ack_pending",
                           IF c.ack.max_pending = Absent THEN DefaultPending
                           ELSE c.ack.max_pending)
<1> DEFINE body == ConsumerToJson(c)
           j == Defaults(body)
           first == FieldUnless(c.max_deliver # Absent, "max_deliver", NullValue)
           second == FieldUnless(c.ack.policy = "none" \/ c.ack.max_pending # Absent,
                                 "max_ack_pending", DefaultPending)
<1> HIDE DEF body
<1>1. /\ IF c.max_deliver = Absent THEN Lacks(body, "max_deliver")
         ELSE Sole(body, "max_deliver", c.max_deliver)
      /\ Sole(body, "ack_policy", c.ack.policy)
      /\ IF c.ack.policy = "none" \/ c.ack.max_pending = Absent
         THEN Lacks(body, "max_ack_pending")
         ELSE Sole(body, "max_ack_pending", c.ack.max_pending)
  BY BodyNumbers DEF body
<1>2. /\ ("max_deliver" \in FieldNames(body)) <=> (c.max_deliver # Absent)
      /\ ValueOf(body, "ack_policy") = c.ack.policy
      /\ ("max_ack_pending" \in FieldNames(body))
         <=> ~(c.ack.policy = "none" \/ c.ack.max_pending = Absent)
  BY <1>1, FieldIs, FieldIsNot
<1>3. j = body \cup (first \cup second)
  BY <1>2 DEF Defaults, FieldUnless
<1>4. /\ first = IF c.max_deliver = Absent THEN {<<"max_deliver", NullValue>>} ELSE {}
      /\ second = IF c.ack.policy = "none" \/ c.ack.max_pending # Absent THEN {}
                  ELSE {<<"max_ack_pending", DefaultPending>>}
  BY DEF FieldUnless
<1> HIDE DEF j, first, second
<1>5. \A field \in first \cup second : field[1] \in {"max_deliver", "max_ack_pending"}
  BY <1>4
<1>6. Sole(j, "max_deliver", ToSigned(c.max_deliver))
  BY <1>1, <1>3, <1>4 DEF ToSigned, Sole, Lacks
<1>7. IF c.ack.policy = "none" THEN Lacks(j, "max_ack_pending")
      ELSE Sole(j, "max_ack_pending",
                IF c.ack.max_pending = Absent THEN DefaultPending ELSE c.ack.max_pending)
  BY <1>1, <1>3, <1>4 DEF Sole, Lacks
<1> QED
  BY <1>3, <1>5, <1>6, <1>7 DEF j, body

\* The durations of a consumer's body, whatever the server adds.
LEMMA BodyDurations ==
    ASSUME NEW c \in ConsumerConfigs, ~IsStream, NEW n \in Nat, NEW extra,
           \A field \in extra : field[1] \in {"max_deliver", "max_ack_pending"}
    PROVE  DurationsUpTo(ConsumerToJson(c) \cup extra, n)
              <=> \A d \in ConsumerDurations(c) : d <= n
<1> DEFINE j == ConsumerToJson(c) \cup extra
           Takes(part, m) == /\ \A v : Sole(part, m, v) => Sole(j, m, v)
                             /\ Lacks(part, m) => Lacks(j, m)
           UpTo(m) == m \in FieldNames(j) => ValueOf(j, m) <= n
<1>1. /\ Takes(AckFields(c.ack), "ack_wait")
      /\ Takes(SpecsFields(c.specs), "max_expires")
      /\ Takes(SpecsFields(c.specs), "idle_heartbeat")
  BY BodyHas
<1>2. c.ack \in Acks /\ c.specs \in Specs
  BY DEF ConsumerConfigs
<1>3. DurationsUpTo(j, n) <=> UpTo("ack_wait") /\ UpTo("max_expires") /\ UpTo("idle_heartbeat")
  BY DEF DurationsUpTo, DurationFields
<1> HIDE DEF j
<1>4. UpTo("ack_wait") <=> (c.ack.policy # "none" => c.ack.wait <= n)
  <2>1. IF c.ack.policy = "none" THEN Lacks(j, "ack_wait") ELSE Sole(j, "ack_wait", c.ack.wait)
    BY <1>1, AckFieldsAre
  <2> QED
    BY <2>1, FieldIs, FieldIsNot
<1>5. CASE c.specs.kind = "pull"
  <2>1. /\ Lacks(j, "idle_heartbeat")
        /\ IF c.specs.max_expires = 0 THEN Lacks(j, "max_expires")
           ELSE Sole(j, "max_expires", c.specs.max_expires)
    BY <1>1, <1>2, <1>5, SpecsFieldsAre
  <2>2. UpTo("idle_heartbeat")
    BY <2>1, FieldIsNot
  <2>3. UpTo("max_expires") <=> c.specs.max_expires <= n
    <3>1. CASE c.specs.max_expires = 0
      BY <2>1, <3>1, FieldIsNot
    <3>2. CASE c.specs.max_expires # 0
      BY <2>1, <3>2, FieldIs
    <3> QED
      BY <3>1, <3>2
  <2>4. ConsumerDurations(c) =
            (IF c.ack.policy = "none" THEN {} ELSE {c.ack.wait}) \cup {c.specs.max_expires}
    BY <1>5 DEF ConsumerDurations
  <2> HIDE DEF UpTo
  <2> QED
    BY <1>3, <1>4, <2>2, <2>3, <2>4 DEF j
<1>6. CASE c.specs.kind # "pull"
  <2>1. /\ Lacks(j, "max_expires")
        /\ IF c.specs.idle_heartbeat = 0 THEN Lacks(j, "idle_heartbeat")
           ELSE Sole(j, "idle_heartbeat", c.specs.idle_heartbeat)
    BY <1>1, <1>2, <1>6, SpecsFieldsAre
  <2>2. UpTo("max_expires")
    BY <2>1, FieldIsNot
  <2>3. UpTo("idle_heartbeat") <=> c.specs.idle_heartbeat <= n
    <3>1. CASE c.specs.idle_heartbeat = 0
      BY <2>1, <3>1, FieldIsNot
    <3>2. CASE c.specs.idle_heartbeat # 0
      BY <2>1, <3>2, FieldIs
    <3> QED
      BY <3>1, <3>2
  <2>4. ConsumerDurations(c) =
            (IF c.ack.policy = "none" THEN {} ELSE {c.ack.wait}) \cup {c.specs.idle_heartbeat}
    BY <1>6 DEF ConsumerDurations
  <2> HIDE DEF UpTo
  <2> QED
    BY <1>3, <1>4, <2>2, <2>3, <2>4 DEF j
<1> QED
  BY <1>5, <1>6

\* nullable_number and option_nonzero read what they wrote.
LEMMA SignedAndBack ==
    \A n \in Option(Nat) : FromSigned(ToSigned(n)) = n /\ ToSigned(n) >= -1
BY ResourcesAssumption DEF ToSigned, FromSigned, NullValue, Option

\* An acknowledgement policy, as the server completes it.
CompletedAck(a) ==
    IF a.policy = "none" \/ a.max_pending # Absent THEN a
    ELSE [a EXCEPT !.max_pending = DefaultPending]

LEMMA AckIs ==
    ASSUME NEW a \in Acks
    PROVE  LET pending == IF a.max_pending = Absent THEN DefaultPending ELSE a.max_pending IN
           /\ a.policy = "none" => CompletedAck(a) = [policy |-> "none"]
           /\ a.policy # "none" =>
                 /\ pending \in Nat /\ FromSigned(pending) = pending
                 /\ CompletedAck(a) = [policy |-> a.policy, wait |-> a.wait,
                                       max_pending |-> pending]
<1>1. CASE a.policy = "none"
  BY <1>1 DEF Acks, CompletedAck
<1>2. CASE a.policy # "none"
  <2> DEFINE pending == IF a.max_pending = Absent THEN DefaultPending ELSE a.max_pending
  <2>1. a \in [policy : {"explicit", "all"}, wait : Nat, max_pending : Option(Nat)]
    BY <1>2 DEF Acks
  <2>2. DefaultPending \in Nat
    BY ResourcesAssumption
  <2>3. pending \in Nat
    BY <2>1, <2>2 DEF Option
  <2>4. FromSigned(pending) = pending
    BY <2>3 DEF FromSigned, NullValue
  <2>5. CompletedAck(a) = [policy |-> a.policy, wait |-> a.wait, max_pending |-> pending]
    BY <1>2, <2>1 DEF CompletedAck
  <2> QED
    BY <1>2, <2>3, <2>4, <2>5
<1> QED
  BY <1>1, <1>2

\* The settings are read from the fields that only one kind of consumer has.
LEMMA SpecsReadBack ==
    ASSUME NEW s \in Specs, NEW j,
           \A n \in {"max_waiting", "max_expires", "deliver_subject", "deliver_group",
                     "flow_control", "idle_heartbeat"} :
              /\ \A v : Sole(SpecsFields(s), n, v) => Sole(j, n, v)
              /\ Lacks(SpecsFields(s), n) => Lacks(j, n)
    PROVE  SpecsFrom(j) = s
<1>1. CASE s.kind = "pull"
  <2>1. s \in [kind : {"pull"}, max_waiting : Option(Int), max_expires : Nat]
    BY <1>1 DEF Specs
  <2>2. /\ Lacks(j, "deliver_subject")
        /\ IF s.max_waiting = Absent THEN Lacks(j, "max_waiting")
           ELSE Sole(j, "max_waiting", s.max_waiting)
        /\ IF s.max_expires = 0 THEN Lacks(j, "max_expires")
           ELSE Sole(j, "max_expires", s.max_expires)
    BY <1>1, SpecsFieldsAre
  <2>3. "deliver_subject" \notin FieldNames(j)
    BY <2>2, FieldIsNot
  <2>4. Get(j, "max_waiting", Absent) = s.max_waiting
    BY <2>2, FieldIs, FieldIsNot
  <2>5. Get(j, "max_expires", 0) = s.max_expires
    BY <2>2, FieldIs, FieldIsNot
  <2>6. s = [kind |-> "pull", max_waiting |-> s.max_waiting, max_expires |-> s.max_expires]
    BY <2>1
  <2> QED
    BY <2>3, <2>4, <2>5, <2>6 DEF SpecsFrom
<1>2. CASE s.kind # "pull"
  <2>1. s \in [kind : {"push"}, deliver_subject : STRING, deliver_group : Option(STRING),
               flow_control : BOOLEAN, idle_heartbeat : Nat]
    BY <1>2 DEF Specs
  <2>2. /\ Sole(j, "deliver_subject", s.deliver_subject)
        /\ IF s.deliver_group = Absent THEN Lacks(j, "deliver_group")
           ELSE Sole(j, "deliver_group", s.deliver_group)
        /\ IF s.idle_heartbeat = 0 THEN Lacks(j, "idle_heartbeat")
           ELSE Sole(j, "idle_heartbeat", s.idle_heartbeat)
    BY <1>2, SpecsFieldsAre
  <2>3. /\ s.flow_control => Sole(j, "flow_control", s.flow_control)
        /\ ~s.flow_control => Lacks(j, "flow_control")
    BY <1>2, SpecsFieldsAre
  <2>4. "deliver_subject" \in FieldNames(j) /\ ValueOf(j, "deliver_subject") = s.deliver_subject
    BY <2>2, FieldIs
  <2>5. Get(j, "deliver_group", Absent) = s.deliver_group
    BY <2>2, FieldIs, FieldIsNot
  <2>6. Get(j, "idle_heartbeat", 0) = s.idle_heartbeat
    BY <2>2, FieldIs, FieldIsNot
  <2>7. Get(j, "flow_control", FALSE) = s.flow_control
    <3>1. CASE s.flow_control
      BY <2>3, <3>1, FieldIs
    <3>2. CASE ~s.flow_control
      <4>1. Get(j, "flow_control", FALSE) = FALSE
        BY <2>3, <3>2, FieldIsNot
      <4>2. s.flow_control = FALSE
        BY <2>1, <3>2
      <4> QED
        BY <4>1, <4>2
    <3> QED
      BY <3>1, <3>2
  <2>8. s = [kind |-> "push", deliver_subject |-> s.deliver_subject,
             deliver_group |-> s.deliver_group, flow_control |-> s.flow_control,
             idle_heartbeat |-> s.idle_heartbeat]
    BY <2>1
  <2> QED
    BY <2>4, <2>5, <2>6, <2>7, <2>8 DEF SpecsFrom
<1> QED
  BY <1>1, <1>2

LEMMA OneFilter ==
    ASSUME NEW f \in Seq(STRING), Len(f) = 1
    PROVE  <<f[1]>> = f
<1>1. f[1] \in STRING
  BY ElementOfSeq
<1>2. <<f[1]>> \in Seq(STRING) /\ Len(<<f[1]>>) = 1 /\ <<f[1]>>[1] = f[1]
  BY <1>1
<1>3. \A i \in 1..Len(f) : f[i] = <<f[1]>>[i]
  BY <1>2

<1> QED
  BY <1>2, <1>3, SeqEqual

\* What is read from the object that the server stored is the configuration.
LEMMA ConsumerReadsBack ==
    ASSUME NEW c \in ConsumerConfigs, c.name # "", ~IsStream,
           \A d \in ConsumerDurations(c) : d <= MaxNanos
    PROVE  LET j == Defaults(ConsumerToJson(c)) IN
           ConsumerReads(j) /\ ConsumerFromJson(j) = Completed(c)
<1> DEFINE body == ConsumerToJson(c)
           j == Defaults(body)
           pending == IF c.ack.max_pending = Absent THEN DefaultPending ELSE c.ack.max_pending
           Takes(part, n) == /\ \A v : Sole(part, n, v) => Sole(j, n, v)
                             /\ Lacks(part, n) => Lacks(j, n)
<1>1. PICK extra :
         /\ j = body \cup extra
         /\ \A field \in extra : field[1] \in {"max_deliver", "max_ack_pending"}
         /\ Sole(j, "max_deliver", ToSigned(c.max_deliver))
         /\ IF c.ack.policy = "none" THEN Lacks(j, "max_ack_pending")
            ELSE Sole(j, "max_ack_pending", pending)
  BY StoredNumbers
<1> HIDE DEF j, body
<1>2. /\ Takes(OwnFields(c), "name") /\ Takes(OwnFields(c), "durable_name")
      /\ Takes(OwnFields(c), "num_replicas") /\ Takes(OwnFields(c), "mem_storage")
      /\ Takes(DeliverFields(c.deliver), "deliver_policy")
      /\ Takes(DeliverFields(c.deliver), "opt_start_seq")
      /\ Takes(AckFields(c.ack), "ack_policy") /\ Takes(AckFields(c.ack), "ack_wait")
      /\ Takes(FilterFields(c.filters), "filter_subject")
      /\ Takes(FilterFields(c.filters), "filter_subjects")
      /\ \A n \in {"max_waiting", "max_expires", "deliver_subject", "deliver_group",
                   "flow_control", "idle_heartbeat"} : Takes(SpecsFields(c.specs), n)
  BY <1>1, BodyHas DEF body
<1>3. Absent \notin Int /\ Absent \notin STRING
  BY ResourcesAssumption
<1>4. /\ c.durable \in BOOLEAN /\ c.name \in STRING /\ c.deliver \in Delivers
      /\ c.ack \in Acks /\ c.max_deliver \in Option(Nat) /\ c.filters \in Seq(STRING)
      /\ c.specs \in Specs /\ c.replicas \in Option(Nat \ {0})
      /\ c.storage \in {"disk", "memory"}
  BY DEF ConsumerConfigs
<1>5. /\ ValueOf(j, "name") = c.name /\ ValueOf(j, "durable_name") = DurableName(c)
      /\ ValueOf(j, "num_replicas") = ToZero(c.replicas)
      /\ ValueOf(j, "mem_storage") = InMemory(c.storage)
  <2>1. /\ Sole(j, "name", c.name) /\ Sole(j, "durable_name", DurableName(c))
        /\ Sole(j, "num_replicas", ToZero(c.replicas))
        /\ Sole(j, "mem_storage", InMemory(c.storage))
    BY <1>2, OwnFieldsAre
  <2> QED
    BY <2>1, FieldIs
<1>6. IsDurable(j) <=> c.durable
  BY <1>4, <1>5 DEF IsDurable, DurableName
<1>7. (IF IsDurable(j) THEN ValueOf(j, "durable_name") ELSE ValueOf(j, "name")) = c.name
  BY <1>5, <1>6 DEF DurableName
<1>8. DeliverFrom(j) = c.deliver
  <2>1. /\ Sole(j, "deliver_policy", c.deliver.policy)
        /\ IF c.deliver.policy = "by_start_sequence" /\ c.deliver.start # Absent
           THEN Sole(j, "opt_start_seq", c.deliver.start) ELSE Lacks(j, "opt_start_seq")
    BY <1>2, DeliverFieldsAre
  <2>2. c.deliver.policy = "by_start_sequence" \/ c.deliver.start = Absent
    BY <1>4 DEF Delivers
  <2>3. /\ ValueOf(j, "deliver_policy") = c.deliver.policy
        /\ Get(j, "opt_start_seq", Absent) = c.deliver.start
    <3>1. CASE c.deliver.start = Absent
      <4>1. Lacks(j, "opt_start_seq")
        BY <2>1, <3>1
      <4>2. Get(j, "opt_start_seq", Absent) = Absent
        BY <4>1, FieldIsNot
      <4> QED
        BY <2>1, <3>1, <4>2, FieldIs
    <3>2. CASE c.deliver.start # Absent
      BY <2>1, <2>2, <3>2, FieldIs
    <3> QED
      BY <3>1, <3>2
  <2>4. c.deliver = [policy |-> c.deliver.policy, start |-> c.deliver.start]
    BY <1>4 DEF Delivers
  <2> QED
    BY <2>3, <2>4 DEF DeliverFrom
<1>9. FiltersFrom(j) = c.filters
      /\ ~({"filter_subject", "filter_subjects"} \subseteq FieldNames(j))
  <2>1. IF Len(c.filters) = 1
        THEN Sole(j, "filter_subject", c.filters[1]) /\ Lacks(j, "filter_subjects")
        ELSE /\ Lacks(j, "filter_subject")
             /\ IF c.filters = <<>> THEN Lacks(j, "filter_subjects")
                ELSE Sole(j, "filter_subjects", c.filters)
    BY <1>2, FilterFieldsAre
  <2>2. Len(c.filters) = 1 => <<c.filters[1]>> = c.filters
    BY <1>4, OneFilter
  <2>3. CASE Len(c.filters) = 1
    BY <2>1, <2>2, <2>3, FieldIs, FieldIsNot DEF FiltersFrom
  <2>4. CASE Len(c.filters) # 1
    <3>1. "filter_subject" \notin FieldNames(j)
      BY <2>1, <2>4, FieldIsNot
    <3>2. Get(j, "filter_subjects", <<>>) = c.filters
      BY <2>1, <2>4, FieldIs, FieldIsNot
    <3> QED
      BY <3>1, <3>2 DEF FiltersFrom
  <2> QED
    BY <2>3, <2>4
<1>10. /\ FromSigned(ValueOf(j, "max_deliver")) = c.max_deliver
       /\ ValueOf(j, "max_deliver") >= NullValue /\ "max_deliver" \in FieldNames(j)
  <2>1. ValueOf(j, "max_deliver") = ToSigned(c.max_deliver) /\ "max_deliver" \in FieldNames(j)
    BY <1>1, FieldIs
  <2>2. FromSigned(ToSigned(c.max_deliver)) = c.max_deliver /\ ToSigned(c.max_deliver) >= -1
    BY <1>4, SignedAndBack
  <2> QED
    BY <2>1, <2>2 DEF NullValue
<1>11. /\ FromZero(ValueOf(j, "num_replicas")) = c.replicas
       /\ (IF ValueOf(j, "mem_storage") THEN "memory" ELSE "disk") = c.storage
  <2>1. FromZero(ToZero(c.replicas)) = c.replicas
    BY <1>3, <1>4 DEF ToZero, FromZero, Option
  <2>2. (IF InMemory(c.storage) THEN "memory" ELSE "disk") = c.storage
    BY <1>4 DEF InMemory
  <2> QED
    BY <1>5, <2>1, <2>2
<1>12. AckFrom(j) = CompletedAck(c.ack)
  <2>1. Sole(j, "ack_policy", c.ack.policy)
        /\ (c.ack.policy # "none" => Sole(j, "ack_wait", c.ack.wait))
    BY <1>2, AckFieldsAre
  <2>2. ValueOf(j, "ack_policy") = c.ack.policy
    BY <2>1, FieldIs
  <2>3. CASE c.ack.policy = "none"
    BY <1>4, <2>2, <2>3, AckIs DEF AckFrom
  <2>4. CASE c.ack.policy # "none"
    <3>1. ValueOf(j, "ack_wait") = c.ack.wait /\ ValueOf(j, "max_ack_pending") = pending
      BY <1>1, <2>1, <2>4, FieldIs
    <3>2. /\ FromSigned(pending) = pending
          /\ CompletedAck(c.ack) = [policy |-> c.ack.policy, wait |-> c.ack.wait,
                                    max_pending |-> pending]
      BY <1>4, <2>4, AckIs
    <3> HIDE DEF pending
    <3> QED
      BY <2>2, <2>4, <3>1, <3>2 DEF AckFrom
  <2> QED
    BY <2>3, <2>4
<1>13. c.ack.policy # "none" => {"ack_wait", "max_ack_pending"} \subseteq FieldNames(j)
  <2>1. c.ack.policy # "none" => Sole(j, "ack_wait", c.ack.wait)
                                 /\ Sole(j, "max_ack_pending", pending)
    BY <1>1, <1>2, AckFieldsAre
  <2> QED
    BY <2>1, FieldIs
<1>14. SpecsFrom(j) = c.specs
  BY <1>2, <1>4, SpecsReadBack
<1>15. ConsumerReads(j)
  <2>1. Sole(j, "ack_policy", c.ack.policy)
    BY <1>2, AckFieldsAre
  <2>2. ValueOf(j, "ack_policy") = c.ack.policy
    BY <2>1, FieldIs
  <2>3. ValueOf(j, "name") # ""
    BY <1>5
  <2>4. DurationsUpTo(j, MaxNanos)
    BY <1>1, BodyDurations, ResourcesAssumption DEF body
  <2> QED
    BY <1>9, <1>10, <1>13, <2>2, <2>3, <2>4 DEF ConsumerReads
<1>16. ConsumerFromJson(j) = Completed(c)
  <2> DEFINE all == [durable |-> c.durable, name |-> c.name, deliver |-> c.deliver,
                     ack |-> CompletedAck(c.ack), max_deliver |-> c.max_deliver,
                     filters |-> c.filters, specs |-> c.specs, replicas |-> c.replicas,
                     storage |-> c.storage]
  <2>1. IsDurable(j) = c.durable
    BY <1>4, <1>6 DEF IsDurable
  <2>2. ConsumerFromJson(j) = all
    BY <1>7, <1>8, <1>9, <1>10, <1>11, <1>12, <1>14, <2>1 DEF ConsumerFromJson
  <2>3. all = Completed(c)
    BY DEF ConsumerConfigs, Completed, CompletedAck
  <2> QED
    BY <2>2, <2>3
<1> QED
  BY <1>15, <1>16 DEF j, body

\* The server takes the request of any consumer whose durations it has.
LEMMA BodyIsSound ==
    ASSUME NEW c \in ConsumerConfigs, NEW token, ~IsStream,
           token = IF Len(c.filters) = 1 THEN c.filters[1] ELSE Absent
    PROVE  Sound([token |-> token, body |-> ConsumerToJson(c)])
              <=> \A d \in ConsumerDurations(c) : d <= MaxSigned
<1> DEFINE j == ConsumerToJson(c) \cup {}
           Takes(part, n) == /\ \A v : Sole(part, n, v) => Sole(j, n, v)
                             /\ Lacks(part, n) => Lacks(j, n)
<1>1. \A field \in {} : field[1] \in {"max_deliver", "max_ack_pending"}
  OBVIOUS
<1>2. /\ Takes(FilterFields(c.filters), "filter_subject")
      /\ Takes(FilterFields(c.filters), "filter_subjects")
      /\ \A n \in {"max_waiting", "max_expires", "deliver_subject", "deliver_group",
                   "flow_control", "idle_heartbeat"} : Takes(SpecsFields(c.specs), n)
  BY <1>1, BodyHas
<1>3. ConsumerToJson(c) = j
  OBVIOUS
<1>0. DurationsUpTo(j, MaxSigned) <=> \A d \in ConsumerDurations(c) : d <= MaxSigned
  BY <1>1, BodyDurations, ResourcesAssumption
<1> HIDE DEF j
<1>4. token # Absent => /\ "filter_subjects" \notin FieldNames(j)
                        /\ Get(j, "filter_subject", Absent) = token
  <2>1. token # Absent => /\ Lacks(j, "filter_subjects")
                          /\ Sole(j, "filter_subject", token)
    BY <1>2, FilterFieldsAre
  <2> QED
    BY <2>1, FieldIs, FieldIsNot
<1>5. c.specs \in Specs
  BY DEF ConsumerConfigs
<1>6. CASE c.specs.kind = "pull"
  <2>1. /\ Lacks(j, "deliver_subject") /\ Lacks(j, "deliver_group")
        /\ Lacks(j, "flow_control") /\ Lacks(j, "idle_heartbeat")
    BY <1>2, <1>5, <1>6, SpecsFieldsAre
  <2>2. /\ "deliver_subject" \notin FieldNames(j)
        /\ {"deliver_group", "flow_control", "idle_heartbeat"} \cap FieldNames(j) = {}
    BY <2>1, FieldIsNot
  <2> QED
    BY <1>0, <1>3, <1>4, <2>2 DEF Sound
<1>7. CASE c.specs.kind # "pull"
  <2>1. /\ Lacks(j, "max_waiting") /\ Lacks(j, "max_expires")
        /\ Sole(j, "deliver_subject", c.specs.deliver_subject)
    BY <1>2, <1>5, <1>7, SpecsFieldsAre
  <2>2. /\ "deliver_subject" \in FieldNames(j)
        /\ {"max_waiting", "max_expires"} \cap FieldNames(j) = {}
    BY <2>1, FieldIs, FieldIsNot
  <2> QED
    BY <1>0, <1>3, <1>4, <2>2 DEF Sound
<1> QED
  BY <1>6, <1>7

-----------------------------------------------------------------------------
Body == IF IsStream THEN StreamToJson(config) ELSE ConsumerToJson(config)

\* The request is sent for a good configuration alone and says what it says; the
\* server stores that with its defaults; what comes back is the configuration.
ResourcesIInv ==
    /\ config \in Consumers \cup Streams
    /\ request # Absent =>
          config.name # "" /\ Fits /\ request = [token |-> FilterToken, body |-> Body]
    /\ stored # Absent => request # Absent /\ stored = Defaults(Body) /\ ~IsTooLong
    /\ resource # Absent =>
          \/ resource = [err |-> "Subject"] /\ config.name = ""
          \/ resource = [err |-> IF IsStream THEN "Json" ELSE "Panic"] /\ ~Fits
          \/ resource = [err |-> "Api"] /\ IsTooLong
          \/ resource = Completed(config)

LEMMA KindIs ==
    ASSUME config \in Consumers \cup Streams
    PROVE  /\ IsStream => config \in StreamConfigs
           /\ ~IsStream => config \in ConsumerConfigs
<1>1. \A c \in ConsumerConfigs : "subjects" \notin DOMAIN c
  BY DEF ConsumerConfigs
<1>2. \A c \in StreamConfigs : "subjects" \in DOMAIN c
  BY DEF StreamConfigs
<1> QED
  BY <1>1, <1>2, ResourcesAssumption DEF IsStream

\* What depends on the configuration, which never changes.
LEMMA SameConfig ==
    ASSUME config' = config
    PROVE  /\ Fits' <=> Fits
           /\ FilterToken' = FilterToken
           /\ Defaults(Body)' = Defaults(Body)
           /\ Body' = Body
           /\ Completed(config)' = Completed(config)
           /\ (IsStream' <=> IsStream) /\ (IsTooLong' <=> IsTooLong)
<1>1. IsStream' <=> IsStream
  BY DEF IsStream
<1>2. Fits' <=> Fits
  BY <1>1 DEF Fits
<1>3. FilterToken' = FilterToken
  BY <1>1 DEF FilterToken
<1>4. Body' = Body
  BY <1>1 DEF Body
<1>5. Defaults(Body)' = Defaults(Body)
  BY <1>1, <1>4 DEF Defaults
<1>6. Completed(config)' = Completed(config)
  BY <1>1 DEF Completed
<1>7. IsTooLong' <=> IsTooLong
  BY <1>1 DEF IsTooLong
<1> QED
  BY <1>1, <1>2, <1>3, <1>4, <1>5, <1>6, <1>7

LEMMA DurationsAreNat ==
    ASSUME config \in Consumers \cup Streams, ~IsStream
    PROVE  \A d \in ConsumerDurations(config) : d \in Nat
<1>1. config.ack \in Acks /\ config.specs \in Specs
  BY KindIs DEF ConsumerConfigs
<1>2. config.ack.policy # "none" => config.ack.wait \in Nat
  BY <1>1 DEF Acks
<1>3. (IF config.specs.kind = "pull" THEN config.specs.max_expires
       ELSE config.specs.idle_heartbeat) \in Nat
  BY <1>1 DEF Specs
<1> QED
  BY <1>2, <1>3 DEF ConsumerDurations

\* What is not too long for the server is not so for the reader.
LEMMA ShortEnough ==
    ASSUME config \in Consumers \cup Streams, ~IsTooLong
    PROVE  /\ IsStream => config.max_age <= MaxSigned /\ config.max_age <= MaxNanos
           /\ ~IsStream => \A d \in ConsumerDurations(config) : d <= MaxSigned /\ d <= MaxNanos
<1>1. MaxSigned \in Nat /\ MaxNanos \in Nat /\ MaxSigned <= MaxNanos
  BY ResourcesAssumption
<1>2. CASE IsStream
  <2>1. config.max_age \in Nat
    BY <1>2, KindIs DEF StreamConfigs
  <2> QED
    BY <1>1, <1>2, <2>1 DEF IsTooLong
<1>3. CASE ~IsStream
  <2>1. \A d \in ConsumerDurations(config) : d \in Nat
    BY <1>3, DurationsAreNat
  <2> QED
    BY <1>1, <1>3, <2>1 DEF IsTooLong
<1> QED
  BY <1>2, <1>3

LEMMA StoredReadsBack ==
    ASSUME ResourcesIInv, stored # Absent
    PROVE  IF IsStream THEN StreamReads(stored) /\ StreamFromJson(stored) = Completed(config)
           ELSE ConsumerReads(stored) /\ ConsumerFromJson(stored) = Completed(config)
<1>1. config.name # "" /\ stored = Defaults(Body) /\ config \in Consumers \cup Streams
      /\ ~IsTooLong
  BY DEF ResourcesIInv
<1>2. CASE IsStream
  <2>1. stored = StreamToJson(config) /\ Completed(config) = config
    BY <1>1, <1>2 DEF Defaults, Body, Completed
  <2> QED
    BY <1>1, <1>2, <2>1, KindIs, ShortEnough, StreamReadsBack
<1>3. CASE ~IsStream
  <2>1. stored = Defaults(ConsumerToJson(config))
    BY <1>1, <1>3 DEF Body
  <2> QED
    BY <1>1, <1>3, <2>1, KindIs, ShortEnough, ConsumerReadsBack
<1> QED
  BY <1>2, <1>3

LEMMA ResourcesStep == ResourcesIInv /\ [ResourcesNext]_resourcesVars => ResourcesIInv'
<1> SUFFICES ASSUME ResourcesIInv, [ResourcesNext]_resourcesVars
             PROVE  ResourcesIInv'
  OBVIOUS
<1>1. config' = config
  BY DEF ResourcesNext, resourcesVars, CreateResource, Refuse, ServerStores, Read
<1>2. /\ Fits' <=> Fits
      /\ FilterToken' = FilterToken
      /\ Defaults(Body)' = Defaults(Body)
      /\ Body' = Body
      /\ Completed(config)' = Completed(config)
      /\ (IsStream' <=> IsStream) /\ (IsTooLong' <=> IsTooLong)
  BY <1>1, SameConfig
<1>3. CASE CreateResource
  <2>1. Body = IF IsStream THEN StreamToJson(config) ELSE ConsumerToJson(config)
    BY DEF Body
  <2> QED
    BY <1>1, <1>2, <1>3, <2>1 DEF ResourcesIInv, CreateResource, Refuse
<1>4. CASE ServerStores
  <2>1. request # Absent /\ request = [token |-> FilterToken, body |-> Body]
        /\ config \in Consumers \cup Streams
    BY <1>4 DEF ResourcesIInv, ServerStores
  <2>2. Sound(request) <=> ~IsTooLong
    <3>1. CASE IsStream
      <4>1. Body = StreamToJson(config) /\ config \in StreamConfigs
        BY <2>1, <3>1, KindIs DEF Body
      <4>2. Sound(request) <=> config.max_age <= MaxSigned
        BY <2>1, <3>1, <4>1, StreamDurations DEF Sound
      <4>3. config.max_age \in Nat /\ MaxSigned \in Nat
        BY <4>1, ResourcesAssumption DEF StreamConfigs
      <4> QED
        BY <3>1, <4>2, <4>3 DEF IsTooLong
    <3>2. CASE ~IsStream
      <4>1. Body = ConsumerToJson(config)
            /\ FilterToken = IF Len(config.filters) = 1 THEN config.filters[1] ELSE Absent
        BY <3>2 DEF Body, FilterToken
      <4>2. Sound(request) <=> \A d \in ConsumerDurations(config) : d <= MaxSigned
        BY <2>1, <3>2, <4>1, KindIs, BodyIsSound
      <4>3. \A d \in ConsumerDurations(config) : d \in Nat
        BY <2>1, <3>2, DurationsAreNat
      <4>4. MaxSigned \in Nat
        BY ResourcesAssumption
      <4> QED
        BY <3>2, <4>2, <4>3, <4>4 DEF IsTooLong
    <3> QED
      BY <3>1, <3>2
  <2>3. CASE ~IsTooLong
    <3>1. stored' = Defaults(Body) /\ UNCHANGED <<config, request, resource>>
      BY <1>4, <2>1, <2>2, <2>3 DEF ServerStores
    <3> QED
      BY <1>2, <2>1, <2>3, <3>1 DEF ResourcesIInv
  <2>4. CASE IsTooLong
    <3>1. resource' = [err |-> "Api"] /\ UNCHANGED <<config, request, stored>>
      BY <1>4, <2>1, <2>2, <2>4 DEF ServerStores
    <3> QED
      BY <1>2, <2>1, <2>4, <3>1 DEF ResourcesIInv
  <2> QED
    BY <2>3, <2>4
<1>5. CASE Read
  <2>1. stored # Absent /\ UNCHANGED <<config, request, stored>>
    BY <1>5 DEF Read
  <2>2. resource' = Completed(config)
    BY <1>5, <2>1, StoredReadsBack DEF Read
  <2> QED
    BY <1>2, <2>1, <2>2 DEF ResourcesIInv
<1>6. CASE UNCHANGED resourcesVars
  BY <1>2, <1>6 DEF ResourcesIInv, resourcesVars
<1> QED
  BY <1>3, <1>4, <1>5, <1>6 DEF ResourcesNext

\* What was created is no error.
LEMMA CompletedIsNoError ==
    ASSUME config \in Consumers \cup Streams
    PROVE  "err" \notin DOMAIN Completed(config)
<1>1. CASE IsStream
  <2>1. config \in StreamConfigs /\ Completed(config) = config
    BY <1>1, KindIs DEF Completed
  <2> QED
    BY <2>1 DEF StreamConfigs
<1>2. CASE ~IsStream
  <2>1. config \in ConsumerConfigs
    BY <1>2, KindIs
  <2>2. DOMAIN Completed(config) = DOMAIN config
    BY <2>1 DEF Completed, ConsumerConfigs
  <2> QED
    BY <2>1, <2>2 DEF ConsumerConfigs
<1> QED
  BY <1>1, <1>2

LEMMA SignedFits ==
    \A n \in Option(Nat) : IsSigned(n) => /\ ToSigned(n) \in NullValue..MaxSigned
                                          /\ n # Absent => n \in NullValue..MaxSigned
BY ResourcesAssumption DEF Option, IsSigned, ToSigned, NullValue

LEMMA SentNumbersFit ==
    ASSUME ResourcesIInv, request # Absent,
           NEW f \in SignedFields \cap FieldNames(request.body)
    PROVE  ValueOf(request.body, f) \in NullValue..MaxSigned
<1>1. Fits /\ request.body = Body /\ config \in Consumers \cup Streams
  <2>1. /\ Fits /\ config \in Consumers \cup Streams
        /\ request = [token |-> FilterToken, body |-> Body]
    BY DEF ResourcesIInv
  <2>2. request.body = Body
    BY <2>1
  <2> QED
    BY <2>1, <2>2
<1>2. f \in {"max_deliver", "max_ack_pending", "max_msgs"} /\ f \in FieldNames(Body)
  BY <1>1 DEF SignedFields
<1>3. CASE IsStream
  <2>1. /\ Body = StreamToJson(config) /\ config \in StreamConfigs
        /\ IsSigned(config.max_messages)
    BY <1>1, <1>3, KindIs DEF Body, Fits
  <2>2. Lacks(Body, "max_deliver") /\ Lacks(Body, "max_ack_pending")
    BY <2>1 DEF StreamToJson, Field, Lacks
  <2>3. f = "max_msgs"
    BY <1>2, <2>2, FieldIsNot
  <2>4. ValueOf(Body, f) = ToSigned(config.max_messages)
    <3>1. Sole(Body, "max_msgs", ToSigned(config.max_messages))
      BY <2>1, StreamFields
    <3> QED
      BY <2>3, <3>1, FieldIs
  <2>5. config.max_messages \in Option(Nat)
    BY <2>1 DEF StreamConfigs
  <2> QED
    BY <1>1, <2>1, <2>4, <2>5, SignedFits
<1>4. CASE ~IsStream
  <2>1. /\ Body = ConsumerToJson(config) /\ config \in ConsumerConfigs
        /\ IsSigned(config.max_deliver)
        /\ config.ack.policy # "none" => IsSigned(config.ack.max_pending)
    BY <1>1, <1>4, KindIs DEF Body, Fits, ConsumerFits
  <2>2. /\ IF config.max_deliver = Absent THEN Lacks(Body, "max_deliver")
           ELSE Sole(Body, "max_deliver", config.max_deliver)
        /\ IF config.ack.policy = "none" \/ config.ack.max_pending = Absent
           THEN Lacks(Body, "max_ack_pending")
           ELSE Sole(Body, "max_ack_pending", config.ack.max_pending)
        /\ Lacks(Body, "max_msgs")
    BY <2>1, BodyNumbers
  <2>3. CASE f = "max_deliver"
    <3>1. config.max_deliver # Absent /\ ValueOf(Body, f) = config.max_deliver
      BY <1>2, <2>2, <2>3, FieldIs, FieldIsNot
    <3>2. config.max_deliver \in Option(Nat)
      BY <2>1 DEF ConsumerConfigs
    <3> QED
      BY <1>1, <2>1, <3>1, <3>2, SignedFits
  <2>4. CASE f = "max_ack_pending"
    <3>1. /\ config.ack.policy # "none" /\ config.ack.max_pending # Absent
          /\ ValueOf(Body, f) = config.ack.max_pending
      BY <1>2, <2>2, <2>4, FieldIs, FieldIsNot
    <3>2. config.ack \in Acks
      BY <2>1 DEF ConsumerConfigs
    <3>3. config.ack.max_pending \in Option(Nat)
      BY <3>1, <3>2 DEF Acks
    <3> QED
      BY <1>1, <2>1, <3>1, <3>3, SignedFits
  <2> QED
    BY <1>2, <2>2, <2>3, <2>4, FieldIsNot
<1> QED
  BY <1>3, <1>4

LEMMA StreamMeansTheSame == ResourcesIInv => MeansTheSame
<1> SUFFICES ASSUME ResourcesIInv, stored # Absent, IsStream
             PROVE  /\ ValueOf(stored, "deny_delete") # config.allow_delete
                    /\ ValueOf(stored, "deny_purge") # config.allow_purge
                    /\ (ValueOf(stored, "max_msgs") = NullValue)
                       <=> (config.max_messages = Absent)
  BY DEF MeansTheSame
<1>1. stored = StreamToJson(config) /\ config \in StreamConfigs
  BY KindIs DEF ResourcesIInv, Defaults, Body
<1>2. /\ ValueOf(stored, "deny_delete") = Opposite(config.allow_delete)
      /\ ValueOf(stored, "deny_purge") = Opposite(config.allow_purge)
      /\ ValueOf(stored, "max_msgs") = ToSigned(config.max_messages)
  <2>1. /\ Sole(stored, "deny_delete", Opposite(config.allow_delete))
        /\ Sole(stored, "deny_purge", Opposite(config.allow_purge))
        /\ Sole(stored, "max_msgs", ToSigned(config.max_messages))
    BY <1>1, StreamFields
  <2> QED
    BY <2>1, FieldIs
<1>3. /\ config.allow_delete \in BOOLEAN /\ config.allow_purge \in BOOLEAN
      /\ config.max_messages \in Option(Nat)
  BY <1>1 DEF StreamConfigs
<1>4. (ToSigned(config.max_messages) = NullValue) <=> (config.max_messages = Absent)
  BY <1>3, ResourcesAssumption DEF ToSigned, NullValue, Option
<1>5. Opposite(config.allow_delete) # config.allow_delete
  BY <1>3 DEF Opposite
<1>6. Opposite(config.allow_purge) # config.allow_purge
  BY <1>3 DEF Opposite
<1> QED
  BY <1>2, <1>4, <1>5, <1>6

LEMMA ResourcesImply == ResourcesIInv => ResourcesInv
<1> SUFFICES ASSUME ResourcesIInv
             PROVE  ResourcesInv
  OBVIOUS
<1>1. config \in Consumers \cup Streams
  BY DEF ResourcesIInv
<1>2. GoodIsAccepted
  <2> DEFINE e == IF IsStream THEN "Json" ELSE "Panic"
  <2> SUFFICES ASSUME resource # Absent, "err" \in DOMAIN resource
               PROVE  \/ resource.err = "Subject" /\ config.name = ""
                      \/ resource.err = e /\ ~Fits
                      \/ resource.err = "Api" /\ IsTooLong
    BY DEF NotCreated, GoodIsAccepted
  <2>1. resource # Completed(config)
    BY <1>1, CompletedIsNoError
  <2>2. \/ resource = [err |-> "Subject"] /\ config.name = ""
        \/ resource = [err |-> e] /\ ~Fits
        \/ resource = [err |-> "Api"] /\ IsTooLong
    BY <2>1 DEF ResourcesIInv
  <2>3. \A x : resource = [err |-> x] => resource.err = x
    OBVIOUS
  <2> HIDE DEF e
  <2>4. /\ resource = [err |-> "Subject"] => resource.err = "Subject"
        /\ resource = [err |-> e] => resource.err = e
        /\ resource = [err |-> "Api"] => resource.err = "Api"
    BY <2>3
  <2> QED
    BY <2>2, <2>4
<1>3. ResourcesTypeOK
  <2>1. NotCreated => resource.err \in {"Subject", "Json", "Panic", "Api"}
    BY <1>2 DEF GoodIsAccepted
  <2> QED
    BY <1>1, <2>1, SentNumbersFit DEF ResourcesTypeOK
<1>4. ReadsBack
  <2> SUFFICES ASSUME resource # Absent, ~NotCreated
               PROVE  resource = Completed(config)
    BY DEF ReadsBack
  <2>1. \A e : resource # [err |-> e]
    BY DEF NotCreated
  <2> QED
    BY <2>1 DEF ResourcesIInv
<1> QED
  BY <1>2, <1>3, <1>4, StreamMeansTheSame DEF ResourcesInv

\* Whatever the streams and consumers are, create_stream and create_consumer fail
\* for a bad name, number or duration alone, create_consumer with a panic where a
\* number or duration does not fit its type; the server is sent the numbers in their range and
\* means by the stream what the caller means; and what is read back is what was
\* created, completed with the server's default.
THEOREM ConfigurationsReadBack == ResourcesSpec => []ResourcesInv
<1>1. ResourcesInit => ResourcesIInv
  BY DEF ResourcesInit, ResourcesIInv
<1>2. ResourcesIInv /\ [ResourcesNext]_resourcesVars => ResourcesIInv'
  BY ResourcesStep
<1>3. ResourcesIInv => ResourcesInv
  BY ResourcesImply
<1> QED
  BY <1>1, <1>2, <1>3, PTL DEF ResourcesSpec
=============================================================================
