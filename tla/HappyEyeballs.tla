--------------------------- MODULE HappyEyeballs ---------------------------
(***************************************************************************)
(* watermelon_net::connect_tcp: the staggered connection attempts of a    *)
(* client to the addresses its host name resolves to.  One poll of the    *)
(* HappyEyeballs stream is a loop; its iterations are the actions Join,   *)
(* Attempt, Exhausted and Park, between which the spawned attempts of the *)
(* JoinSet make progress.  dialPc is "off" while nobody is connecting.    *)
(***************************************************************************)
EXTENDS Naturals, SequencesExt

CONSTANTS
    Addrs,        \* addresses a host name may resolve to
    V6,           \* those of them that are IPv6
    Lookups,      \* what the resolver may answer: sequences of addresses
    NoAddr

ASSUME DialAssumption ==
    /\ V6 \subseteq Addrs
    /\ \A s \in Lookups : s \in Seq(Addrs) /\ IsInjective(s)
    /\ NoAddr \notin Addrs

VARIABLES
    accepting,      \* the addresses a server listens at; never changes
    dialPc,
    dns_received,   \* records the resolver gave, not attempted yet
    connecting,     \* attempts of the JoinSet that are under way
    completed,      \* attempts of the JoinSet that have not been joined
    last_attempted, \* the last address attempted (the code keeps its family)
    delay,          \* next_attempt_delay: none, running or elapsed
    tried           \* every address attempted, in order

dial == <<dialPc, dns_received, connecting, completed, last_attempted, delay,
          tried>>
attempts == <<connecting, completed, last_attempted, tried>>

DialOff ==
    /\ dialPc = "off"
    /\ dns_received = <<>>
    /\ connecting = {}
    /\ completed = {}
    /\ last_attempted = NoAddr
    /\ delay = "none"
    /\ tried = <<>>

DialInit == DialOff /\ accepting \in SUBSET Addrs

\* Dropping the future drops the JoinSet, which aborts its tasks.
DialDrop ==
    /\ dialPc' = "off"
    /\ dns_received' = <<>>
    /\ connecting' = {}
    /\ completed' = {}
    /\ last_attempted' = NoAddr
    /\ delay' = "none"
    /\ tried' = <<>>

-----------------------------------------------------------------------------
OtherFamily(a, b) == (a \in V6) # (b \in V6)

\* The positions next_dns_record prefers: the family opposite to the last
\* attempt's, IPv6 at first.
Preferred(s) == {i \in DOMAIN s :
    IF last_attempted = NoAddr THEN s[i] \in V6
    ELSE OtherFamily(s[i], last_attempted)}

\* Mutant of NextRecord: the resolver's order is kept.
NextInOrder(i, s) == i = 1

\* next_dns_record: the first record of the preferred family, or the first.
NextRecord(i, s) == IF Preferred(s) # {}
                    THEN i \in Preferred(s) /\ \A j \in Preferred(s) : i <= j
                    ELSE i = 1

\* connect: the lookup.  Its records are all there when the stream is first
\* polled (IterToStream), and that poll takes them all before anything else.
Lookup(records) ==
    /\ dialPc = "off"
    /\ records \in Lookups
    /\ dialPc' = "polling"
    /\ dns_received' = records
    /\ UNCHANGED <<attempts, delay>>

\* poll_join_next returns an attempt.  connect returns the first connection,
\* and polls again after an error.
JoinError ==
    /\ dialPc = "polling"
    /\ \E a \in completed \ accepting : completed' = completed \ {a}
    /\ UNCHANGED <<dialPc, dns_received, connecting, last_attempted, delay,
                   tried>>

Joinable == dialPc = "polling" /\ completed \cap accepting # {}

\* Mutant of MayAttempt: an attempt under way is always waited for.
MayAttemptAlone == completed = {} /\ connecting = {}

\* poll_join_next has nothing to return and the delay does not hold.
MayAttempt == completed = {} /\ (connecting = {} \/ delay # "running")

Attempt ==
    /\ dialPc = "polling"
    /\ MayAttempt
    /\ \E i \in DOMAIN dns_received :
           /\ NextRecord(i, dns_received)
           /\ dns_received' = RemoveAt(dns_received, i)
           /\ last_attempted' = dns_received[i]
           /\ connecting' = connecting \cup {dns_received[i]}
           /\ tried' = Append(tried, dns_received[i])
    /\ delay' = "running"
    /\ UNCHANGED <<dialPc, completed>>

\* No record is left, but attempts are: poll returns Pending.
Exhausted ==
    /\ dialPc = "polling"
    /\ MayAttempt
    /\ dns_received = <<>>
    /\ connecting # {}
    /\ delay' = "none"
    /\ dialPc' = "parked"
    /\ UNCHANGED <<attempts, dns_received>>

\* Mutant of GivesUp: connect stops at the first error.
GivesUpEarly == dialPc = "polling" /\ completed \ accepting # {}

\* ... and when no attempt is left either, poll_next returns None and connect
\* the last error, if there is one.
GivesUp ==
    /\ dialPc = "polling"
    /\ MayAttempt
    /\ dns_received = <<>>
    /\ connecting = {}

\* The delay holds the next attempt back: poll returns Pending.
Park ==
    /\ dialPc = "polling"
    /\ ~MayAttempt
    /\ completed = {}
    /\ dialPc' = "parked"
    /\ UNCHANGED <<attempts, dns_received, delay>>

\* Poll again, for a waker that poll_join_next or the delay has registered.
Wake ==
    /\ dialPc = "parked"
    /\ completed # {} \/ delay = "elapsed"
    /\ dialPc' = "polling"
    /\ UNCHANGED <<attempts, dns_received, delay>>

-----------------------------------------------------------------------------
\* The runtime: an attempt ends.  One that nobody answers may never end.
AttemptEnds(a) ==
    /\ a \in connecting
    /\ connecting' = connecting \ {a}
    /\ completed' = completed \cup {a}
    /\ UNCHANGED <<dialPc, dns_received, last_attempted, delay, tried>>

DelayElapses ==
    /\ delay = "running"
    /\ delay' = "elapsed"
    /\ UNCHANGED <<attempts, dialPc, dns_received>>

DialStep == JoinError \/ Attempt \/ Exhausted \/ Park \/ Wake

-----------------------------------------------------------------------------
DialTypeOK ==
    /\ accepting \subseteq Addrs
    /\ dialPc \in {"off", "polling", "parked"}
    /\ dns_received \in Seq(Addrs)
    /\ connecting \subseteq Addrs
    /\ completed \subseteq Addrs
    /\ connecting \cap completed = {}
    /\ last_attempted \in Addrs \cup {NoAddr}
    /\ delay \in {"none", "running", "elapsed"}
    /\ tried \in Seq(Addrs)
    /\ dialPc = "off" => DialOff

\* connect reports that no address answers only when every address the lookup
\* gave has been attempted, and none of them has a server.
GivesUpAfterAll ==
    GivesUp => dns_received = <<>> /\ ToSet(tried) \cap accepting = {}

\* next_dns_record interleaves the two families: two attempts in a row are of
\* one family only when the other has no record left.
FamiliesInterleave ==
    \A k \in 1..(Len(tried) - 1) : ~OtherFamily(tried[k], tried[k + 1]) =>
        \A a \in ToSet(SubSeq(tried, k + 2, Len(tried))) \cup
                  ToSet(dns_received) : ~OtherFamily(a, tried[k])

=============================================================================
