------------------------------- MODULE Listing ------------------------------
(***************************************************************************)
(* Streams and Consumers: the paged listings of the JetStream API.  A      *)
(* listing fetches a page when it has nothing left to yield, and yields    *)
(* the page item by item, while other clients create and delete what is    *)
(* listed.  The server, which answers from the list at the time in the     *)
(* order of the names, is external.                                        *)
(***************************************************************************)
EXTENDS Naturals, SequencesExt, FiniteSetsExt

CONSTANTS
    Items,          \* what may be listed, as numbers in the order of the names
    Limit,          \* limit: the items of a full page
    MaxChanges,     \* bound: streams or consumers made and deleted meanwhile
    MaxFailed       \* bound: requests that time out or come back broken

ASSUME ListingAssumption ==
    /\ Items \subseteq Nat /\ IsFiniteSet(Items)
    /\ Limit \in Nat \ {0}
    /\ MaxChanges \in Nat /\ MaxFailed \in Nat

VARIABLES
    which,          \* Streams or Consumers
    invalid,        \* invalid_stream_name is Some
    offset,         \* items fetched so far
    fetch,          \* no request, one with an offset, or its outcome
    buffer,         \* items of the page that are not yet yielded
    exhausted,      \* the last page was fetched
    awake,          \* the task is to be polled
    yielded,        \* items yielded so far
    errored,        \* an error was yielded
    done,           \* None was yielded
    parentExists,   \* the stream whose consumers are listed exists
    listed,         \* what the server has
    created,        \* names that were created meanwhile
    deleted,        \* names that were deleted meanwhile
    changes, failed \* number of changes and of failed requests so far

results == <<yielded, errored, done>>
listing == <<invalid, offset, fetch, buffer, exhausted, awake, results>>
server == <<parentExists, listed, created, deleted, changes, failed>>
listingVars == <<which, listing, server>>

Idle == [state |-> "idle"]
Asked(o) == [state |-> "asked", offset |-> o]
Page(items) == [state |-> "page", items |-> items]
Failed == [state |-> "failed"]

\* The stream's name makes a subject or not; Streams has no name.
ListingInit ==
    /\ which \in {"streams", "consumers"}
    /\ invalid \in BOOLEAN /\ parentExists \in BOOLEAN
    /\ which = "streams" => parentExists
    /\ invalid => ~parentExists
    /\ offset = 0
    /\ fetch = Idle
    /\ buffer = <<>>
    /\ exhausted = FALSE
    /\ awake = TRUE
    /\ yielded = <<>> /\ errored = FALSE /\ done = FALSE
    /\ listed \in SUBSET Items
    /\ created = {} /\ deleted = {}
    /\ changes = 0 /\ failed = 0

-----------------------------------------------------------------------------
(***************************************************************************)
(* poll_next.  After an item or an error the caller polls again at once.   *)
(***************************************************************************)
Polled == awake /\ ~done

\* The error of the name is yielded once, then the listing ends.
PollInvalid ==
    /\ Polled /\ invalid
    /\ invalid' = FALSE
    /\ exhausted' = TRUE
    /\ errored' = TRUE
    /\ UNCHANGED <<which, offset, fetch, buffer, awake, yielded, done, server>>

PollItem ==
    /\ Polled /\ ~invalid /\ buffer # <<>>
    /\ yielded' = Append(yielded, Head(buffer))
    /\ buffer' = Tail(buffer)
    /\ UNCHANGED <<which, invalid, offset, fetch, exhausted, awake, errored, done,
                   server>>

PollEnd ==
    /\ Polled /\ ~invalid /\ buffer = <<>> /\ exhausted
    /\ done' = TRUE
    /\ UNCHANGED <<which, invalid, offset, fetch, buffer, exhausted, awake, yielded,
                   errored, server>>

Fetches == Polled /\ ~invalid /\ buffer = <<>> /\ ~exhausted

PollFetch ==
    /\ Fetches /\ fetch.state = "idle"
    /\ fetch' = Asked(offset)
    /\ awake' = FALSE
    /\ UNCHANGED <<which, invalid, offset, buffer, exhausted, results, server>>

\* Mutant of IsLast: a full page is taken for the last one.
IsLastWhenFull(items) == Len(items) <= Limit

IsLast(items) == Len(items) < Limit

\* Mutant of NextOffset: the offset counts pages.
NextOffsetOfPage == offset + 1

NextOffset == offset + Limit

\* Mutant of StaysAwake: Pending without a wakeup.
StaysAwakeNot == awake' = FALSE

\* wake_by_ref: nothing else wakes the task when the page has come.
StaysAwake == awake' = TRUE

PollPage ==
    /\ Fetches /\ fetch.state = "page"
    /\ fetch' = Idle
    /\ buffer' = fetch.items
    /\ exhausted' = IsLast(fetch.items)
    /\ offset' = IF ~IsLast(fetch.items) /\ fetch.items # <<>> THEN NextOffset ELSE offset
    /\ StaysAwake
    /\ UNCHANGED <<which, invalid, results, server>>

\* Mutant of AfterError: the page whose fetch failed is skipped.
AfterErrorNext == NextOffset

\* Where the listing goes on after an error.
AfterError == offset

PollError ==
    /\ Fetches /\ fetch.state = "failed"
    /\ fetch' = Idle
    /\ errored' = TRUE
    /\ offset' = AfterError
    /\ UNCHANGED <<which, invalid, buffer, exhausted, awake, yielded, done, server>>

Poll == PollInvalid \/ PollItem \/ PollEnd \/ PollFetch \/ PollPage \/ PollError

-----------------------------------------------------------------------------
(***************************************************************************)
(* The server and the other clients.                                       *)
(***************************************************************************)
Outcome(o) ==
    /\ fetch.state = "asked"
    /\ fetch' = o
    /\ awake' = TRUE
    /\ UNCHANGED <<which, invalid, offset, buffer, exhausted, results, parentExists, listed,
                   created, deleted, changes>>

\* The items of S in order: the k-th has k items up to it.  SetToSortSeq says
\* the same by a permutation of S.
Rank(S, n) == Cardinality({m \in S : m <= n})
InOrder(S) == [k \in 1..Cardinality(S) |-> CHOOSE n \in S : Rank(S, n) = k]

\* The page at an offset of the list as it is.
PageAt(o) == LET all == InOrder(listed) IN
             SubSeq(all, o + 1, IF o + Limit < Len(all) THEN o + Limit ELSE Len(all))

\* An error reply has no page in it and fails to parse.
AnswerPage ==
    /\ Outcome(IF parentExists THEN Page(PageAt(fetch.offset)) ELSE Failed)
    /\ UNCHANGED failed

\* The request is not sent, times out, or is answered with anything else.
FetchFails ==
    /\ failed < MaxFailed /\ failed' = failed + 1
    /\ Outcome(Failed)

Change ==
    /\ changes < MaxChanges /\ changes' = changes + 1
    /\ UNCHANGED <<which, listing, parentExists, failed>>

Create == \E n \in Items \ listed :
    /\ Change /\ UNCHANGED deleted
    /\ listed' = listed \cup {n} /\ created' = created \cup {n}

Delete == \E n \in listed :
    /\ Change /\ UNCHANGED created
    /\ listed' = listed \ {n} /\ deleted' = deleted \cup {n}

ListingNext == Poll \/ AnswerPage \/ FetchFails \/ Create \/ Delete

ListingSpec == ListingInit /\ [][ListingNext]_listingVars

\* The task is polled when it is awake, and a request has an outcome.
ListingFairness == WF_listingVars(Poll) /\ WF_listingVars(AnswerPage)

FairListingSpec == ListingSpec /\ ListingFairness

-----------------------------------------------------------------------------
(***************************************************************************)
(* Properties.                                                             *)
(***************************************************************************)
\* Every variable has its type: the offset is that of a page, which is
\* fetched only into an empty buffer.
ListingTypeOK ==
    /\ which \in {"streams", "consumers"}
    /\ {invalid, exhausted, awake, errored, done, parentExists} \subseteq BOOLEAN
    /\ offset \in Nat /\ \E k \in 0..offset : offset = k * Limit
    /\ \/ fetch \in {Idle, Failed, Asked(offset)}
       \/ fetch.state = "page" /\ fetch.items \in Seq(Items)
    /\ buffer \in Seq(Items) /\ yielded \in Seq(Items)
    /\ buffer # <<>> => fetch = Idle
    /\ listed \subseteq Items /\ deleted \subseteq Items /\ created \subseteq Items
    /\ changes \in 0..MaxChanges /\ failed \in 0..MaxFailed

\* As long as nothing is created or deleted the items come in order and each
\* of them once, whatever requests failed in between.
ListsInOrder == changes = 0 => IsPrefix(yielded, InOrder(listed))

\* A listing that ended has yielded all that was there before it started,
\* unless something was deleted: what others create moves an item to a later
\* page, never past the end, and a failed request loses no page.
NothingIsMissed ==
    done /\ parentExists /\ deleted = {} => listed \ created \subseteq ToSet(yielded)

\* Every listing of what exists or has an invalid name ends, even when
\* requests fail and the list changes meanwhile.
ListingEnds == parentExists \/ invalid => <>done

\* "It yields an error as the first item of the returned stream if the given
\* stream_name produces an invalid subject or if an error occurs while listing
\* the consumers. The stream then terminates." (jetstream/mod.rs:217-219)
ErrorTerminates == which = "consumers" /\ errored ~> done

\* consumer_list.rs and stream_list.rs: items come in order, each once, and all
\* that was there from the first page to the last.
ListingInv == ListingTypeOK /\ ListsInOrder /\ NothingIsMissed
=============================================================================
