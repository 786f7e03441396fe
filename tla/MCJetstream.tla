----------------------------- MODULE MCJetstream -----------------------------
(***************************************************************************)
(* Instances of the JetStream modules for TLC.  They share no state, and a *)
(* behavior is that of one of them: component says whose.                  *)
(***************************************************************************)
EXTENDS Management, Publishing, Listing, Resources

CONSTANTS a, b, f, g        \* callers and configurations

VARIABLE component

-----------------------------------------------------------------------------
Plain == [subject |-> "x", id |-> Unset, expected_stream |-> Unset, last_sequence |-> Unset,
          last_subject_sequence |-> Unset, last_id |-> Unset]
MCOptions ==
    {Plain,
     [Plain EXCEPT !.id = "i"], [Plain EXCEPT !.id = "line\nbreak"],
     [Plain EXCEPT !.subject = "y", !.id = "j"],
     [Plain EXCEPT !.last_sequence = 0], [Plain EXCEPT !.last_sequence = 1],
     [Plain EXCEPT !.last_subject_sequence = 0, !.subject = "y"],
     [Plain EXCEPT !.last_subject_sequence = 1],
     [Plain EXCEPT !.last_id = "i"], [Plain EXCEPT !.last_id = "i", !.id = "j"],
     [Plain EXCEPT !.expected_stream = "S", !.id = "i"],
     [Plain EXCEPT !.expected_stream = "other"]}

Big == 3                    \* beyond the signed type
Huge == 4                   \* beyond 64 bits, as nanoseconds
MCAcks == [policy : {"explicit", "all"}, wait : {0}, max_pending : Option({1, Big})]
          \cup [policy : {"explicit"}, wait : {Big, Huge}, max_pending : {1}]
          \cup {[policy |-> "none"]}
MCDeliver == {[policy |-> "all", start |-> Absent],
              [policy |-> "by_start_sequence", start |-> 1]}
MCSpecs == [kind : {"pull"}, max_waiting : Option({1}), max_expires : {0, 1, Huge}]
           \cup [kind : {"push"}, deliver_subject : {"d"}, deliver_group : Option({"g"}),
                 flow_control : BOOLEAN, idle_heartbeat : {0, 1}]
MCConsumers ==
    [durable : BOOLEAN, name : {"", "c"}, deliver : MCDeliver, ack : MCAcks,
     max_deliver : Option({1, 2, Big}), filters : {<<>>, <<"f">>, <<"f", "g">>},
     specs : MCSpecs, replicas : Option({1}), storage : {"disk"}]
MCStreams ==
    [name : {"", "s"}, subjects : {<<"f">>}, max_messages : Option({0, 2, Big}),
     max_age : {0, 1, Big, Huge}, compression : Option({"s2"}), sealed : BOOLEAN,
     allow_delete : BOOLEAN, allow_purge : BOOLEAN]

-----------------------------------------------------------------------------
\* Where the others stay meanwhile.
NoListing == which = "consumers" /\ invalid = FALSE /\ parentExists = FALSE /\ listed = {}
NoManagement == stream = None
NoPublishing == opts = [c \in Publishers |-> Plain] /\ exists = FALSE
NoResources == config = CHOOSE c \in MCStreams : TRUE

MCInit ==
    /\ component \in {"listing", "management", "publishing", "resources"}
    /\ IF component = "listing" THEN TRUE ELSE NoListing
    /\ IF component = "management" THEN TRUE ELSE NoManagement
    /\ IF component = "publishing" THEN TRUE ELSE NoPublishing
    /\ IF component = "resources" THEN TRUE ELSE NoResources
    /\ Init /\ ListingInit /\ PublishInit /\ ResourcesInit
    \* f and g are interchangeable.
    /\ g \notin {stream, consumer}

MCNext ==
    /\ UNCHANGED component
    /\ \/ /\ component = "listing" /\ ListingNext
          /\ UNCHANGED <<vars, publishVars, resourcesVars>>
       \/ /\ component = "management" /\ Next
          /\ UNCHANGED <<listingVars, publishVars, resourcesVars>>
       \/ /\ component = "publishing" /\ PublishNext
          /\ UNCHANGED <<listingVars, vars, resourcesVars>>
       \/ /\ component = "resources" /\ ResourcesNext
          /\ UNCHANGED <<listingVars, vars, publishVars>>

allVars == <<component, listingVars, vars, publishVars, resourcesVars>>

MCSpec ==
    /\ MCInit /\ [][MCNext]_allVars
    /\ component = "listing" => ListingFairness
=============================================================================
