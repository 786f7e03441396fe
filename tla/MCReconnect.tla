----------------------------- MODULE MCReconnect -----------------------------
(***************************************************************************)
(* An instance of Handler for TLC with lost connections.  All that         *)
(* applications may do at once is too much for it.  One that has both a    *)
(* subscription and a request does nothing else; one that has only one of  *)
(* them also uses close_after, publishes and closes the client.  What      *)
(* tells them apart is a second request, which stays as it was.            *)
(***************************************************************************)
EXTENDS Handler

CONSTANTS r1, spare

\* The application has both.
Both == req[spare] = "new"

MCInit ==
    /\ Init
    /\ Both \/ req[r1] = "dropped" \/ \A id \in SubIds : handle[id] = "dropped"

\* The steps of an application of its kind.
MCSteps ==
    /\ req'[spare] = req[spare]
    /\ Both => /\ \A i \in 1..Len(commands') :
                    commands'[i].max = 0 /\ commands'[i].op # "Publish"
               /\ ~shutdownReq' /\ pc' # "closed"

MCSpec == MCInit /\ [][Next]_vars
=============================================================================
