---------------------------- MODULE MCLifecycle ----------------------------
(***************************************************************************)
(* Lifecycle with three addresses and a handful of servers.               *)
(***************************************************************************)
EXTENDS Lifecycle

CONSTANTS A4, B4, A6

MCAddrs == {A4, B4, A6}
MCV6 == {A6}

\* The families are in the order next_dns_record has to change; a lookup may
\* also be without an answer.
MCLookups == {<<A4, B4, A6>>, <<>>}

\* The default server and its variations: a scheme with TLS, a server that asks
\* for it, a websocket, zstd, credentials with and without a nonce, refusal.
Default == [tls |-> FALSE, websocket |-> FALSE, auth |-> "none",
            level |-> TRUE, tls_required |-> FALSE, nonce |-> FALSE,
            zstd |-> FALSE, authorizes |-> TRUE]

MCPeers == {
    [Default EXCEPT !.zstd = TRUE],
    [Default EXCEPT !.tls_required = TRUE, !.zstd = TRUE, !.auth = "creds",
                    !.nonce = TRUE],
    [Default EXCEPT !.tls = TRUE, !.tls_required = TRUE, !.auth = "password"],
    [Default EXCEPT !.tls = TRUE, !.websocket = TRUE, !.tls_required = TRUE,
                    !.zstd = TRUE],
    [Default EXCEPT !.auth = "creds"],
    [Default EXCEPT !.auth = "password", !.authorizes = FALSE]}

\* Some sets of addresses that accept with the default server, and every server
\* behind one address.
MCScenarios ==
    {{}, {A6}, {B4}, {A4, A6}} \X {[Default EXCEPT !.zstd = TRUE]}
        \cup {{B4}} \X MCPeers

=============================================================================
