--------------------------- MODULE MCSlackPolling ---------------------------
(***************************************************************************)
(* Adapters, reviewers and arguments for SlackPolling.                     *)
(***************************************************************************)
EXTENDS SlackPolling

MCAdapters == {[kind |-> "slack", verdict |-> None], [kind |-> "mock", verdict |-> "rejected"]}

MCVotes == {[emoji |-> "+1", user |-> "u1"], [emoji |-> "-1", user |-> "u2"]}

\* Nested, listed and plain arguments; one field within another, one that is not
\* there, and one that stands behind a list.
MCArguments ==
    (<<"user">> :> "name") @@ (<<"cred", "key">> :> "secret") @@ (<<"cred", "nested", "pin">> :> "secret")
      @@ (<<"db", "password">> :> "secret") @@ (<<"db", "host">> :> "host") @@ (<<"list", "[0]", "password">> :> "listed")
MCRedactFields == << <<"db", "password">>, <<"cred">>, <<"cred", "key">>, <<"token">>, <<"list", "password">> >>
=============================================================================
