------------------------------- MODULE MCUploads -------------------------------
(***************************************************************************)
(* Instances of Uploads for TLC: one content that can be a file or a blob  *)
(* and one config that embeds it.                                          *)
(***************************************************************************)
EXTENDS Uploads, TLC

CONSTANTS content, config

MCKinds  == (content :> {"file", "blob"}) @@ (config :> {"config"})
MCEmbeds == (content :> NoObject) @@ (config :> content)

\* Which of several idle requests begins makes no difference: the first one does.
\* (Symmetry would do, but not together with a liveness property.)
FirstIdleBegins ==
    \A r \in Requests : req[r].pc = "idle" /\ req'[r].pc # "idle" =>
        \A q \in Requests : q < r => req[q].pc # "idle"
================================================================================
