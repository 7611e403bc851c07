----------------------------- MODULE MCLifecycle -----------------------------
(* Instances of Lifecycle for TLC: one sound configuration file, one for    *)
(* each reason to refuse it, and one that fails only when it is bound.      *)
EXTENDS Lifecycle, TLC

MCCommandLine ==
  {<<>>, <<"--config">>, <<"--config", "good">>, <<"good">>,
   <<"--config", "bad", "--config", "storeless">>}

Sound ==
  [origin_url |-> "http", request_timeout_ms |-> 1, max_body_bytes |-> 1,
   store_dir |-> TRUE, one_addr |-> FALSE]

MCFile ==
  [p \in Arg |->
    CASE p = "good"      -> Sound
      [] p = "storeless" -> [Sound EXCEPT !.store_dir = FALSE]
      [] p = "https"     -> [Sound EXCEPT !.origin_url = "https"]
      [] p = "relative"  -> [Sound EXCEPT !.origin_url = "relative"]
      [] p = "timeless"  -> [Sound EXCEPT !.request_timeout_ms = 0]
      [] p = "bodiless"  -> [Sound EXCEPT !.max_body_bytes = 0]
      [] p = "one_addr"  -> [Sound EXCEPT !.one_addr = TRUE]
      [] OTHER           -> Bad]
=============================================================================
