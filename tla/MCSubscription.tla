---------------------------- MODULE MCSubscription ----------------------------
(* Two clients over two contexts, each with a key the server knows or not,  *)
(* that subscribe to different topics.                                       *)
EXTENDS Subscription, TLC

CONSTANTS a, b

MCTopics == (a :> <<1>>) @@ (b :> <<2>>)
=============================================================================
