---------------------------- MODULE MCThreadOps ----------------------------
(* Programs that make two calls at a time, again and again.                *)
EXTENDS ThreadOps, TLC

CONSTANTS s1, s2

Program(c1, c2) == s1 :> c1 @@ s2 :> c2

MCPlans ==
    {Program({<<"send", "message">>}, {<<"send", "message">>, <<"nonblock_recv", "none">>}),
     Program({<<"send", "copy">>, <<"nonblock", "message">>}, {<<"recv", "none">>}),
     Program({<<"nonblock", "copy">>}, {<<"submit_send", "copy">>}),
     Program({<<"submit_send", "message">>}, {<<"nonblock", "message">>}),
     Program({<<"submit_send", "message">>}, {<<"submit_recv", "none">>})}

MCSubmitPlan == {Program({<<"submit_send", "message">>}, {})}
=============================================================================
