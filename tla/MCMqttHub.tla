----------------------------- MODULE MCMqttHub -----------------------------
(***************************************************************************)
(* Small instances of MqttHub: a subscriber and a publisher.               *)
(***************************************************************************)
EXTENDS MqttHub

MCClientOf == [k \in Conns |-> IF k <= 2 THEN "sub" ELSE "pub"]

Option(clean, persistent, will) ==
    [clean_start |-> clean, persistent |-> persistent, will |-> will]

MCConnectOptions ==
    <<{Option(FALSE, TRUE, {})},
      {Option(FALSE, TRUE, {}), Option(TRUE, FALSE, {})},
      {Option(FALSE, TRUE, {"retained"})},
      {Option(FALSE, TRUE, {})}>>

MCQosOf == <<{1, 2}, {2}>>

MCSubscriptions == {[qos |-> 2, no_local |-> TRUE, if_new |-> TRUE]}

=============================================================================
