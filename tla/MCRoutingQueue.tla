--------------------------- MODULE MCRoutingQueue ---------------------------
(* A small channel runtime: two senders of one channel and one of another, *)
(* one of the conversations routed to a group by a rule.                   *)
EXTENDS RoutingQueue

CONSTANTS discord, telegram, ann, bob, dm, room, any

MCAnyValue == any

MCSource ==
    { [channel |-> discord, sender |-> ann, conversation |-> dm],
      [channel |-> discord, sender |-> ann, conversation |-> room],
      [channel |-> telegram, sender |-> bob, conversation |-> dm] }

MCRules ==
    << [channel |-> discord, sender |-> any, conversation |-> room,
        group |-> <<"rooms">>],
       [channel |-> discord, sender |-> ann, conversation |-> any,
        group |-> <<discord, ann>>] >>
=============================================================================
