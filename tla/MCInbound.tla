-------------------------------- MODULE MCInbound --------------------------------
(* An instance of Inbound for TLC: four byte values, so that a length of two bytes is *)
(* at most 15, and parcels with empty fields, longest names and largest sizes.        *)
EXTENDS Inbound

MCTypeBytes ==
  [message |-> <<0, 0>>, delete |-> <<0, 1>>, update |-> <<0, 2>>, file_meta |-> <<1>>,
   key_exchange |-> <<1, 0>>, info_request |-> <<1, 1>>, info_response |-> <<1, 2>>,
   info_changed |-> <<2, 0, 0>>, peer_accepted |-> <<2, 1>>]

Id(n) == <<n>>
Longest == [i \in 1 .. MaxUint(2) |-> i % Base]

MCAttachment ==
  <<[id |-> Id(2), name |-> <<3>>, mime |-> <<>>, size |-> 0, data |-> <<1, 0>>],
    [id |-> Id(1), name |-> <<>>, mime |-> Longest, size |-> MaxInt64, data |-> <<>>]>>

MCMessage ==
  [id : {Id(3)}, from : {Peer}, to : {<<>>, Longest}, content : {<<>>, <<1, 2, 3>>}, time : {MaxInt64},
   created : {0}, updated : {5}, attachments : {<<>>, MCAttachment}]

MCBody ==
  [message       |-> MCMessage,
   file_meta     |-> [name : {<<>>, Longest}, size : {0, MaxInt64}, mime : {<<>>, <<1>>}],
   info_response |-> [name : {<<>>, Longest}, pic : {<<>>, <<1, 0, 3>>}],
   key_exchange  |-> [pubKey : {<<2>>}, staticPubKey : {Peer}, name : {<<>>, Longest}, signature : {<<1, 1>>}],
   update        |-> {<<>>, <<1, 2>>},
   delete        |-> {<<>>},
   info_request  |-> {<<>>},
   info_changed  |-> {<<>>},
   peer_accepted |-> {<<>>},
   chunk         |-> {<<>>, <<1, 1>>}]

MCIds == {Id(3)}
MCPeer == <<2>>
==================================================================================
