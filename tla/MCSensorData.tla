------------------------------ MODULE MCSensorData ------------------------------
(* A node on the bus with two channels of different sizes, an id that it has  *)
(* not announced between them, and two LoRa nodes with a channel each.        *)
EXTENDS SensorData, TLC

MCChannels   == {1, 3, 4, 5}
MCChannelMap == ("node" :> {1, 3}) @@ ("loraA" :> {4}) @@ ("loraB" :> {5})
MCWidth      == (1 :> 3) @@ (2 :> 1) @@ (3 :> 2) @@ (4 :> 2) @@ (5 :> 4)
MCLoraNodes  == <<"loraA", "loraB">>
MCSymmetry   == Permutations(SendThreads) \cup Permutations(Operators)
MCPoints     == MCChannels \X (1 .. MaxInputs)
=============================================================================
