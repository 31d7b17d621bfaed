---------------------------- MODULE MCBraCodecs ----------------------------
(***************************************************************************)
(* Instances of BraChunks for TLC: bytes of three bits, chunks of six.     *)
(* One chunk of every shape over three bytes, and files of up to three     *)
(* chunks, the third of which makes the summed length too large.           *)
(***************************************************************************)
EXTENDS BraChunks

MCSymbols == {0, 1, 6}
MCUniform == {[i \in 1 .. n |-> b] : n \in {7, 12}, b \in {0, 6}}
MCMixed == {<<1, 1, 1, 1, 1, 1, 6, 6, 6, 6>>, <<0, 1, 6, 0, 1, 6, 1, 1, 1, 1, 1, 1>>,
            <<0, 0, 0, 0, 0, 0, 0, 0, 0, 1, 6, 6>>}
MCThree == {[i \in 1 .. 18 |-> 1]}
MCUnsteady == {<<>>, <<0, 0, 0, 0, 0, 0>>, <<6, 1, 6>>, [i \in 1 .. 12 |-> IF i = 12 THEN 6 ELSE 0]}
MCFiles == UNION {[1 .. n -> MCSymbols] : n \in 1 .. MaxChunk}
             \union MCMixed \union MCThree \union MCUnsteady

MCLarge == MCThree \union MCUniform
============================================================================
