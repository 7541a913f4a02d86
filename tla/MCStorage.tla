------------------------------- MODULE MCStorage -------------------------------
(* An instance of Storage for TLC, with the ids the program computes. *)
EXTENDS Storage, KeyHash

\* the characters of "dev_nonce" and "water_flow"
Text == [dev_nonce  |-> <<100, 101, 118, 95, 110, 111, 110, 99, 101>>,
         water_flow |-> <<119, 97, 116, 101, 114, 95, 102, 108, 111, 119>>]

MCKeyId == [k \in Keys |-> KeyIdOf(Text[k])]
=============================================================================
