-------------------------------- MODULE KeyHash --------------------------------
(* The ids under which sys_cfg.c keeps its keys in the NVS: a hash of the key,  *)
(* in 16 bits.  A key is the sequence of the codes of its characters.           *)
EXTENDS Naturals, SequencesExt, Bitwise

SEED == 4660    \* 0x1234

\* one turn of the loop: h ^= *str; h *= 0x5bd1; h ^= h >> 7
Mix(h, c) ==
    LET m == ((h ^^ c) * 23505) % 2^16
    IN  m ^^ (m \div 2^7)

\* Mutant: the loop ends at the first character.
MurmurOATT_16Ends(str, h) == h

MurmurOATT_16(str, h) == FoldLeft(Mix, h, str)

\* get_key_id, as syscfg_get and syscfg_set use it
KeyIdOf(str) == MurmurOATT_16(str, SEED)
=============================================================================
