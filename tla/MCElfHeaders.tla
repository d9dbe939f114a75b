---------------------------- MODULE MCElfHeaders ----------------------------
(* Small files for ElfHeaders: headers of 2 and 3 bytes, entries of at     *)
(* most 4, fields up to 7 and counts modulo 61.                            *)
EXTENDS ElfHeaders

Sizes(small, large) == [b \in OffsetSizes |-> IF b = 32 THEN small ELSE large]

MCEhdrSize == Sizes(2, 3)
MCShdrSize == Sizes(2, 3)
MCPhdrSize == Sizes(1, 2)

(* Where program headers are: none, some, one that wraps.                  *)
ProgTables == {<<0, 0, 0>>, <<2, 2, 1>>, <<3, 3, 2>>, <<1, 1, 2>>, <<60, 4, 3>>}

MCObjects ==
    {[filesize |-> size, bits |-> b,
      shoff |-> off, shentsize |-> ent, shnum |-> num, shstrndx |-> ndx,
      phoff |-> p[1], phentsize |-> p[2], phnum |-> p[3],
      zero_size |-> zs, zero_link |-> zl] :
        size \in {7, 12}, b \in OffsetSizes,
        off \in {0, 3, 6}, ent \in {2, 3, 5}, num \in {0, 1, 2, 7},
        ndx \in {0, 1, 2, 7}, p \in ProgTables,
        zs \in {0, 3, 20}, zl \in {0, 1, 3}}
=============================================================================
