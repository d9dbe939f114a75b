------------------------------ MODULE MCPeLoad ------------------------------
(* Small files for PeLoad, with the lengths of the real structures: PE     *)
(* objects of 600 bytes with no section or two, both byte orders and       *)
(* classes, with and without a string table, and files of other kinds;     *)
(* names whose dSYM path fits a buffer of 60 bytes, just does not, or is   *)
(* much too long, and two arguments one after the other.                   *)
EXTENDS PeLoad

Long(at, rank, bytes) == [long |-> TRUE, at |-> at, rank |-> rank, size |-> bytes]
Short(rank, bytes) == [long |-> FALSE, at |-> 0, rank |-> rank, size |-> bytes]

Pe(head, bits, symbols, sections) ==
    [size |-> 600, head |-> head, bits |-> bits, endian |-> "none", version |-> 0,
     nt_address |-> 64, nt_signature |-> TRUE, symbols |-> symbols,
     nsymbols |-> 2, strsize |-> 30, sections |-> sections]
Other(head, bits, endian) ==
    [Pe("other", bits, 0, << >>) EXCEPT
        !.head = head, !.endian = endian, !.version = 1]

Two == <<Short(4, 10), Long(30, 3, 10)>>

PeFiles ==
    {Pe("MZ", 32, 500, Two), Pe("ZM", 64, 500, Two), Pe("MZ", 64, 0, << >>),
     Pe("MZ", 64, 500, <<Long(29, 3, 20), Short(2, 30)>>),
     Pe("MZ", 32, 0, <<Long(0, 3, 700), Short(0, 0)>>),
     Pe("MZ", 32, 500, <<Long(31, 3, 1)>>), Pe("MZ", 32, 500, <<Long(-1, 3, 1)>>),
     Pe("MZ", 32, 0, <<Long(1, 3, 1)>>),
     Pe("MZ", 64, 0, [k \in 1 .. 8 |-> Short(4, 0)]),
     Pe("MZ", 32, 600, << >>), Pe("MZ", 32, 560, << >>),
     [Pe("MZ", 32, 500, << >>) EXCEPT !.strsize = 65],
     [Pe("MZ", 32, 0, << >>) EXCEPT !.nt_address = 576]}

OtherFiles ==
    {Other("elf", 64, "little"), Other("elf", 0, "big"), Other("universal", 32, "big"),
     Other("macho", 64, "little"), Other("archive", 0, "none"), Other("text", 0, "none"),
     Pe("MZ", 0, 0, << >>), [Pe("MZ", 32, 0, << >>) EXCEPT !.nt_address = 577],
     [Pe("ZM", 32, 0, << >>) EXCEPT !.nt_signature = FALSE],
     [Other("elf", 64, "little") EXCEPT !.size = 24],
     [Pe("MZ", 32, 0, << >>) EXCEPT !.size = 87]}

MCReplacements ==
    {NoFile, Pe("ZM", 32, 500, Two), Pe("MZ", 64, 0, << >>), Other("elf", 64, "little"),
     [Pe("MZ", 32, 500, Two) EXCEPT !.size = 400],
     [Pe("MZ", 32, 0, <<Short(5, 1), Short(4, 2)>>) EXCEPT !.size = 360]}
MCMisread == {Short(1, 5), Long(30, 2, 8)}

Name(len, file, dsym) == [len |-> len, base |-> len, file |-> file, dsym |-> dsym]
Elf == Other("elf", 64, "little")

MCArguments ==
    {<<Name(4, f, NoFile)>> : f \in PeFiles \cup OtherFiles \cup {NoFile}}
    \cup {<<Name(12, NoFile, f), Name(len, g, h)>> :
             f \in {Other("macho", 64, "little"), Other("text", 0, "none")}, len \in {12, 13, 16, 40},
             g \in {NoFile, Elf}, h \in {NoFile, Other("macho", 32, "big")}}
    \cup {<<Name(4, Pe("MZ", 32, 500, Two), NoFile), Name(4, Pe("MZ", 64, 0, << >>), NoFile)>>}
=============================================================================
