----------------------------- MODULE MCElfLoad -----------------------------
(* Small objects for ElfLoad: every type the passes of do_one_file treat   *)
(* in a way of its own, and one they leave alone.                          *)
EXTENDS ElfLoad

AllTypes == {"STRTAB", "GROUP", "SYMTAB", "DYNAMIC", "REL", "RELA", "PROGBITS"}
=============================================================================
