---------------------------- MODULE RootPointer ----------------------------
(***************************************************************************)
(* The root pointer of crates/andromeda-manifest: two files, each of which *)
(* may hold a record that names a manifest; the valid record with the      *)
(* highest generation is the one startup uses.  A new record is written to *)
(* the other file and synced.                                              *)
(*                                                                         *)
(* A file is what a process reads from it.  It may differ from what has    *)
(* been synced: a machine that stops keeps, of a file not yet synced, the  *)
(* old record, the new one or neither.  A record that is absent, cut short *)
(* or fails its CRC is None, as for read_pointer_file.                     *)
(***************************************************************************)
EXTENDS Integers

VARIABLES pointer,   \* the two files, as a process reads them
          synced     \* what is safe on the disk

rootVars == <<pointer, synced>>

File == {"manifest_root_a", "manifest_root_b"}
None == [generation |-> 0]

select_valid_pointer(a, b) == IF a.generation >= b.generation THEN a ELSE b

\* The authoritative record, or None, with which startup fails.
read_root_pointer(files) ==
  select_valid_pointer(files["manifest_root_a"], files["manifest_root_b"])

\* Mutant: the file with the higher generation is overwritten.
OverwritesActive ==
  IF pointer["manifest_root_a"].generation > pointer["manifest_root_b"].generation
  THEN "manifest_root_a" ELSE "manifest_root_b"

\* The file with the lower generation; A if neither holds a record.
InactiveFile ==
  IF pointer["manifest_root_a"].generation > pointer["manifest_root_b"].generation
  THEN "manifest_root_b" ELSE "manifest_root_a"

\* The file is truncated and written.  A write that fails leaves it cut short.
WritePointerFile(file, content) ==
  /\ pointer' = [pointer EXCEPT ![file] = content]
  /\ UNCHANGED synced

fsync_pointer_file(file) ==
  /\ synced' = [synced EXCEPT ![file] = pointer[file]]
  /\ UNCHANGED pointer

\* The process stops and the files stay as they are, or the machine does.
PointerCrash ==
  \/ UNCHANGED rootVars
  \/ /\ \E a \in {synced["manifest_root_a"], pointer["manifest_root_a"], None},
          b \in {synced["manifest_root_b"], pointer["manifest_root_b"], None} :
          LET kept == [f \in File |-> IF f = "manifest_root_a" THEN a ELSE b]
          IN  /\ \A f \in File : pointer[f] = synced[f] => kept[f] = synced[f]
              /\ pointer' = kept
     /\ synced' = pointer'
=============================================================================
